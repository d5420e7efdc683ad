------------------------------ MODULE MCImageProc ------------------------------
(***************************************************************************)
(* The frames of a small stream: pictures of one to three columns, sound   *)
(* or broken in one of the ways a frame of the stream can be.              *)
(***************************************************************************)
EXTENDS ImageProc

Marker(m) == <<[unit |-> "marker", m |-> m]>>
SegLength(bytes, rest) == <<[unit |-> "length", bytes |-> bytes, rest |-> rest]>>
DataRows(k) == [i \in 1 .. k |-> [unit |-> "row"]]

Jfif == Marker("APP0") \o SegLength(16, 0) \o
        <<[unit |-> "app", jfif |-> TRUE, adobe |-> None]>>
Comment == Marker("COM") \o SegLength(8, 2) \o
           <<[unit |-> "text"], [unit |-> "text"]>>
Dqt(i) == Marker("DQT") \o SegLength(67, 0) \o
          <<[unit |-> "quant", index |-> i, prec |-> 0, table |-> "own"]>>
Dht == Marker("DHT") \o SegLength(19 + 12, 0) \o
       <<[unit |-> "huff", ac |-> FALSE, index |-> 0, count |-> 12, table |-> "own"]>>
Comp(id, v) == [unit |-> "comp", comp |-> [id |-> id, h |-> 1, v |-> v, tq |-> 0]]
Sof(kind, w, h, n, v) ==
  Marker(kind) \o SegLength(8 + 3 * n, 0) \o
  <<[unit |-> "frame", precision |-> 8, height |-> h, width |-> w, n |-> n]>> \o
  [i \in 1 .. n |-> Comp(i, IF i = 1 THEN v ELSE 1)]
Sos(ids, se, ah) ==
  Marker("SOS") \o SegLength(6 + 2 * Len(ids), 0) \o <<[unit |-> "scan", n |-> Len(ids)]>> \o
  [i \in 1 .. Len(ids) |-> [unit |-> "sel", id |-> ids[i], dc |-> 0, ac |-> 0]] \o
  <<[unit |-> "prog", Ss |-> 0, Se |-> se, Ah |-> ah, Al |-> 0]>>

Of(w, h, good, whole, units) ==
  [w |-> w, h |-> h, good |-> good, whole |-> whole, units |-> units]

Opening(w, h) == Marker("SOI") \o Jfif \o Dqt(0) \o Sof("SOF0", w, h, 3, 1)
\* A baseline picture, of one scan with k rows of data.
Baseline(w, h, k) == Opening(w, h) \o Sos(<<1, 2, 3>>, 63, 0) \o DataRows(k)
EOI == Marker("EOI")

\* A picture with a restart marker after each of its rows of data, or with
\* another marker in its place.
Restarts(w, h, rst) ==
  Marker("SOI") \o Dqt(0) \o Sof("SOF0", w, h, 3, 1) \o Marker("DRI") \o
  SegLength(4, 0) \o <<[unit |-> "interval", interval |-> 1]>> \o
  Sos(<<1, 2, 3>>, 63, 0) \o DataRows(1) \o Marker(rst) \o DataRows(1)

\* Arithmetic coding, with its conditioning set.
Dac(i, val) == Marker("DAC") \o SegLength(4, 0) \o
               <<[unit |-> "cond", index |-> i, val |-> val]>>
Arith(w, h, i, val, se, k) ==
  Marker("SOI") \o Marker("APP14") \o SegLength(14, 0) \o
  <<[unit |-> "app", jfif |-> FALSE, adobe |-> "0"]>> \o Dqt(0) \o Dac(i, val) \o
  Sof("SOF9", w, h, 3, 1) \o Sos(<<1, 2, 3>>, se, 0) \o DataRows(k)

\* A progressive picture of a DC scan and its refinement.
Refined(w, h, al) ==
  Marker("SOI") \o Dqt(0) \o Sof("SOF2", w, h, 3, 1) \o Sos(<<1, 2, 3>>, 0, 0) \o
  DataRows(2) \o Sos(<<1, 2, 3>>, 0, al) \o DataRows(1)

\* Three scans of one component each, and the DC part of a progressive picture.
Scans(w, h, k) ==
  Opening(w, h) \o Sos(<<1>>, 63, 0) \o DataRows(k) \o Dht \o Sos(<<2>>, 63, 0) \o DataRows(k) \o
  Sos(<<3>>, 63, 0) \o DataRows(k)

MCPictures ==
  << Of(2, 3, TRUE, TRUE, Baseline(2, 3, 2) \o EOI),
    Of(2, 3, TRUE, TRUE, Baseline(2, 3, 1) \o EOI),        \* zeroes for the last row
    Of(2, 3, TRUE, TRUE, Baseline(2, 3, 2)),               \* no EOI: never looked for
    Of(2, 3, TRUE, TRUE, Baseline(2, 3, 3) \o Comment \o EOI \o Opening(2, 3)),
    Of(2, 3, TRUE, TRUE, Scans(2, 3, 2) \o EOI),
    Of(2, 3, FALSE, TRUE, Scans(2, 3, 2)),                 \* the last scan has no end
    Of(2, 3, FALSE, FALSE, Baseline(2, 3, 1)),             \* cut in its data
    Of(2, 3, FALSE, TRUE, Opening(2, 3)),                     \* cut in its header
    Of(2, 3, FALSE, TRUE, Opening(2, 3) \o EOI),
    Of(2, 3, FALSE, TRUE, Marker("SOI") \o Dqt(0) \o Sof("SOF0", 2, 3, 1, 1) \o
                          Sos(<<1>>, 63, 0) \o DataRows(2) \o EOI),  \* grey
    Of(2, 3, FALSE, TRUE, Marker("SOI") \o Sof("SOF0", 2, 3, 3, 1) \o
                          Sos(<<1, 2, 3>>, 63, 0) \o DataRows(2) \o EOI), \* no tables
    Of(2, 3, TRUE, TRUE, Restarts(2, 3, "RST0") \o EOI),
    Of(2, 3, TRUE, TRUE, Restarts(2, 3, "RST7") \o Marker("RST0") \o EOI), \* skipped
    Of(2, 3, TRUE, TRUE, Restarts(2, 3, "RST2") \o EOI),  \* left: zeroes
    Of(2, 3, TRUE, TRUE, Restarts(2, 3, "RST4") \o EOI),  \* taken for RST0
    Of(2, 3, TRUE, TRUE, Arith(2, 3, 0, 33, 3, 2) \o EOI),
    Of(2, 3, TRUE, TRUE, Arith(2, 3, 0, 33, 0, 3) \o EOI), \* blocks of one sample
    Of(2, 3, FALSE, FALSE, Arith(2, 3, 0, 33, 3, 1)),      \* cut: no suspension
    Of(2, 3, FALSE, TRUE, Arith(2, 3, 0, 33, 4, 2) \o EOI), \* no such block
    Of(2, 3, FALSE, TRUE, Arith(2, 3, 1, 18, 3, 2) \o EOI), \* L above U
    Of(2, 3, FALSE, TRUE, Opening(2, 3) \o Marker("COM") \o SegLength(8, 5) \o
                          <<[unit |-> "text"]>>),          \* skipped beyond the data
    Of(2, 3, TRUE, TRUE, Refined(2, 3, 1) \o EOI),
    Of(2, 3, FALSE, TRUE, Refined(2, 3, 2) \o EOI),        \* not the next bit
    Of(2, 5, TRUE, TRUE, Baseline(2, 5, 3) \o EOI),
    Of(3, 2, TRUE, TRUE, Baseline(3, 2, 1) \o EOI),
    Of(1, 3, TRUE, TRUE, Marker("SOI") \o Dqt(0) \o Sof("SOF0", 1, 3, 3, 2) \o
                         Sos(<<1, 2, 3>>, 63, 0) \o DataRows(1) \o EOI) >>

MCBitmapSizes == {[w |-> 2, h |-> 3]}
=============================================================================
