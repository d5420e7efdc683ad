------------------------------ MODULE JpegMarkers ------------------------------
(***************************************************************************)
(* The marker reader of the JPEG library (jdmarker.c).  The library is     *)
(* fed by a source that may run dry at any byte: a routine then returns    *)
(* FALSE, whatever it has read of its segment is given back, and it starts *)
(* again at the segment's first byte when more data is there.              *)
(*                                                                         *)
(* A stream is a sequence of units, one for each group of bytes a routine  *)
(* reads as one thing: a marker, a length, the parameters of a frame, a    *)
(* component, a table.  What stands between the segments, entropy-coded    *)
(* data above all, are units of other kinds.  A decompressor's parameters  *)
(* are the record `cinfo`; every routine maps it, and the place `at` of    *)
(* the first unread unit, to their new values and a result.                *)
(***************************************************************************)
EXTENDS Integers, Sequences, SequencesExt, TLC

NUM_TBLS == 4         \* NUM_QUANT_TBLS, NUM_HUFF_TBLS
NUM_ARITH_TBLS == 16
MAX_COMPS_IN_SCAN == 4
None == "none"        \* NULL, and no unread marker

Slots == 0 .. NUM_TBLS - 1
Empty == [s \in Slots |-> None]
RST == <<"RST0", "RST1", "RST2", "RST3", "RST4", "RST5", "RST6", "RST7">>

\* The conditioning of the arithmetic coder, of the tables that a DAC segment
\* has set; the others have their defaults, L = 0, U = 1 and K = 5.
Conditioning == <<>>

\* What jinit_marker_reader and reset_marker_reader leave, with no table yet.
MarkerReader ==
  [unread |-> None, soi |-> FALSE, sof |-> FALSE, next_restart |-> 0,
   kind |-> None, precision |-> 0, height |-> 0, width |-> 0, n |-> 0,
   comp_info |-> <<>>, scan |-> <<>>, Ss |-> 0, Se |-> 0, Ah |-> 0, Al |-> 0, block |-> 0,
   scans |-> 0, restart |-> 0, color |-> None, jfif |-> FALSE, adobe |-> None,
   quant |-> Empty, dc |-> Empty, ac |-> Empty, cond |-> Conditioning]

Reset(c) == [c EXCEPT !.unread = None, !.soi = FALSE, !.sof = FALSE,
                      !.comp_info = <<>>, !.scans = 0]

\* The three ways a routine ends.
Done(c, at) == [c |-> c, at |-> at, ret |-> "done"]
Suspend(c, at) == [c |-> c, at |-> at, ret |-> "suspended"]
Error(c, at, code) == [c |-> c, at |-> at, ret |-> code]

\* A stream of units: the one that a routine reads after its marker, if it is
\* there at all, holds what the routine expects to be numbers.
Sofs == {"SOF0", "SOF1", "SOF2", "SOF9", "SOF10"}
Skipped == {"APP1", "COM", "DNL"}
FormedAt(in, k) ==
  /\ in[k].m \in Sofs /\ k + 2 <= Len(in) =>
       in[k + 2].width \in Nat /\ in[k + 2].height \in Nat /\ in[k + 2].n \in Nat
  /\ in[k].m = "SOS" /\ k + 2 <= Len(in) => in[k + 2].n \in Nat
  /\ in[k].m \in {"APP0", "APP14"} \cup Skipped /\ k + 1 <= Len(in) =>
       in[k + 1].rest \in Nat
Formed(in) ==
  Len(in) \in Nat /\ \A k \in 1 .. Len(in) : in[k].unit = "marker" => FormedAt(in, k)

-----------------------------------------------------------------------------
\* Start of image: every default parameter is set again.
GetSoi(c, at) ==
  IF c.soi THEN Error(c, at, "JERR_SOI_DUPLICATE")
  ELSE Done([c EXCEPT !.soi = TRUE, !.restart = 0, !.color = None,
                      !.cond = Conditioning, !.jfif = FALSE, !.adobe = None], at)

SofError(c, length) ==
  CASE c.sof -> "JERR_SOF_DUPLICATE"
    [] c.height <= 0 \/ c.width <= 0 \/ c.n <= 0 -> "JERR_EMPTY_IMAGE"
    [] length - 8 # 3 * c.n -> "JERR_BAD_LENGTH"
    [] OTHER -> None

\* Start of frame.  The parameters are assigned as they are read, the frame
\* counts as seen at the end only.
GetSof(c, in, at, have) ==
  LET c0 == [c EXCEPT !.kind = c.unread]
      f == in[at + 2]
      c1 == [c0 EXCEPT !.precision = f.precision, !.height = f.height,
                       !.width = f.width, !.n = f.n]
      code == SofError(c1, in[at + 1].bytes)
      read == IF have - at - 2 < f.n THEN have - at - 2 ELSE f.n
      c2 == [c1 EXCEPT !.comp_info =
               [i \in 1 .. f.n |-> IF i <= read THEN in[at + 2 + i].comp
                                   ELSE IF i \in DOMAIN @ THEN @[i] ELSE None]]
  IN  IF have < at + 2 THEN Suspend(c0, at)
      ELSE IF code # None THEN Error(c1, at, code)
      ELSE IF read < f.n THEN Suspend(c2, at)
      ELSE Done([c2 EXCEPT !.sof = TRUE], at + 2 + f.n)

SosError(c, length, n) ==
  CASE length # 2 * n + 6 \/ n > MAX_COMPS_IN_SCAN -> "JERR_BAD_LENGTH"
    [] n = 0 /\ c.kind \notin {"SOF2", "SOF10"} -> "JERR_BAD_LENGTH"
    [] OTHER -> None

\* Start of scan: the components it names, found by their ids, and what part
\* of their coefficients it brings.
GetSos(c, in, at, have) ==
  LET n == in[at + 2].n
      code == SosError(c, in[at + 1].bytes, n)
      read == IF have - at - 2 < n THEN have - at - 2 ELSE n
      Known(i) == \E k \in 1 .. c.n : c.comp_info[k].id = in[at + 2 + i].id
      Of(i) == CHOOSE k \in 1 .. c.n :
                 /\ c.comp_info[k].id = in[at + 2 + i].id
                 /\ \A j \in 1 .. k - 1 : c.comp_info[j].id # in[at + 2 + i].id
      c1 == [c EXCEPT !.scan = [i \in 1 .. read |->
               [ci |-> Of(i), dc |-> in[at + 2 + i].dc, ac |-> in[at + 2 + i].ac]]]
      p == in[at + 3 + n]
  IN  IF ~ c.sof THEN Error(c, at, "JERR_SOS_NO_SOF")
      ELSE IF have < at + 2 THEN Suspend(c, at)
      ELSE IF code # None THEN Error(c, at, code)
      ELSE IF \E i \in 1 .. read : ~ Known(i)
           THEN Error(c, at, "JERR_BAD_COMPONENT_ID")
      ELSE IF have < at + 3 + n THEN Suspend(c1, at)
      ELSE Done([c1 EXCEPT !.Ss = p.Ss, !.Se = p.Se, !.Ah = p.Ah, !.Al = p.Al,
                           !.next_restart = 0,
                           !.scans = IF n > 0 THEN @ + 1 ELSE @], at + 3 + n)

-----------------------------------------------------------------------------
(***************************************************************************)
(* The segments that hold tables.  Each table is stored as soon as it is   *)
(* read, while the length that is left says that there are more.           *)
(***************************************************************************)
\* Such a loop, unit by unit of those that are there: c and at so far, what is
\* left of the length, and how the loop ended, "reading" while it goes on.
Reading(c, at, left) == [c |-> c, at |-> at, left |-> left, ret |-> "reading"]
Stored(r, c, bytes) == [r EXCEPT !.c = c, !.at = @ + 1, !.left = @ - bytes]

HuffError(u, left) ==
  CASE u.count > 256 \/ u.count > left - 17 -> "JERR_BAD_HUFF_TABLE"
    [] u.index \notin Slots -> "JERR_DHT_INDEX"
    [] OTHER -> None

TakeHuff(r, u) ==
  IF HuffError(u, r.left) # None THEN [r EXCEPT !.ret = HuffError(u, r.left)]
  ELSE Stored(r, IF u.ac THEN [r.c EXCEPT !.ac[u.index] = u.table]
                 ELSE [r.c EXCEPT !.dc[u.index] = u.table], 17 + u.count)

\* A table of fewer than 64 values is that of a smaller block.
QuantBytes(u, left) ==
  LET size == IF u.prec > 0 THEN 2 ELSE 1
      count == IF left - 1 < 64 * size THEN (left - 1) \div size ELSE 64
  IN  1 + size * count

TakeQuant(r, u) ==
  IF u.index \notin Slots THEN [r EXCEPT !.ret = "JERR_DQT_INDEX"]
  ELSE Stored(r, [r.c EXCEPT !.quant[u.index] = u.table], QuantBytes(u, r.left))

CondError(u) ==
  CASE u.index >= 2 * NUM_ARITH_TBLS -> "JERR_DAC_INDEX"
    [] u.index < NUM_ARITH_TBLS /\ u.val % 16 > u.val \div 16 -> "JERR_DAC_VALUE"
    [] OTHER -> None

TakeCond(r, u) ==
  IF CondError(u) # None THEN [r EXCEPT !.ret = CondError(u)]
  ELSE Stored(r, [r.c EXCEPT !.cond = (u.index :> u.val) @@ @], 2)

TakeTable(kind, r, u) ==
  CASE kind = "DHT" -> TakeHuff(r, u)
    [] kind = "DQT" -> TakeQuant(r, u)
    [] kind = "DAC" -> TakeCond(r, u)

\* It goes on while more than `least` bytes are left, and has to end with none.
TableErrors == {"JERR_BAD_HUFF_TABLE", "JERR_DHT_INDEX", "JERR_DQT_INDEX",
                "JERR_DAC_INDEX", "JERR_DAC_VALUE"}
Round(kind, least, r, u) ==
  IF r.ret = "reading" /\ r.left > least THEN TakeTable(kind, r, u) ELSE r
Rounds(kind, least, first, in, at, have) ==
  LET after[k \in 0 .. have - at] ==   \* after the next k units
        IF k = 0 THEN first ELSE Round(kind, least, after[k - 1], in[at + k])
  IN  after[have - at]
Ended(r, least) ==
  CASE r.ret \in TableErrors -> Error(r.c, r.at, r.ret)
    [] r.ret = "reading" /\ r.left > least -> Suspend(r.c, r.at)
    [] r.ret = "reading" /\ r.left = 0 -> Done(r.c, r.at)
    [] OTHER -> Error(r.c, r.at, "JERR_BAD_LENGTH")
Tables(kind, least, c, in, at, left, have) ==
  Ended(Rounds(kind, least, Reading(c, at, left), in, at, have), least)

\* A suspended routine starts again at its segment's first unit.
Again(r, at) == IF r.ret = "suspended" THEN [r EXCEPT !.at = at] ELSE r

GetDht(c, in, at, have) ==
  IF at + 1 > have THEN Suspend(c, at)
  ELSE Again(Tables("DHT", 16, c, in, at + 1, in[at + 1].bytes - 2, have), at)

GetDqt(c, in, at, have) ==
  IF at + 1 > have THEN Suspend(c, at)
  ELSE Again(Tables("DQT", 0, c, in, at + 1, in[at + 1].bytes - 2, have), at)

GetDac(c, in, at, have) ==
  IF at + 1 > have THEN Suspend(c, at)
  ELSE Again(Tables("DAC", 0, c, in, at + 1, in[at + 1].bytes - 2, have), at)

GetDri(c, in, at, have) ==
  IF at + 1 > have THEN Suspend(c, at)
  ELSE IF in[at + 1].bytes # 4 THEN Error(c, at, "JERR_BAD_LENGTH")
  ELSE IF at + 2 > have THEN Suspend(c, at)
  ELSE Done([c EXCEPT !.restart = in[at + 2].interval], at + 2)

-----------------------------------------------------------------------------
\* skip_input_data, of a source that has the next units or loses its place.
Skip(at, units, have) == IF at + units > have THEN have ELSE at + units

\* APP0 and APP14 tell the colour space; their unit holds the first bytes.
GetInteresting(c, in, at, have) ==
  LET d == in[at + 2]
      seen == CASE c.unread = "APP0" /\ d.jfif -> [c EXCEPT !.jfif = TRUE]
                [] c.unread = "APP14" /\ d.adobe # None -> [c EXCEPT !.adobe = d.adobe]
                [] OTHER -> c
  IN  IF at + 2 > have THEN Suspend(c, at)
      ELSE Done(seen, Skip(at + 2, in[at + 1].rest, have))

SkipVariable(c, in, at, have) ==
  IF at + 1 > have THEN Suspend(c, at)
  ELSE Done(c, Skip(at + 1, in[at + 1].rest, have))

\* next_marker: whatever stands before the next marker is discarded for good,
\* so that the search goes on where it stopped.
NextMarker(c, in, at, have) ==
  LET markers == {k \in at + 1 .. have : in[k].unit = "marker"}
      next == CHOOSE k \in markers : \A j \in markers : k <= j
  IN  IF markers = {} THEN Suspend(c, have)
      ELSE Done([c EXCEPT !.unread = in[next].m], next)

\* first_marker: the very first bytes must be an SOI.
FirstMarker(c, in, at, have) ==
  IF at + 1 > have THEN Suspend(c, at)
  ELSE IF in[at + 1].unit # "marker" THEN Error(c, at, "JERR_NO_SOI")
  ELSE IF in[at + 1].m # "SOI" THEN Error(c, at, "JERR_NO_SOI")
  ELSE Done([c EXCEPT !.unread = "SOI"], at + 1)

FindMarker(c, in, at, have) ==
  IF c.unread # None THEN Done(c, at)
  ELSE IF c.soi THEN NextMarker(c, in, at, have) ELSE FirstMarker(c, in, at, have)

Parameterless == {RST[k] : k \in 1 .. 8} \cup {"TEM"}

\* The routine of one marker.
Process(c, in, at, have) ==
  CASE c.unread = "SOI" -> GetSoi(c, at)
    [] c.unread \in Sofs -> GetSof(c, in, at, have)
    [] c.unread = "SOS" -> GetSos(c, in, at, have)
    [] c.unread = "EOI" -> Done(c, at)
    [] c.unread = "DAC" -> GetDac(c, in, at, have)
    [] c.unread = "DHT" -> GetDht(c, in, at, have)
    [] c.unread = "DQT" -> GetDqt(c, in, at, have)
    [] c.unread = "DRI" -> GetDri(c, in, at, have)
    [] c.unread \in {"APP0", "APP14"} -> GetInteresting(c, in, at, have)
    [] c.unread \in Skipped -> SkipVariable(c, in, at, have)
    [] c.unread \in Parameterless -> Done(c, at)
    [] c.unread = "SOF3" -> Error(c, at, "JERR_SOF_UNSUPPORTED")
    [] OTHER -> Error(c, at, "JERR_UNKNOWN_MARKER")

\* One round of read_markers: a marker is found and processed.  "done" asks
\* for another round; the scan's start and the image's end are told apart.
AfterMarker(r, m) ==
  IF r.ret # "done" THEN r
  ELSE [r EXCEPT !.c.unread = None, !.ret = IF m \in {"SOS", "EOI"} THEN m ELSE "done"]
AtMarker(found, in, have) ==
  IF found.ret # "done" THEN found
  ELSE AfterMarker(Process(found.c, in, found.at, have), found.c.unread)
ReadMarker(c, in, at, have) == AtMarker(FindMarker(c, in, at, have), in, have)

-----------------------------------------------------------------------------
\* jpeg_resync_to_restart: the marker found is not the restart marker wanted.
\* It is taken for it, skipped, or left for later.
NumberOf(m) == CHOOSE k \in 0 .. 7 : RST[k + 1] = m
Recovery(m, desired) ==
  IF m \notin {RST[k] : k \in 1 .. 8} THEN IF m = "TEM" THEN "skip" ELSE "leave"
  ELSE CASE NumberOf(m) \in {(desired + 1) % 8, (desired + 2) % 8} -> "leave"
         [] NumberOf(m) \in {(desired - 1) % 8, (desired - 2) % 8} -> "skip"
         [] OTHER -> "take"

\* It goes from marker to marker, from the one found on, to the first that is
\* not skipped.
Resync(found, in, have) ==
  LET AtHand(k) == IF k = found.at THEN found.c ELSE [found.c EXCEPT !.unread = in[k].m]
      Action(k) == Recovery(AtHand(k).unread, found.c.next_restart)
      markers == {found.at} \cup {k \in found.at + 1 .. have : in[k].unit = "marker"}
      ends == {k \in markers : Action(k) # "skip"}
      end == Min(ends)
  IN  IF ends = {} THEN Suspend(AtHand(Max(markers)), have)
      ELSE IF Action(end) = "take" THEN Done([AtHand(end) EXCEPT !.unread = None], end)
      ELSE Done(AtHand(end), end)

\* read_restart_marker, called by an entropy decoder between two intervals.
AfterRestart(r) ==
  IF r.ret # "done" THEN r ELSE [r EXCEPT !.c.next_restart = (@ + 1) % 8]
AtRestart(found, in, have) ==
  IF found.ret # "done" THEN found
  ELSE IF found.c.unread = RST[found.c.next_restart + 1]
  THEN AfterRestart([found EXCEPT !.c.unread = None])
  ELSE AfterRestart(Resync(found, in, have))
ReadRestart(c, in, at, have) ==
  AtRestart(IF c.unread # None THEN Done(c, at) ELSE NextMarker(c, in, at, have),
            in, have)
=============================================================================
