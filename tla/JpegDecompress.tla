----------------------------- MODULE JpegDecompress -----------------------------
(***************************************************************************)
(* A decompressor of the JPEG library: the calls an application makes      *)
(* (jdapimin.c, jdapistd.c), the input side behind them (jdinput.c), the   *)
(* output side row by row (jdcoefct.c, jdmainct.c, jdsample.c), and the    *)
(* pools its memory comes from (jmemmgr.c).  Every call is an operator on  *)
(* the decompressor `d`; what a long loop of the code repeats is one       *)
(* operator for a round of it, and the caller's steps repeat it.           *)
(*                                                                         *)
(* Samples are left out: an iMCU row is decoded, or not, as a whole, and   *)
(* the rows of the picture are known by their numbers.                     *)
(***************************************************************************)
EXTENDS JpegMarkers, FiniteSets, FiniteSetsExt

CONSTANT DCTSIZE   \* rows of a block; 8 in the code

ASSUME DctsizeAssumption == DCTSIZE \in Nat \ {0}

JPEG_MAX_DIMENSION == 65500
BITS_IN_JSAMPLE == 8
MAX_COMPONENTS == 10
MAX_SAMP_FACTOR == 4
D_MAX_BLOCKS_IN_MCU == 10

DivRoundUp(a, b) == (a + b - 1) \div b   \* jdiv_round_up

Progressive(c) == c.kind \in {"SOF2", "SOF10"}
Arithmetic(c) == c.kind \in {"SOF9", "SOF10"}
Components(c) == {c.comp_info[i] : i \in 1 .. c.n}
MaxH(c) == Max({1} \cup {comp.h : comp \in Components(c)})
MaxV(c) == Max({1} \cup {comp.v : comp \in Components(c)})
\* total_iMCU_rows; `block` is the block_size that the first scan settled.
TotalRows(c) == DivRoundUp(c.height, MaxV(c) * c.block)

-----------------------------------------------------------------------------
(***************************************************************************)
(* Memory: what is allocated in the two pools, by kind.  `mem` is FALSE    *)
(* when there is no memory manager.                                        *)
(***************************************************************************)
Pools == {"permanent", "image"}
NoMemory == [mem |-> FALSE, pool |-> [p \in Pools |-> {}]]

Alloc(d, p, names) == [d EXCEPT !.pool[p] = @ \cup names]
FreePool(d, p) == [d EXCEPT !.pool[p] = {}]
\* Mutant of SelfDestruct: the permanent pool is forgotten.
KeepsPermanent(d) == [FreePool(d, "image") EXCEPT !.mem = FALSE]
\* self_destruct: the pools from the shortest-lived on, then the manager.
SelfDestruct(d) ==
  [FreePool(FreePool(d, "image"), "permanent") EXCEPT !.mem = FALSE]

\* jpeg_abort keeps the permanent pool, jpeg_destroy nothing.
Abort(d) == IF d.mem THEN [FreePool(d, "image") EXCEPT !.state = "START"] ELSE d
Destroy(d) == [IF d.mem THEN SelfDestruct(d) ELSE d EXCEPT !.state = "NONE"]

\* The tables and the component list that reading a marker allocates.
IfAny(tables, name) == IF tables = Empty THEN {} ELSE {name}
TableNames(c) ==
  IfAny(c.quant, "quant tables") \cup IfAny(c.dc, "dc tables") \cup IfAny(c.ac, "ac tables")
MarkerAllocs(d) ==
  Alloc(Alloc(d, "permanent", TableNames(d.c)), "image",
        IF d.c.comp_info # <<>> THEN {"comp_info"} ELSE {})

-----------------------------------------------------------------------------
(***************************************************************************)
(* A decompressor.  `at` is the place in the source; `ret` what the last   *)
(* call returned, or the error it ended with.                              *)
(***************************************************************************)
NoDecompressor ==
  [mem |-> FALSE, pool |-> NoMemory.pool, state |-> "NONE", c |-> MarkerReader,
   at |-> 0, ret |-> "done", inheaders |-> 1, multi |-> FALSE, eoi |-> FALSE,
   consume |-> "markers", input_row |-> 0, latched |-> {}, forced |-> None,
   output_row |-> 0, full |-> FALSE, rowgroup |-> 0, next_row |-> 0,
   rows_to_go |-> 0, scanline |-> 0, out |-> 0, togo |-> 0]

Fail(d, code) == [d EXCEPT !.ret = code]
Failed(d) == d.ret \notin {"done", "suspended", "SOS", "EOI", "row", "scan", "ok"}

\* jpeg_CreateDecompress, with jinit_memory_mgr, jinit_marker_reader and
\* jinit_input_controller; then the application's source.
Create == Alloc([NoDecompressor EXCEPT !.mem = TRUE, !.state = "START"],
                "permanent", {"marker", "inputctl"})
AddSource(d) == Alloc(d, "permanent", {"src"})

-----------------------------------------------------------------------------
(***************************************************************************)
(* Input side.                                                             *)
(***************************************************************************)
MAX_BLOCK_SIZE == 16

\* The blocks are those of the standard, in a baseline picture and where a
\* progressive one begins with a scan of components; otherwise Se, the last
\* coefficient, gives their size.
StandardBlocks(c) == c.kind = "SOF0" \/ (Progressive(c) /\ c.scan # <<>>)
SizesOf(c) ==
  IF StandardBlocks(c) THEN {DCTSIZE} ELSE {k \in 1 .. MAX_BLOCK_SIZE : k * k - 1 = c.Se}

\* initial_setup, at the first scan of an image: what it refuses.
SetupError(c) ==
  CASE c.height > JPEG_MAX_DIMENSION \/ c.width > JPEG_MAX_DIMENSION ->
         "JERR_IMAGE_TOO_BIG"
    [] c.precision # BITS_IN_JSAMPLE -> "JERR_BAD_PRECISION"
    [] c.n > MAX_COMPONENTS -> "JERR_COMPONENT_COUNT"
    [] \E comp \in Components(c) : comp.h \notin 1 .. MAX_SAMP_FACTOR \/
                                   comp.v \notin 1 .. MAX_SAMP_FACTOR ->
         "JERR_BAD_SAMPLING"
    [] SizesOf(c) = {} -> "JERR_BAD_PROGRESSION"
    [] OTHER -> None

InitialSetup(d) ==
  IF SetupError(d.c) # None THEN Fail(d, SetupError(d.c))
  ELSE [d EXCEPT !.c.block = Min(SizesOf(d.c)),
                 !.multi = Len(d.c.scan) < d.c.n \/ Progressive(d.c)]

\* per_scan_setup, latch_quant_tables and start_pass_huff_decoder: what is
\* wrong with a scan.  A component's quantization table is the one it had
\* when its first scan began.
BlocksInMcu(c) ==
  MapThenSumSet(LAMBDA i : c.comp_info[c.scan[i].ci].h * c.comp_info[c.scan[i].ci].v,
                DOMAIN c.scan)
NoQuant(d) ==
  \E s \in {d.c.scan[i].ci : i \in DOMAIN d.c.scan} \ d.latched :
    \/ d.c.comp_info[s].tq \notin Slots
    \/ d.c.quant[d.c.comp_info[s].tq] = None
BadProgression(c) ==
  \/ IF c.Ss = 0 THEN c.Se # 0 ELSE c.Se < c.Ss \/ c.Se > 63 \/ Len(c.scan) # 1
  \/ c.Ah # 0 /\ c.Ah - 1 # c.Al
  \/ c.Al > 13
\* The tables that the decoding of a scan needs.
NeedsDc(c) == ~ Progressive(c) \/ (c.Ss = 0 /\ c.Ah = 0)
NeedsAc(c) == ~ Progressive(c) \/ c.Ss # 0
NoHuff(c) ==
  \E i \in DOMAIN c.scan :
    \/ NeedsDc(c) /\ (c.scan[i].dc \notin Slots \/ c.dc[c.scan[i].dc] = None)
    \/ NeedsAc(c) /\ (c.scan[i].ac \notin Slots \/ c.ac[c.scan[i].ac] = None)
ScanError(d) ==
  CASE Len(d.c.scan) > 1 /\ BlocksInMcu(d.c) > D_MAX_BLOCKS_IN_MCU ->
         "JERR_BAD_MCU_SIZE"
    [] NoQuant(d) -> "JERR_NO_QUANT_TABLE"
    [] Progressive(d.c) /\ BadProgression(d.c) -> "JERR_BAD_PROGRESSION"
    [] ~ Arithmetic(d.c) /\ NoHuff(d.c) -> "JERR_NO_HUFF_TABLE"
    [] OTHER -> None

StartInputPass(d) ==
  IF ScanError(d) # None THEN Fail(d, ScanError(d))
  ELSE Alloc([d EXCEPT !.latched = @ \cup {d.c.scan[i].ci : i \in DOMAIN d.c.scan},
                       !.input_row = 0, !.togo = d.c.restart, !.consume = "data"],
             "image", {"quant copies", "derived tables"})

\* consume_markers, at the start of a scan.  A scan of no component only sets
\* the block size, and the reading goes on.
FirstScan(d) ==
  IF Failed(d) THEN d
  ELSE IF d.c.scan = <<>> THEN [d EXCEPT !.inheaders = 2, !.ret = "done"]
  ELSE [d EXCEPT !.inheaders = 0]
AtScan(d) ==
  CASE d.inheaders > 0 -> FirstScan(IF d.inheaders = 1 THEN InitialSetup(d) ELSE d)
    [] d.inheaders = 0 /\ ~ d.multi -> Fail(d, "JERR_EOI_EXPECTED")
    [] d.inheaders = 0 /\ d.multi /\ d.c.scan = <<>> -> [d EXCEPT !.ret = "done"]
    [] OTHER -> StartInputPass(d)

AtEnd(d) ==
  IF d.inheaders > 0 /\ d.c.sof THEN Fail([d EXCEPT !.eoi = TRUE], "JERR_SOF_NO_SOS")
  ELSE [d EXCEPT !.eoi = TRUE]

\* One marker of consume_markers.
TakeMarker(d, r) ==
  MarkerAllocs([d EXCEPT !.c = r.c, !.at = r.at, !.ret = r.ret])
ActOnMarker(d) ==
  CASE d.ret = "SOS" -> AtScan(d) [] d.ret = "EOI" -> AtEnd(d) [] OTHER -> d
ConsumeMarker(d, in, have) ==
  IF d.eoi THEN [d EXCEPT !.ret = "EOI"]
  ELSE ActOnMarker(TakeMarker(d, ReadMarker(d.c, in, d.at, have)))

\* Mutant of DataRow: at a marker the row is waited for.
WaitsAtMarker(d, in, have) ==
  IF d.c.unread # None \/ d.at = have THEN [d EXCEPT !.ret = "suspended"]
  ELSE [d EXCEPT !.ret = "done", !.at = @ + 1,
                 !.c.unread = IF in[d.at + 1].unit = "marker" THEN in[d.at + 1].m ELSE None]
\* The source has run dry: the Huffman decoders wait for more, the arithmetic
\* decoder is not made for that.
RunDry(d) ==
  IF Arithmetic(d.c) THEN Fail(d, "JERR_CANT_SUSPEND") ELSE [d EXCEPT !.ret = "suspended"]
\* An entropy decoder asks for one iMCU row: it is there, it is not there yet,
\* or the data have ended at a marker and zeroes take their place.
DataRow(d, in, have) ==
  CASE d.c.unread # None -> [d EXCEPT !.ret = "done"]
    [] d.c.unread = None /\ d.at = have -> RunDry(d)
    [] OTHER -> [d EXCEPT !.ret = "done", !.at = @ + 1,
                          !.c.unread = IF in[d.at + 1].unit = "marker"
                                       THEN in[d.at + 1].m ELSE None]

\* process_restart between two intervals (of iMCU rows, here); an interval is
\* counted when its row has been decoded.
Restarted(d, in, have) ==
  IF d.ret = "suspended" THEN RunDry(d)
  ELSE DataRow([d EXCEPT !.togo = d.c.restart], in, have)
RowCounted(d) == IF d.ret # "done" \/ d.c.restart = 0 THEN d
                 ELSE [d EXCEPT !.togo = @ - 1]
RowData(d, in, have) ==
  RowCounted(IF d.c.restart > 0 /\ d.togo = 0
             THEN Restarted(TakeMarker(d, ReadRestart(d.c, in, d.at, have)), in, have)
             ELSE DataRow(d, in, have))

\* Mutant of NextInputRow: the input pass is never finished.
NeverFinishes(d) ==
  [d EXCEPT !.input_row = IF @ + 1 < TotalRows(d.c) THEN @ + 1 ELSE @, !.ret = "row"]
\* The end of an iMCU row of the input; after the last the markers are next.
NextInputRow(d) ==
  IF d.input_row + 1 < TotalRows(d.c)
  THEN [d EXCEPT !.input_row = @ + 1, !.ret = "row"]
  ELSE [d EXCEPT !.input_row = @ + 1, !.consume = "markers", !.ret = "scan"]

\* consume_data of a picture of many scans; a picture of one scan is decoded
\* while it is put out, and its dummy_consume_data has nothing to give.
AfterRow(d) == IF d.ret # "done" THEN d ELSE NextInputRow(d)
ConsumeData(d, in, have) ==
  IF d.multi THEN AfterRow(RowData(d, in, have)) ELSE [d EXCEPT !.ret = "suspended"]

ConsumeInput(d, in, have) ==
  IF d.consume = "markers" THEN ConsumeMarker(d, in, have)
  ELSE ConsumeData(d, in, have)

-----------------------------------------------------------------------------
(***************************************************************************)
(* The application's calls.                                                *)
(***************************************************************************)
BadState(d) == Fail(d, "JERR_BAD_STATE")

\* reset_input_controller, at the first reading of an image.
ResetInput(d) ==
  [d EXCEPT !.consume = "markers", !.multi = FALSE, !.eoi = FALSE,
            !.inheaders = 1, !.c = Reset(d.c), !.latched = {}, !.state = "INHEADER"]

\* default_decompress_parms: the colour space guessed from the markers.
ColorSpace(c) ==
  CASE c.n = 1 -> "GRAYSCALE"
    [] c.n = 3 -> IF c.jfif THEN "YCbCr"
                  ELSE IF c.adobe = "0" THEN "RGB" ELSE "YCbCr"
    [] c.n = 4 -> IF c.adobe \in {None, "0"} THEN "CMYK" ELSE "YCCK"
    [] OTHER -> "UNKNOWN"

\* A round of jpeg_read_header(TRUE), with jpeg_consume_input.
AfterHeader(d) ==
  CASE d.ret = "SOS" -> [d EXCEPT !.c.color = ColorSpace(d.c), !.state = "READY",
                                  !.ret = "ok"]
    [] d.ret = "EOI" -> Fail(d, "JERR_NO_IMAGE")
    [] OTHER -> d
ReadHeader(d, in, have) ==
  CASE d.state = "START" -> AfterHeader(ConsumeInput(ResetInput(d), in, have))
    [] d.state = "INHEADER" -> AfterHeader(ConsumeInput(d, in, have))
    [] OTHER -> BadState(d)

\* jinit_color_deconverter and jinit_upsampler: what they refuse.  A component
\* is blown up by the inverse DCT as far as powers of two reach.
Grown(max, f) == IF max % (2 * f) = 0 THEN 2 * f ELSE f
SelectionError(c) ==
  CASE c.color \in {"YCbCr", "RGB"} /\ c.n # 3 -> "JERR_BAD_J_COLORSPACE"
    [] c.color = "GRAYSCALE" /\ c.n # 1 -> "JERR_BAD_J_COLORSPACE"
    [] c.color \in {"CMYK", "YCCK"} /\ c.n # 4 -> "JERR_BAD_J_COLORSPACE"
    [] \E comp \in Components(c) : \/ MaxH(c) % Grown(MaxH(c), comp.h) # 0
                                   \/ MaxV(c) % Grown(MaxV(c), comp.v) # 0 ->
         "JERR_FRACT_SAMPLE_NOTIMPL"
    [] OTHER -> None

Controllers == {"master", "range_limit", "cconvert", "upsample", "post", "idct",
                "entropy", "coef", "main"}

\* jinit_master_decompress and master_selection, with the first scan's start.
MasterSelection(d) ==
  IF SelectionError(d.c) # None
  THEN Fail(Alloc(d, "image", {"master", "range_limit", "cconvert"}),
            SelectionError(d.c))
  ELSE StartInputPass(Alloc(d, "image", Controllers))

\* output_pass_setup: every controller starts its pass.
OutputPass(d) ==
  [d EXCEPT !.output_row = 0, !.full = FALSE, !.rowgroup = 0, !.scanline = 0,
            !.next_row = MaxV(d.c), !.rows_to_go = d.c.height,
            !.state = "SCANNING", !.ret = "ok"]

\* A round of jpeg_start_decompress: the controllers, then, for a picture of
\* many scans, its whole input, and the output pass.
AfterPreload(d) ==
  CASE Failed(d) \/ d.ret = "suspended" -> d
    [] d.ret = "EOI" -> OutputPass(d)
    [] OTHER -> [d EXCEPT !.ret = "done"]
Preload(d, in, have) ==
  CASE Failed(d) -> d
    [] ~ Failed(d) /\ ~ d.multi -> OutputPass(d)
    [] OTHER -> AfterPreload(ConsumeInput(d, in, have))
StartDecompress(d, in, have) ==
  CASE d.state = "READY" ->
         Preload([MasterSelection(d) EXCEPT !.state = "PRELOAD"], in, have)
    [] d.state = "PRELOAD" -> Preload(d, in, have)
    [] OTHER -> BadState(d)

\* coef->decompress_data fills the main buffer with an iMCU row: from the
\* input itself, or from the coefficients that are all there.
RowDecoded(d) ==
  IF d.ret # "done" THEN d
  ELSE [NextInputRow(d) EXCEPT !.output_row = @ + 1, !.ret = "done"]
Decompress(d, in, have) ==
  IF d.multi THEN [d EXCEPT !.output_row = @ + 1, !.ret = "done"]
  ELSE RowDecoded(RowData(d, in, have))

\* sep_upsample gives out one row of the row group it holds, and takes the
\* next group when all rows of the last are out.
Upsample(d) ==
  LET next == IF d.next_row >= MaxV(d.c) THEN 0 ELSE d.next_row
      rows == IF d.rows_to_go > 0 THEN 1 ELSE 0
  IN  [d EXCEPT !.out = IF rows = 1 THEN d.scanline + 1 ELSE 0,
                !.rows_to_go = @ - rows, !.scanline = @ + rows,
                !.next_row = next + rows,
                !.rowgroup = IF next + rows >= MaxV(d.c) THEN @ + 1 ELSE @]

\* process_data_simple_main.
BufferUsed(d) ==
  IF d.rowgroup >= d.c.block THEN [d EXCEPT !.full = FALSE, !.rowgroup = 0] ELSE d
WithBuffer(d) ==
  IF d.ret # "done" THEN [d EXCEPT !.out = 0]
  ELSE BufferUsed(Upsample([d EXCEPT !.full = TRUE]))
ProcessData(d, in, have) == WithBuffer(IF d.full THEN d ELSE Decompress(d, in, have))

\* jpeg_read_scanlines of one row; `out` is the row given, or 0.
ReadScanlines(d, in, have) ==
  IF d.state # "SCANNING" THEN BadState(d)
  ELSE IF d.scanline >= d.c.height THEN [d EXCEPT !.out = 0]
  ELSE ProcessData([d EXCEPT !.ret = "done"], in, have)

\* A round of jpeg_finish_decompress: the rest of the input is read.
AfterRest(d) ==
  IF d.ret \in {"EOI", "SOS", "row", "scan"} THEN [d EXCEPT !.ret = "done"] ELSE d
Stopping(d, in, have) ==
  IF d.eoi THEN [Abort(d) EXCEPT !.ret = "ok"] ELSE AfterRest(ConsumeInput(d, in, have))
FinishDecompress(d, in, have) ==
  CASE d.state = "SCANNING" /\ d.scanline < d.c.height -> Fail(d, "JERR_TOO_LITTLE_DATA")
    [] d.state \notin {"SCANNING", "STOPPING"} -> BadState(d)
    [] OTHER -> Stopping([d EXCEPT !.state = "STOPPING"], in, have)
=============================================================================
