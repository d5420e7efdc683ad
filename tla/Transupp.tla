------------------------------- MODULE Transupp -------------------------------
(***************************************************************************)
(* Pictures turned, mirrored and cut out without decoding them to samples  *)
(* (transupp.c): whole blocks of coefficients change places, and signs or  *)
(* places inside the blocks.  The right and lower edges of a picture are   *)
(* padded to whole iMCUs with junk; whatever does not fill an iMCU there   *)
(* cannot be mirrored, and stays, or is trimmed, or the request is         *)
(* refused as not perfect.                                                 *)
(*                                                                         *)
(* A picture is its size and its components: sampling factors, quantization*)
(* table, and blocks by <<row, column>>, padding included.  A block is its *)
(* coefficients by <<row, column>>.                                        *)
(***************************************************************************)
EXTENDS Integers, Sequences, FiniteSetsExt

CONSTANT TurnJobs    \* pictures, each with what is asked for

VARIABLES picture,   \* the source
          info,      \* jpeg_transform_info
          turned,    \* the destination
          turn       \* how far the request is

turnVars == <<picture, info, turned, turn>>

Edge == 2            \* DCTSIZE, 8: an even and an odd row and column
Coefs == (0 .. Edge - 1) \X (0 .. Edge - 1)
Turning == {"TRANSPOSE", "TRANSVERSE", "ROT_90", "ROT_270"}
HMax(p) == Max({p.comps[c].h : c \in DOMAIN p.comps})
VMax(p) == Max({p.comps[c].v : c \in DOMAIN p.comps})
RoundUp(n, unit) == (n + unit - 1) \div unit
NoCrop == [asked |-> FALSE]

\* What the decoder hands over: a picture whose blocks fill whole iMCUs, and
\* what a user may ask for.
MAX_SAMP == 4
Padded(n, factor, max) == factor * RoundUp(n, Edge * max)
IsPicture(p) ==
  /\ p.width \in Nat \ {0} /\ p.height \in Nat \ {0}
  /\ Len(p.comps) \in Nat \ {0} /\ DOMAIN p.comps = 1 .. Len(p.comps)
  /\ \A c \in DOMAIN p.comps :
       /\ p.comps[c].h \in 1 .. MAX_SAMP /\ p.comps[c].v \in 1 .. MAX_SAMP
       /\ p.comps[c].quant \in [Coefs -> Int]
       /\ p.comps[c].blocks \in
            [(0 .. Padded(p.height, p.comps[c].v, VMax(p)) - 1) \X
               (0 .. Padded(p.width, p.comps[c].h, HMax(p)) - 1) -> [Coefs -> Int]]
IsRegion(region) ==
  region \in [size_set : {"UNSET", "POS", "FORCE"}, size : Nat,
              offset_set : {"POS", "NEG"}, offset : Nat]
IsAsk(ask) ==
  /\ ask.transform \in {"NONE", "FLIP_H", "FLIP_V", "ROT_180"} \cup Turning
  /\ {ask.perfect, ask.trim, ask.force_grayscale, ask.crop.asked} \subseteq BOOLEAN
  /\ ask.crop.asked => IsRegion(ask.crop.x) /\ IsRegion(ask.crop.y)

ASSUME TurnJobsAssumption == \A t \in TurnJobs : IsPicture(t.picture) /\ IsAsk(t.ask)

-----------------------------------------------------------------------------
(* jtransform_request_workspace                                             *)

\* jtransform_perfect_transform
perfect_transform(width, height, MCU_width, MCU_height, transform) ==
  /\ transform \in {"FLIP_H", "ROT_270", "TRANSVERSE", "ROT_180"} => width % MCU_width = 0
  /\ transform \in {"FLIP_V", "ROT_90", "TRANSVERSE", "ROT_180"} => height % MCU_height = 0

NumComponents(p, ask) ==
  IF ask.force_grayscale /\ p.space = "YCbCr" /\ Len(p.comps) = 3 THEN 1 ELSE Len(p.comps)
MCUWidth(p, ask) == Edge * (IF NumComponents(p, ask) = 1 THEN 1 ELSE HMax(p))
MCUHeight(p, ask) == Edge * (IF NumComponents(p, ask) = 1 THEN 1 ELSE VMax(p))
TurnedSize(p, ask) ==
  [output_width |-> IF ask.transform \in Turning THEN p.height ELSE p.width,
   output_height |-> IF ask.transform \in Turning THEN p.width ELSE p.height,
   iMCU_width |-> IF ask.transform \in Turning THEN MCUHeight(p, ask) ELSE MCUWidth(p, ask),
   iMCU_height |-> IF ask.transform \in Turning THEN MCUWidth(p, ask) ELSE MCUHeight(p, ask),
   x_crop_offset |-> 0, y_crop_offset |-> 0]

\* The region asked for in one direction: `set` tells where its offset counts
\* from and whether its size is to be kept to.
SizeAsked(region, size) ==
  IF region.size_set = "UNSET" THEN size - region.offset ELSE region.size
BadRegion(region, size) ==
  \/ region.offset >= size
  \/ SizeAsked(region, size) \notin 1 .. size
  \/ region.offset > size - SizeAsked(region, size)
OffsetAsked(region, size) ==
  IF region.offset_set = "NEG" THEN size - SizeAsked(region, size) - region.offset
  ELSE region.offset
SizeCut(region, size, mcu) ==
  IF region.size_set = "FORCE" THEN SizeAsked(region, size)
  ELSE SizeAsked(region, size) + (OffsetAsked(region, size) % mcu)
BadCrop(s, crop) ==
  crop.asked /\ (BadRegion(crop.x, s.output_width) \/ BadRegion(crop.y, s.output_height))
Cropped(s, crop) ==
  IF ~ crop.asked THEN s
  ELSE [s EXCEPT
          !.output_width = SizeCut(crop.x, s.output_width, s.iMCU_width),
          !.output_height = SizeCut(crop.y, s.output_height, s.iMCU_height),
          !.x_crop_offset = OffsetAsked(crop.x, s.output_width) \div s.iMCU_width,
          !.y_crop_offset = OffsetAsked(crop.y, s.output_height) \div s.iMCU_height]

\* trim_right_edge, trim_bottom_edge: partial iMCUs at an edge that is mirrored.
WithoutPartial(size, mcu, offset, full) ==
  IF size \div mcu > 0 /\ offset + size \div mcu = full \div mcu
  THEN (size \div mcu) * mcu ELSE size
trim_right_edge(s, full) ==
  [s EXCEPT !.output_width = WithoutPartial(@, s.iMCU_width, s.x_crop_offset, full)]
trim_bottom_edge(s, full) ==
  [s EXCEPT !.output_height = WithoutPartial(@, s.iMCU_height, s.y_crop_offset, full)]
Trimmed(s, p, ask) ==
  CASE ~ ask.trim \/ ask.transform \in {"NONE", "TRANSPOSE"} -> s
    [] ask.trim /\ ask.transform = "FLIP_H" -> trim_right_edge(s, p.width)
    [] ask.trim /\ ask.transform = "FLIP_V" -> trim_bottom_edge(s, p.height)
    [] ask.trim /\ ask.transform = "TRANSVERSE" ->
       trim_bottom_edge(trim_right_edge(s, p.height), p.width)
    [] ask.trim /\ ask.transform = "ROT_90" -> trim_right_edge(s, p.height)
    [] ask.trim /\ ask.transform = "ROT_180" ->
       trim_bottom_edge(trim_right_edge(s, p.width), p.height)
    [] OTHER -> trim_bottom_edge(s, p.width)

Accepted(s) ==
  /\ turn' = "sized"
  /\ info' = [s EXCEPT !.size = Trimmed(@, picture, s.ask)]
Refused == turn' = "refused" /\ UNCHANGED info
jtransform_request_workspace ==
  /\ turn = "asked"
  /\ LET size == TurnedSize(picture, info.ask)
     IN  IF \/ info.ask.perfect /\ ~ perfect_transform(picture.width, picture.height,
                                       MCUWidth(picture, info.ask), MCUHeight(picture, info.ask),
                                       info.ask.transform)
            \/ BadCrop(size, info.ask.crop)
         THEN Refused
         ELSE Accepted([info EXCEPT !.size = Cropped(size, info.ask.crop)])
  /\ UNCHANGED <<picture, turned>>

-----------------------------------------------------------------------------
(* jtransform_adjust_parameters: what the destination's headers say.        *)
Transposed(block) == [p \in Coefs |-> block[<<p[2], p[1]>>]]
\* A mutant of TurnedQuant: the tables are left as they are.
SameQuant(quant) == quant
TurnedQuant(quant) == Transposed(quant)
\* transpose_critical_parameters
transpose_critical_parameters(comp) ==
  [comp EXCEPT !.h = comp.v, !.v = comp.h, !.quant = TurnedQuant(@)]
Headers(comps) == [c \in DOMAIN comps |-> [h |-> comps[c].h, v |-> comps[c].v,
                                           quant |-> comps[c].quant]]
OneComponent(comps) == << [comps[1] EXCEPT !.h = 1, !.v = 1] >>
CanBeGray(p) ==
  /\ \/ p.space = "YCbCr" /\ Len(p.comps) = 3
     \/ p.space = "GRAYSCALE" /\ Len(p.comps) = 1
  /\ p.comps[1].h = HMax(p)
  /\ p.comps[1].v = VMax(p)
AdjustedComps(p, ask) ==
  LET comps == IF NumComponents(p, ask) = 1 THEN OneComponent(Headers(p.comps))
               ELSE Headers(p.comps)
  IN  [c \in DOMAIN comps |-> IF ask.transform \in Turning
                              THEN transpose_critical_parameters(comps[c]) ELSE comps[c]]
jtransform_adjust_parameters ==
  /\ turn = "sized"
  /\ IF info.ask.force_grayscale /\ ~ CanBeGray(picture)
     THEN turn' = "refused" /\ UNCHANGED turned
     ELSE /\ turn' = "adjusted"
          /\ turned' = [width |-> info.size.output_width, height |-> info.size.output_height,
                        comps |-> AdjustedComps(picture, info.ask)]
  /\ UNCHANGED <<picture, info>>

-----------------------------------------------------------------------------
(* The transforms: the destination's block in row y and column x.  f tells  *)
(* how many rows and columns of blocks are in whole iMCUs, before cropping, *)
(* where the crop begins, and the destination's sampling factors.           *)
FlippedH(block) == [p \in Coefs |-> IF p[2] % 2 = 1 THEN -block[p] ELSE block[p]]
FlippedV(block) == [p \in Coefs |-> IF p[1] % 2 = 1 THEN -block[p] ELSE block[p]]
First(n, factor) == n - (n % factor)      \* of the iMCU a block is in
MirrorX(f, x) == f.columns - f.x - x - 1
MirrorY(f, y) == f.rows - f.y - y - 1

do_crop(b, f, y, x) == b[<<y + f.y, x + f.x>>]
\* in place: the whole rows are mirrored, then moved
InPlace(b, f, y, x) ==
  IF x < f.columns THEN FlippedH(b[<<y, f.columns - x - 1>>]) ELSE b[<<y, x>>]
do_flip_h_no_crop(b, f, y, x) == InPlace(b, f, y, x + f.x)
do_flip_h(b, f, y, x) ==
  IF f.x + x < f.columns THEN FlippedH(b[<<y + f.y, MirrorX(f, x)>>])
  ELSE b[<<y + f.y, x + f.x>>]
do_flip_v(b, f, y, x) ==
  IF f.y + First(y, f.v) < f.rows THEN FlippedV(b[<<MirrorY(f, y), x + f.x>>])
  ELSE b[<<y + f.y, x + f.x>>]
do_transpose(b, f, y, x) == Transposed(b[<<x + f.x, y + f.y>>])
do_rot_90(b, f, y, x) ==
  IF f.x + First(x, f.h) < f.columns THEN FlippedH(Transposed(b[<<MirrorX(f, x), y + f.y>>]))
  ELSE Transposed(b[<<x + f.x, y + f.y>>])
do_rot_270(b, f, y, x) ==
  IF f.y + First(y, f.v) < f.rows THEN FlippedV(Transposed(b[<<x + f.x, MirrorY(f, y)>>]))
  ELSE Transposed(b[<<x + f.x, y + f.y>>])
do_rot_180(b, f, y, x) ==
  CASE f.y + First(y, f.v) < f.rows /\ f.x + x < f.columns ->
       FlippedV(FlippedH(b[<<MirrorY(f, y), MirrorX(f, x)>>]))
    [] f.y + First(y, f.v) < f.rows /\ f.x + x >= f.columns ->
       FlippedV(b[<<MirrorY(f, y), x + f.x>>])
    [] f.y + First(y, f.v) >= f.rows /\ f.x + x < f.columns ->
       FlippedH(b[<<y + f.y, MirrorX(f, x)>>])
    [] OTHER -> b[<<y + f.y, x + f.x>>]
do_transverse(b, f, y, x) ==
  CASE f.y + First(y, f.v) < f.rows /\ f.x + First(x, f.h) < f.columns ->
       FlippedH(FlippedV(Transposed(b[<<MirrorX(f, x), MirrorY(f, y)>>])))
    [] f.y + First(y, f.v) < f.rows /\ f.x + First(x, f.h) >= f.columns ->
       FlippedV(Transposed(b[<<x + f.x, MirrorY(f, y)>>]))
    [] f.y + First(y, f.v) >= f.rows /\ f.x + First(x, f.h) < f.columns ->
       FlippedH(Transposed(b[<<MirrorX(f, x), y + f.y>>]))
    [] OTHER -> Transposed(b[<<x + f.x, y + f.y>>])

Frame(p, d, c, ask, size) ==
  [columns |-> d.comps[c].h * ((IF ask.transform \in Turning THEN p.height ELSE p.width)
                                 \div (HMax(d) * Edge)),
   rows |-> d.comps[c].v * ((IF ask.transform \in Turning THEN p.width ELSE p.height)
                              \div (VMax(d) * Edge)),
   x |-> size.x_crop_offset * d.comps[c].h, y |-> size.y_crop_offset * d.comps[c].v,
   h |-> d.comps[c].h, v |-> d.comps[c].v]
BlockAt(b, f, y, x, transform) ==
  CASE transform = "NONE" -> do_crop(b, f, y, x)
    [] transform = "FLIP_H" /\ f.y = 0 -> do_flip_h_no_crop(b, f, y, x)
    [] transform = "FLIP_H" /\ f.y # 0 -> do_flip_h(b, f, y, x)
    [] transform = "FLIP_V" -> do_flip_v(b, f, y, x)
    [] transform = "TRANSPOSE" -> do_transpose(b, f, y, x)
    [] transform = "TRANSVERSE" -> do_transverse(b, f, y, x)
    [] transform = "ROT_90" -> do_rot_90(b, f, y, x)
    [] transform = "ROT_180" -> do_rot_180(b, f, y, x)
    [] transform = "ROT_270" -> do_rot_270(b, f, y, x)

\* width_in_blocks and height_in_blocks (initial_setup of jcmaster.c)
WidthInBlocks(d, c) == RoundUp(d.width * d.comps[c].h, HMax(d) * Edge)
HeightInBlocks(d, c) == RoundUp(d.height * d.comps[c].v, VMax(d) * Edge)
Blocks(p, d, c, ask, size) ==
  [at \in (0 .. HeightInBlocks(d, c) - 1) \X (0 .. WidthInBlocks(d, c) - 1) |->
     BlockAt(p.comps[c].blocks, Frame(p, d, c, ask, size), at[1], at[2], ask.transform)]
jtransform_execute_transform ==
  /\ turn = "adjusted"
  /\ turned' = [turned EXCEPT !.comps =
                  [c \in DOMAIN @ |->
                     [h |-> @[c].h, v |-> @[c].v, quant |-> @[c].quant,
                      blocks |-> Blocks(picture, turned, c, info.ask, info.size)]]]
  /\ turn' = "turned"
  /\ UNCHANGED <<picture, info>>

NotYetTurned == [width |-> 0, height |-> 0, comps |-> <<>>]
NotYetSized == [output_width |-> 0, output_height |-> 0, iMCU_width |-> 1, iMCU_height |-> 1,
                x_crop_offset |-> 0, y_crop_offset |-> 0]
TurnInit ==
  /\ \E t \in TurnJobs :
       picture = t.picture /\ info = [ask |-> t.ask, size |-> NotYetSized]
  /\ turned = NotYetTurned
  /\ turn = "asked"
TurnNext ==
  jtransform_request_workspace \/ jtransform_adjust_parameters \/ jtransform_execute_transform
TurnSpec == TurnInit /\ [][TurnNext]_turnVars

-----------------------------------------------------------------------------
\* A sample of a component, as the decoder will draw it.
Ripple(frequency, n) == IF frequency = 1 /\ n = 1 THEN -1 ELSE 1
CoefWave(quant, block, p, i, j) == quant[p] * block[p] * (Ripple(p[1], i) * Ripple(p[2], j))
BlockSample(quant, block, i, j) ==
  CoefWave(quant, block, <<0, 0>>, i, j) + CoefWave(quant, block, <<0, 1>>, i, j)
    + CoefWave(quant, block, <<1, 0>>, i, j) + CoefWave(quant, block, <<1, 1>>, i, j)
Sample(comp, x, y) ==
  BlockSample(comp.quant, comp.blocks[<<y \div Edge, x \div Edge>>], y % Edge, x % Edge)
ComponentWidth(p, c) == RoundUp(p.width * p.comps[c].h, HMax(p))
ComponentHeight(p, c) == RoundUp(p.height * p.comps[c].v, VMax(p))

\* Where a sample of the destination comes from: mirrored as far as whole iMCUs
\* go, and turned.
MirroredX == {"FLIP_H", "ROT_90", "ROT_180", "TRANSVERSE"}
MirroredY == {"FLIP_V", "ROT_270", "ROT_180", "TRANSVERSE"}
Mirrored1(n, whole, mirrored) == IF mirrored /\ n < whole THEN whole - 1 - n ELSE n
FullWidth == IF info.ask.transform \in Turning THEN picture.height ELSE picture.width
FullHeight == IF info.ask.transform \in Turning THEN picture.width ELSE picture.height
WholeX(c) == (FullWidth \div info.size.iMCU_width) * turned.comps[c].h * Edge
WholeY(c) == (FullHeight \div info.size.iMCU_height) * turned.comps[c].v * Edge
FromX(c, x) == Mirrored1(x + info.size.x_crop_offset * turned.comps[c].h * Edge, WholeX(c),
                         info.ask.transform \in MirroredX)
FromY(c, y) == Mirrored1(y + info.size.y_crop_offset * turned.comps[c].v * Edge, WholeY(c),
                         info.ask.transform \in MirroredY)
SourceX(c, x, y) == IF info.ask.transform \in Turning THEN FromY(c, y) ELSE FromX(c, x)
SourceY(c, x, y) == IF info.ask.transform \in Turning THEN FromX(c, x) ELSE FromY(c, y)

\* Nothing but mirrored iMCUs in a direction that is mirrored, unless the picture
\* has none.
AllMirrored ==
  /\ info.ask.transform \in MirroredX /\ FullWidth >= info.size.iMCU_width =>
       info.size.x_crop_offset * info.size.iMCU_width + turned.width
         <= (FullWidth \div info.size.iMCU_width) * info.size.iMCU_width
  /\ info.ask.transform \in MirroredY /\ FullHeight >= info.size.iMCU_height =>
       info.size.y_crop_offset * info.size.iMCU_height + turned.height
         <= (FullHeight \div info.size.iMCU_height) * info.size.iMCU_height
Covers(region, full, offset, mcu, size) ==
  /\ offset * mcu <= OffsetAsked(region, full)
  /\ region.size_set # "FORCE" =>
       offset * mcu + size >= OffsetAsked(region, full) + SizeAsked(region, full)

\* A request that is granted turns the picture and not only its blocks: each
\* sample of the result is the sample of the source that the transform puts
\* there, and one that the source showed, never the junk its edges are padded
\* with; what cannot be mirrored is there only when neither `perfect` nor `trim`
\* was asked for; and a crop covers the region that was asked for.
PictureTurns ==
  turn = "turned" =>
    /\ \A c \in DOMAIN turned.comps :
         \A x \in 0 .. ComponentWidth(turned, c) - 1, y \in 0 .. ComponentHeight(turned, c) - 1 :
           /\ SourceX(c, x, y) < ComponentWidth(picture, c)
           /\ SourceY(c, x, y) < ComponentHeight(picture, c)
           /\ Sample(turned.comps[c], x, y)
                = Sample(picture.comps[c], SourceX(c, x, y), SourceY(c, x, y))
    /\ info.ask.perfect \/ (info.ask.trim /\ ~ info.ask.crop.asked) => AllMirrored
    /\ info.ask.crop.asked /\ ~ info.ask.trim =>
         /\ Covers(info.ask.crop.x, FullWidth, info.size.x_crop_offset, info.size.iMCU_width,
                   turned.width)
         /\ Covers(info.ask.crop.y, FullHeight, info.size.y_crop_offset,
                   info.size.iMCU_height, turned.height)
=============================================================================
