-------------------------------- MODULE ImageProc --------------------------------
(***************************************************************************)
(* The tablet's native decoding (ImageProc.c): pixeltobmp turns a frame of *)
(* the stream into the pixels of a bitmap.  It calls processimage, which   *)
(* drives a decompressor over the frame's bytes and leaves the picture in  *)
(* the buffer `rgb`, and copies that buffer into the bitmap.               *)
(*                                                                         *)
(* The library reports an error by the application's error_exit, which     *)
(* jumps back into processimage; the source the frame's bytes come from    *)
(* cannot be filled again, so that a frame that ends too early suspends    *)
(* the library for ever.  The results of the calls are not looked at.      *)
(*                                                                         *)
(* A pixel is known by the picture and the row it comes from.              *)
(***************************************************************************)
EXTENDS JpegDecompress, SequencesExt

CONSTANTS Pictures,      \* the frames the stream may hold, by number
          BitmapSizes,   \* the sizes of bitmap the player may have
          MaxPictures,   \* bound: calls of pixeltobmp
          MaxFailures    \* bound: allocations of the library that fail

\* What a frame holds, wherever it is cut off or spoiled, is units as the
\* library's routines read them.
ASSUME PicturesAssumption == \A p \in DOMAIN Pictures : Formed(Pictures[p].units)

VARIABLES pc,         \* where pixeltobmp is
          past,       \* the numbers of the pictures given so far; the last is being decoded
          cinfo,      \* the decompressor of this call
          rgb,        \* the buffer: NULL, or its pixels in row order
          img,        \* IMG_WIDTH, IMG_HEIGHT
          y,          \* where the next row goes in rgb
          jpegbuffer, \* the row last given by the library
          bitmap,     \* the bitmap: its size and its pixels
          shown,      \* what the last call returned: "none", "ok", "failed"
          fault,      \* "none", or the access outside of rgb that was made
          failures

vars == <<pc, past, cinfo, rgb, img, y, jpegbuffer, bitmap, shown, fault, failures>>

Junk == <<0, 0>>   \* what memory holds that nothing was written to
NULL == <<>>         \* no buffer
Unset == -1
Picture == Pictures[Last(past)]
In == Picture.units
Have == Len(In)

Init ==
  /\ pc = "idle"
  /\ past = <<>>
  /\ cinfo = NoDecompressor
  /\ rgb = NULL
  /\ img = [w |-> Unset, h |-> Unset]
  /\ y = 0
  /\ jpegbuffer = Junk
  /\ bitmap \in [size : BitmapSizes, pixels : {<<>>}]
  /\ shown = "none"
  /\ fault = "none"
  /\ failures = 0

\* The player hands over a frame.
PixelToBmp(p) ==
  /\ pc = "idle"
  /\ Len(past) < MaxPictures
  /\ past' = Append(past, p)
  /\ pc' = "create"
  /\ UNCHANGED <<cinfo, rgb, img, y, jpegbuffer, bitmap, shown, fault, failures>>

\* One step of processimage that a library call takes the decompressor to d.
\* An error jumps to the end; anything else goes on at `next`.
Library(d, next) ==
  /\ cinfo' = d
  /\ pc' = IF Failed(d) THEN "error" ELSE next
  /\ UNCHANGED <<past, rgb, img, bitmap, shown, fault, failures>>

CreateDecompress ==
  /\ pc = "create"
  /\ Library(AddSource(Create), "header")
  /\ UNCHANGED <<y, jpegbuffer>>

\* jpeg_read_header goes on while there are markers; suspended, it returns.
Header ==
  /\ pc = "header"
  /\ \E d \in {ReadHeader(cinfo, In, Have)} :
       Library(d, IF d.ret = "done" THEN "header" ELSE "tables")
  /\ UNCHANGED <<y, jpegbuffer>>

\* Mutant of LoadDht: the tables of index 0 are forgotten.
LoadOnlySecond(d) ==
  MarkerAllocs([d EXCEPT !.c.dc[1] = "standard", !.c.ac[1] = "standard"])
\* The parameters set after the header, and my_jpeg_load_dht with the tables
\* of my_jpeg_odml_dht: they take the place of the picture's own.
Standard == "standard"
LoadDht(d) ==
  LET c == [d.c EXCEPT !.dc[0] = Standard, !.dc[1] = Standard,
                       !.ac[0] = Standard, !.ac[1] = Standard]
  IN  MarkerAllocs([d EXCEPT !.c = c])

Parameters ==
  /\ pc = "tables"
  /\ Library(LoadDht([cinfo EXCEPT !.c.color = "YCbCr", !.ret = "done"]), "start")
  /\ UNCHANGED <<y, jpegbuffer>>

Start ==
  /\ pc = "start"
  /\ \E d \in {StartDecompress(cinfo, In, Have)} :
       Library(d, IF d.ret = "done" THEN "start" ELSE "buffers")
  /\ UNCHANGED <<y, jpegbuffer>>

\* rgb gets the size of the picture it is first needed for; then the library
\* is asked for the row, which is the last allocation that may fail.
Buffers ==
  /\ pc = "buffers"
  /\ \/ /\ cinfo' = Alloc(cinfo, "image", {"jpegbuffer"})
        /\ pc' = "row"
        /\ UNCHANGED failures
     \/ /\ failures < MaxFailures
        /\ failures' = failures + 1
        /\ cinfo' = Fail(cinfo, "JERR_OUT_OF_MEMORY")
        /\ pc' = "error"
  /\ IF rgb = NULL
     THEN /\ img' = [w |-> cinfo.c.width, h |-> cinfo.c.height]
          /\ rgb' = [k \in 0 .. cinfo.c.width * cinfo.c.height - 1 |-> Junk]
     ELSE UNCHANGED <<img, rgb>>
  /\ y' = 0
  /\ jpegbuffer' = Junk
  /\ UNCHANGED <<past, bitmap, shown, fault>>

\* Mutant of Columns: the picture's, whatever the buffer has.
ColumnsOfPicture == cinfo.c.width
\* One round of the loop: a row is asked for, and whatever is in jpegbuffer is
\* written at y, in as many columns as the buffer and the picture both have.
Columns == Min({img.w, cinfo.c.width})
ReadRow(d) ==
  LET row == IF d.out > 0 THEN <<Len(past), d.out>> ELSE jpegbuffer
      places == y .. y + Columns - 1
  IN  /\ cinfo' = d
      /\ jpegbuffer' = row
      /\ IF places \subseteq DOMAIN rgb
         THEN /\ rgb' = [k \in DOMAIN rgb |-> IF k \in places THEN row ELSE rgb[k]]
              /\ pc' = pc
              /\ UNCHANGED fault
         ELSE /\ fault' = "written outside"
              /\ pc' = "undefined"
              /\ UNCHANGED rgb
      /\ y' = y + img.w
      /\ UNCHANGED <<past, img, bitmap, shown, failures>>

Row ==
  /\ pc = "row"
  /\ cinfo.scanline < cinfo.c.height
  /\ \E d \in {ReadScanlines(cinfo, In, Have)} :
       IF Failed(d) THEN Library(d, "row") /\ UNCHANGED <<y, jpegbuffer>>
         ELSE ReadRow(d)

Rows ==
  /\ pc = "row"
  /\ cinfo.scanline >= cinfo.c.height
  /\ pc' = "finish"
  /\ UNCHANGED <<past, cinfo, rgb, img, y, jpegbuffer, bitmap, shown, fault, failures>>

Finish ==
  /\ pc = "finish"
  /\ \E d \in {FinishDecompress(cinfo, In, Have)} :
       Library(d, IF d.ret = "done" THEN "finish" ELSE "destroy")
  /\ UNCHANGED <<y, jpegbuffer>>

\* The end of processimage, after jpeg_finish_decompress or at its setjmp.
DestroyDecompress ==
  /\ pc \in {"destroy", "error"}
  /\ cinfo' = Destroy(cinfo)
  /\ pc' = "copy"
  /\ UNCHANGED <<past, rgb, img, y, jpegbuffer, bitmap, shown, fault, failures>>

\* An allocation of the library's fails: only a part of what the step was to
\* allocate is there, and out_of_memory is an error like the others.
Allocating == {"create", "header", "tables", "start"}
Whole ==
  CASE pc = "create" -> AddSource(Create)
    [] pc = "header" -> ReadHeader(cinfo, In, Have)
    [] pc = "tables" -> LoadDht(cinfo)
    [] OTHER -> StartDecompress(cinfo, In, Have)
Partly(d) == {[d EXCEPT !.pool = cinfo.pool, !.mem = cinfo.mem],
              [d EXCEPT !.pool = cinfo.pool],
              [d EXCEPT !.pool["image"] = cinfo.pool["image"]]}
OutOfMemory ==
  /\ pc \in Allocating
  /\ failures < MaxFailures
  /\ failures' = failures + 1
  /\ \E d \in {Whole} :
       /\ d.pool # cinfo.pool
       /\ cinfo' \in {Fail(part, "JERR_OUT_OF_MEMORY") : part \in Partly(d)}
  /\ pc' = "error"
  /\ UNCHANGED <<past, rgb, img, y, jpegbuffer, bitmap, shown, fault>>

\* The rest of pixeltobmp: a bitmap of another size is refused; the buffer is
\* copied whether or not a picture has been decoded into it.
Copy ==
  /\ pc = "copy"
  /\ IF bitmap.size # img
     THEN /\ shown' = "failed"
          /\ pc' = "idle"
          /\ UNCHANGED <<bitmap, fault>>
     ELSE IF rgb = NULL
     THEN /\ fault' = "read from NULL"
          /\ pc' = "undefined"
          /\ UNCHANGED <<bitmap, shown>>
     ELSE /\ bitmap' = [bitmap EXCEPT !.pixels = rgb]
          /\ shown' = "ok"
          /\ pc' = "idle"
          /\ UNCHANGED fault
  /\ cinfo' = NoDecompressor
  /\ y' = 0
  /\ jpegbuffer' = Junk
  /\ UNCHANGED <<past, rgb, img, failures>>

\* freeCameraMemory: the size that the buffer had is kept.
FreeCameraMemory ==
  /\ pc = "idle"
  /\ rgb # NULL
  /\ rgb' = NULL
  /\ UNCHANGED <<pc, past, cinfo, img, y, jpegbuffer, bitmap, shown, fault, failures>>

Decode ==
  \/ CreateDecompress \/ Header \/ Parameters \/ Start \/ Buffers
  \/ Row \/ Rows \/ Finish \/ DestroyDecompress \/ Copy
Next ==
  \/ \E p \in DOMAIN Pictures : PixelToBmp(p)
  \/ Decode
  \/ OutOfMemory
  \/ FreeCameraMemory

Spec == Init /\ [][Next]_vars

-----------------------------------------------------------------------------
(***************************************************************************)
(* Properties.  Of a picture, `whole` says that the data of its scans are  *)
(* all there or end at a marker, and `good` that the library decodes it.   *)
(***************************************************************************)
Size(p) == [w |-> p.w, h |-> p.h]

\* A round of the loop over rows, which looks at nothing but their number, brings
\* the picture's next one.
RowArrives ==
  \A d \in {ReadScanlines(cinfo, In, Have)} :
    Failed(d) \/ (d.out = cinfo.scanline + 1 /\ d.scanline = d.out)

\* processimage never writes outside of rgb, and pixeltobmp never reads a
\* buffer that is not there, unless the picture is taller than the one that
\* gave rgb its size, or its data end too early (the loop asks for rows that
\* never come and goes on writing), or the buffer was freed and the picture
\* after it could not be decoded.  With a whole picture the loop ends, a row
\* arriving in each round.
FaultNeedsCause ==
  /\ pc = "row" /\ Picture.whole /\ cinfo.scanline < cinfo.c.height => RowArrives
  /\ fault = "written outside" => Picture.h > img.h \/ ~ Picture.whole
  /\ fault = "read from NULL" => ~ Picture.good \/ failures > 0

\* Whatever a frame holds, and whatever the frames before it were: a write
\* outside of rgb is of a picture with more rows than the buffer, or comes after
\* a round of the loop that brought no row and moved on in rgb nevertheless.
\* A picture wider than the buffer does no harm.
WritesInside ==
  fault = "written outside" => cinfo.c.height > img.h \/ cinfo.scanline * img.w < y

\* A call that reports success has left one whole picture in the bitmap, the
\* last that could be decoded: no row of it is of another picture, as long as
\* every picture had the bitmap's size, none ended early and memory sufficed.
\* A buffer whose pictures could all not be decoded shows what malloc left.
GoodOnes == {i \in DOMAIN past : Pictures[past[i]].good}
Regular == /\ \A i \in DOMAIN past :
                /\ Pictures[past[i]].whole
                /\ Size(Pictures[past[i]]) = bitmap.size
           /\ failures = 0
PictureRows(i) == [k \in 0 .. bitmap.size.w * bitmap.size.h - 1 |->
               <<i, k \div bitmap.size.w + 1>>]
BitmapWhole ==
  pc = "idle" /\ shown = "ok" /\ Regular =>
    \/ \A k \in DOMAIN bitmap.pixels : bitmap.pixels[k] = Junk
    \/ GoodOnes # {} /\ bitmap.pixels = PictureRows(Max(GoodOnes))

\* However decoding ends, by an error, a failed allocation, a source that has
\* run dry or at the image's end, every pool of the library has been freed and
\* its manager with them when processimage returns: a player decodes frames
\* for hours.
Released ==
  pc = "copy" => ~ cinfo.mem /\ \A p \in Pools : cinfo.pool[p] = {}

\* Decoding comes to its end: a round of one of the library's loops that is
\* followed by another has used up bytes of the frame or a marker that was
\* found, or one of the rows of the scan.  No loop goes round in place, whatever
\* the frame holds.
Left(d) ==
  << 2 * (Have - d.at) + IF d.c.unread = None THEN 0 ELSE 1,
     IF d.consume = "data" THEN TotalRows(d.c) - d.input_row ELSE 0 >>
Less(a, b) ==
  \E k \in DOMAIN a : a[k] < b[k] /\ \A j \in 1 .. k - 1 : a[j] = b[j]
UsesUp(d, last) == d.ret \in last \/ Failed(d) \/ Less(Left(d), Left(cinfo))
CallsReturn ==
  /\ pc = "header" => UsesUp(ReadHeader(cinfo, In, Have), {"ok", "suspended"})
  /\ pc = "start" => UsesUp(StartDecompress(cinfo, In, Have), {"ok", "suspended"})
  /\ pc = "finish" => UsesUp(FinishDecompress(cinfo, In, Have), {"ok", "suspended"})
=============================================================================
