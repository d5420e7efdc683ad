--------------------------- MODULE ImageProcProofs --------------------------
(***************************************************************************)
(* Proofs about the tablet's native decoding, for any frames whatsoever,   *)
(* sound or not, and any number of failing allocations.  The first half is *)
(* about the library's memory.  The second follows a decompressor through  *)
(* the marker reader, the input controller and the application's calls: no *)
(* loop goes round in place, and the rows stay inside of their buffer.     *)
(***************************************************************************)
EXTENDS ImageProc, TLAPS, WellFoundedInduction, NaturalsInduction

-----------------------------------------------------------------------------
(***************************************************************************)
(* What the calls of the library do to a decompressor's memory: they       *)
(* allocate in its pools, and jpeg_abort empties one, but only             *)
(* jpeg_destroy takes the memory manager away.                             *)
(***************************************************************************)

\* A decompressor has a memory manager, or none, and its two pools.
HasPools(d) == {"mem", "pool"} \subseteq DOMAIN d /\ DOMAIN d.pool = Pools

\* A call that takes d to e leaves the manager as it is.
Keeps(d, e) == HasPools(e) /\ e.mem = d.mem

LEMMA KeepsFail ==
  ASSUME NEW d, HasPools(d), NEW code
  PROVE  Keeps(d, Fail(d, code))
  BY DEF HasPools, Keeps, Fail

LEMMA KeepsAlloc ==
  ASSUME NEW d, HasPools(d), NEW p, NEW names
  PROVE  Keeps(d, Alloc(d, p, names))
  BY DEF HasPools, Keeps, Alloc

LEMMA KeepsTrans ==
  ASSUME NEW d, NEW e, NEW f, Keeps(d, e), Keeps(e, f)
  PROVE  Keeps(d, f)
  BY DEF Keeps

LEMMA KeepsMarkerAllocs ==
  ASSUME NEW d, HasPools(d)
  PROVE  Keeps(d, MarkerAllocs(d))
  BY KeepsAlloc DEF MarkerAllocs, Keeps

LEMMA KeepsTakeMarker ==
  ASSUME NEW d, HasPools(d), NEW r
  PROVE  Keeps(d, TakeMarker(d, r))
<1> DEFINE e == [d EXCEPT !.c = r.c, !.at = r.at, !.ret = r.ret]
<1>1. Keeps(d, e)
  BY DEF HasPools, Keeps
<1>2. TakeMarker(d, r) = MarkerAllocs(e)
  BY DEF TakeMarker
<1> QED
  BY <1>1, <1>2, KeepsMarkerAllocs DEF Keeps

LEMMA KeepsStartInputPass ==
  ASSUME NEW d, HasPools(d)
  PROVE  Keeps(d, StartInputPass(d))
<1> DEFINE e == [d EXCEPT !.latched = @ \cup {d.c.scan[i].ci : i \in DOMAIN d.c.scan},
                          !.input_row = 0, !.togo = d.c.restart, !.consume = "data"]
<1>1. Keeps(d, e)
  BY DEF HasPools, Keeps
<1>2. Keeps(d, Alloc(e, "image", {"quant copies", "derived tables"}))
  BY <1>1, KeepsAlloc DEF Keeps
<1> QED
  BY <1>2, KeepsFail DEF StartInputPass

LEMMA KeepsActOnMarker ==
  ASSUME NEW d, HasPools(d)
  PROVE  Keeps(d, ActOnMarker(d))
<1>1. Keeps(d, InitialSetup(d))
  BY KeepsFail DEF InitialSetup, HasPools, Keeps
<1>2. ASSUME NEW e, HasPools(e)
      PROVE  Keeps(e, FirstScan(e))
  BY <1>2 DEF FirstScan, HasPools, Keeps
<1>3. Keeps(d, AtScan(d))
  BY <1>1, <1>2, KeepsFail, KeepsStartInputPass DEF AtScan, HasPools, Keeps
<1>4. Keeps(d, AtEnd(d))
  BY KeepsFail DEF AtEnd, HasPools, Keeps
<1> QED
  BY <1>3, <1>4 DEF ActOnMarker, HasPools, Keeps

LEMMA KeepsConsumeMarker ==
  ASSUME NEW d, HasPools(d), NEW in, NEW have
  PROVE  Keeps(d, ConsumeMarker(d, in, have))
<1> DEFINE r == ReadMarker(d.c, in, d.at, have)
<1> HIDE DEF r
<1>1. Keeps(d, TakeMarker(d, r))
  BY KeepsTakeMarker
<1>2. Keeps(d, ActOnMarker(TakeMarker(d, r)))
  BY <1>1, KeepsActOnMarker DEF Keeps
<1>3. Keeps(d, [d EXCEPT !.ret = "EOI"])
  BY DEF HasPools, Keeps
<1> QED
  BY <1>2, <1>3 DEF ConsumeMarker, r

LEMMA KeepsRowData ==
  ASSUME NEW d, HasPools(d), NEW in, NEW have
  PROVE  Keeps(d, RowData(d, in, have))
<1>0. ASSUME NEW e, HasPools(e)
      PROVE  Keeps(e, RunDry(e))
  BY <1>0, KeepsFail DEF RunDry, HasPools, Keeps
<1>1. ASSUME NEW e, HasPools(e)
      PROVE  Keeps(e, DataRow(e, in, have))
  BY <1>0, <1>1 DEF DataRow, HasPools, Keeps
<1>2. ASSUME NEW e, HasPools(e)
      PROVE  Keeps(e, RowCounted(e))
  BY <1>2 DEF RowCounted, HasPools, Keeps
<1>3. ASSUME NEW e, HasPools(e)
      PROVE  Keeps(e, Restarted(e, in, have))
  BY <1>0, <1>1, <1>3 DEF Restarted, HasPools, Keeps
<1> DEFINE r == ReadRestart(d.c, in, d.at, have)
<1> HIDE DEF r
<1>4. Keeps(d, Restarted(TakeMarker(d, r), in, have))
  BY <1>3, KeepsTakeMarker DEF Keeps
<1> QED
  BY <1>1, <1>2, <1>4 DEF RowData, Keeps, r

LEMMA KeepsNextInputRow ==
  ASSUME NEW d, HasPools(d)
  PROVE  Keeps(d, NextInputRow(d))
  BY DEF NextInputRow, HasPools, Keeps

LEMMA KeepsConsumeInput ==
  ASSUME NEW d, HasPools(d), NEW in, NEW have
  PROVE  Keeps(d, ConsumeInput(d, in, have))
<1>1. Keeps(d, AfterRow(RowData(d, in, have)))
  BY KeepsRowData, KeepsNextInputRow DEF AfterRow, Keeps
<1>2. Keeps(d, ConsumeData(d, in, have))
  BY <1>1 DEF ConsumeData, HasPools, Keeps
<1> QED
  BY <1>2, KeepsConsumeMarker DEF ConsumeInput

-----------------------------------------------------------------------------
(* The application's calls. *)

LEMMA KeepsReadHeader ==
  ASSUME NEW d, HasPools(d), NEW in, NEW have
  PROVE  Keeps(d, ReadHeader(d, in, have))
<1>1. ASSUME NEW e, HasPools(e)
      PROVE  Keeps(e, AfterHeader(e))
  BY <1>1, KeepsFail DEF AfterHeader, HasPools, Keeps
<1>2. Keeps(d, ResetInput(d))
  BY DEF ResetInput, HasPools, Keeps
<1>3. Keeps(d, AfterHeader(ConsumeInput(ResetInput(d), in, have)))
  BY <1>1, <1>2, KeepsConsumeInput DEF Keeps
<1>4. Keeps(d, AfterHeader(ConsumeInput(d, in, have)))
  BY <1>1, KeepsConsumeInput DEF Keeps
<1> QED
  BY <1>3, <1>4, KeepsFail DEF ReadHeader, BadState

LEMMA KeepsLoadDht ==
  ASSUME NEW d, HasPools(d)
  PROVE  Keeps(d, LoadDht(d))
<1>1. \A c : Keeps(d, [d EXCEPT !.c = c])
  BY DEF HasPools, Keeps
<1> QED
  BY <1>1, KeepsMarkerAllocs DEF LoadDht, Keeps

LEMMA KeepsStartDecompress ==
  ASSUME NEW d, HasPools(d), NEW in, NEW have
  PROVE  Keeps(d, StartDecompress(d, in, have))
<1>1. ASSUME NEW e, HasPools(e)
      PROVE  Keeps(e, OutputPass(e))
  BY <1>1 DEF OutputPass, HasPools, Keeps
<1>2. ASSUME NEW e, HasPools(e)
      PROVE  Keeps(e, AfterPreload(e))
  BY <1>1, <1>2 DEF AfterPreload, HasPools, Keeps
<1>3. ASSUME NEW e, HasPools(e)
      PROVE  Keeps(e, Preload(e, in, have))
  <2>1. Keeps(e, AfterPreload(ConsumeInput(e, in, have)))
    BY <1>2, <1>3, KeepsConsumeInput DEF Keeps
  <2> QED
    BY <1>1, <1>3, <2>1 DEF Preload, HasPools, Keeps
<1>4. Keeps(d, MasterSelection(d))
  BY KeepsAlloc, KeepsFail, KeepsStartInputPass DEF MasterSelection, Keeps
<1>5. Keeps(d, [MasterSelection(d) EXCEPT !.state = "PRELOAD"])
  BY <1>4 DEF HasPools, Keeps
<1>6. Keeps(d, Preload([MasterSelection(d) EXCEPT !.state = "PRELOAD"], in, have))
  BY <1>3, <1>5 DEF Keeps
<1> QED
  BY <1>3, <1>6, KeepsFail DEF StartDecompress, BadState

LEMMA KeepsReadScanlines ==
  ASSUME NEW d, HasPools(d), NEW in, NEW have
  PROVE  Keeps(d, ReadScanlines(d, in, have))
<1>1. ASSUME NEW e, HasPools(e)
      PROVE  Keeps(e, RowDecoded(e))
  BY <1>1, KeepsNextInputRow DEF RowDecoded, HasPools, Keeps
<1>2. ASSUME NEW e, HasPools(e)
      PROVE  Keeps(e, Decompress(e, in, have))
  BY <1>1, <1>2, KeepsRowData DEF Decompress, HasPools, Keeps
<1>3. ASSUME NEW e, HasPools(e)
      PROVE  Keeps(e, Upsample(e)) /\ Keeps(e, BufferUsed(e))
  BY <1>3 DEF Upsample, BufferUsed, HasPools, Keeps
<1>4. ASSUME NEW e, HasPools(e)
      PROVE  Keeps(e, WithBuffer(e))
  <2>1. Keeps(e, [e EXCEPT !.full = TRUE]) /\ Keeps(e, [e EXCEPT !.out = 0])
    BY <1>4 DEF HasPools, Keeps
  <2> QED
    BY <1>3, <2>1 DEF WithBuffer, Keeps
<1>5. ASSUME NEW e, HasPools(e)
      PROVE  Keeps(e, ProcessData(e, in, have))
  BY <1>2, <1>4, <1>5 DEF ProcessData, Keeps
<1>6. Keeps(d, [d EXCEPT !.out = 0]) /\ Keeps(d, [d EXCEPT !.ret = "done"])
  BY DEF HasPools, Keeps
<1> QED
  BY <1>5, <1>6, KeepsFail DEF ReadScanlines, BadState, Keeps

LEMMA KeepsFinishDecompress ==
  ASSUME NEW d, HasPools(d), NEW in, NEW have
  PROVE  Keeps(d, FinishDecompress(d, in, have))
<1>1. ASSUME NEW e, HasPools(e)
      PROVE  Keeps(e, AfterRest(e))
  BY <1>1 DEF AfterRest, HasPools, Keeps
<1>2. ASSUME NEW e, HasPools(e)
      PROVE  Keeps(e, [Abort(e) EXCEPT !.ret = "ok"])
  BY <1>2 DEF Abort, FreePool, HasPools, Keeps
<1>3. ASSUME NEW e, HasPools(e)
      PROVE  Keeps(e, Stopping(e, in, have))
  BY <1>1, <1>2, <1>3, KeepsConsumeInput DEF Stopping, Keeps
<1>4. Keeps(d, [d EXCEPT !.state = "STOPPING"])
  BY DEF HasPools, Keeps
<1> QED
  BY <1>3, <1>4, KeepsFail DEF FinishDecompress, BadState, Keeps

\* jpeg_CreateDecompress makes a manager, and the source is allocated with it.
LEMMA CreateHasManager == HasPools(AddSource(Create)) /\ AddSource(Create).mem
<1>1. HasPools(NoDecompressor)
  BY DEF HasPools, NoDecompressor, NoMemory
<1> DEFINE e == [NoDecompressor EXCEPT !.mem = TRUE, !.state = "START"]
<1>2. HasPools(e) /\ e.mem
  BY <1>1 DEF HasPools, NoDecompressor
<1> HIDE DEF e
<1>3. HasPools(Create) /\ Create.mem
  BY <1>2, KeepsAlloc DEF Create, Keeps, e
<1> QED
  BY <1>3, KeepsAlloc DEF AddSource, Keeps

-----------------------------------------------------------------------------
(***************************************************************************)
(* The inductive invariant.                                                *)
(***************************************************************************)
Nothing(d) == \A p \in Pools : d.pool[p] = {}

\* Between jpeg_CreateDecompress and the end of processimage there is a memory
\* manager, wherever an error jumps from; but creating it may itself fail, and
\* then nothing has been allocated that destroying would have to find.
MemoryInv ==
    /\ HasPools(cinfo)
    /\ ~cinfo.mem => Nothing(cinfo)
    /\ pc \in {"idle", "create", "copy"} => ~cinfo.mem
    /\ pc \in {"header", "tables", "start", "buffers", "row", "finish", "destroy"}
         => cinfo.mem

\* There is no decompressor before the first frame.
LEMMA MemoryInvInit == Init => MemoryInv
  BY DEF Init, MemoryInv, NoDecompressor, NoMemory, HasPools, Nothing

\* A call of the library that keeps the manager, wherever it goes on.
LEMMA CallKeeps ==
  ASSUME MemoryInv, cinfo.mem, NEW d, Keeps(cinfo, d), NEW next, Library(d, next),
         next \notin {"idle", "create", "copy"}
  PROVE  MemoryInv'
  BY DEF MemoryInv, Library, Keeps

\* Every step of decoding but the failing allocations.
LEMMA DecodeKeeps ==
  ASSUME MemoryInv, Decode
  PROVE  MemoryInv'
<1> HasPools(cinfo)
  BY DEF MemoryInv
<1>1. CASE CreateDecompress
  BY <1>1, CreateHasManager DEF CreateDecompress, Library, MemoryInv
<1>2. CASE Header
  BY <1>2, KeepsReadHeader, CallKeeps DEF Header, MemoryInv
<1>3. CASE Parameters
  <2> DEFINE e == [cinfo EXCEPT !.c.color = "YCbCr", !.ret = "done"]
  <2>1. Keeps(cinfo, e)
    BY DEF HasPools, Keeps
  <2>2. Keeps(cinfo, LoadDht(e))
    BY <2>1, KeepsLoadDht DEF Keeps
  <2> QED
    BY <1>3, <2>2, CallKeeps DEF Parameters, MemoryInv
<1>4. CASE Start
  BY <1>4, KeepsStartDecompress, CallKeeps DEF Start, MemoryInv
<1>5. CASE Buffers
  BY <1>5, KeepsAlloc, KeepsFail DEF Buffers, MemoryInv, Keeps
<1>6. CASE Row
  <2>1. PICK d \in {ReadScanlines(cinfo, In, Have)} :
          IF Failed(d) THEN Library(d, "row") /\ UNCHANGED <<y, jpegbuffer>> ELSE ReadRow(d)
    BY <1>6 DEF Row
  <2>2. Keeps(cinfo, d) /\ cinfo.mem
    BY <1>6, <2>1, KeepsReadScanlines DEF Row, MemoryInv
  <2>3. CASE Failed(d)
    BY <2>1, <2>2, <2>3, CallKeeps
  <2>4. CASE ~Failed(d)
    <3>1. cinfo' = d /\ (pc' = pc \/ pc' = "undefined")
      BY <2>1, <2>4 DEF ReadRow
    <3> QED
      BY <1>6, <2>2, <3>1 DEF MemoryInv, Keeps, Row
  <2> QED
    BY <2>3, <2>4
<1>7. CASE Rows
  BY <1>7 DEF Rows, MemoryInv
<1>8. CASE Finish
  BY <1>8, KeepsFinishDecompress, CallKeeps DEF Finish, MemoryInv
<1>9. CASE DestroyDecompress
  <2>1. cinfo' = Destroy(cinfo) /\ pc' = "copy"
    BY <1>9 DEF DestroyDecompress
  <2>2. HasPools(Destroy(cinfo)) /\ ~Destroy(cinfo).mem /\ Nothing(Destroy(cinfo))
    BY DEF MemoryInv, Destroy, SelfDestruct, FreePool, HasPools, Nothing, Pools
  <2> QED
    BY <2>1, <2>2 DEF MemoryInv
<1>10. CASE Copy
  <2>1. cinfo' = NoDecompressor /\ (pc' = "idle" \/ pc' = "undefined")
    BY <1>10 DEF Copy
  <2> QED
    BY <2>1 DEF MemoryInv, NoDecompressor, NoMemory, HasPools, Nothing
<1> QED
  BY <1>1, <1>2, <1>3, <1>4, <1>5, <1>6, <1>7, <1>8, <1>9, <1>10 DEF Decode

\* An allocation that fails, in whichever call, leaves a part of what the call
\* allocates, and the manager unless it is the one that failed.
LEMMA OutOfMemoryKeeps ==
  ASSUME MemoryInv, OutOfMemory
  PROVE  MemoryInv'
<1>1. HasPools(cinfo)
  BY DEF MemoryInv
<1>2. HasPools(Whole) /\ Whole.mem
  <2>1. CASE pc = "create"
    BY <2>1, CreateHasManager DEF Whole
  <2>2. CASE pc # "create"
    <3>1. cinfo.mem
      BY <2>2 DEF OutOfMemory, Allocating, MemoryInv
    <3> QED
      BY <1>1, <2>2, <3>1, KeepsReadHeader, KeepsLoadDht, KeepsStartDecompress
      DEF Whole, Keeps
  <2> QED
    BY <2>1, <2>2
<1>3. PICK part \in Partly(Whole) : cinfo' = Fail(part, "JERR_OUT_OF_MEMORY")
  BY DEF OutOfMemory
<1>4. HasPools(part) /\ (~part.mem => Nothing(part))
  <2>1. CASE part = [Whole EXCEPT !.pool = cinfo.pool, !.mem = cinfo.mem]
    BY <1>1, <1>2, <2>1 DEF HasPools, MemoryInv, Nothing
  <2>2. CASE part = [Whole EXCEPT !.pool = cinfo.pool]
    BY <1>1, <1>2, <2>2 DEF HasPools
  <2>3. CASE part = [Whole EXCEPT !.pool["image"] = cinfo.pool["image"]]
    BY <1>1, <1>2, <2>3 DEF HasPools
  <2> QED
    BY <1>3, <2>1, <2>2, <2>3 DEF Partly
<1>5. HasPools(cinfo') /\ (~cinfo'.mem => Nothing(cinfo'))
  BY <1>3, <1>4 DEF Fail, HasPools, Nothing
<1>6. pc' = "error"
  BY DEF OutOfMemory
<1> QED
  BY <1>5, <1>6 DEF MemoryInv

LEMMA MemoryInvNext == MemoryInv /\ [Next]_vars => MemoryInv'
<1> SUFFICES ASSUME MemoryInv, [Next]_vars PROVE MemoryInv'
  OBVIOUS
<1>1. CASE \E p \in DOMAIN Pictures : PixelToBmp(p)
  BY <1>1 DEF PixelToBmp, MemoryInv
<1>2. CASE FreeCameraMemory
  BY <1>2 DEF FreeCameraMemory, MemoryInv
<1>3. CASE UNCHANGED vars
  BY <1>3 DEF vars, MemoryInv
<1> QED
  BY <1>1, <1>2, <1>3, DecodeKeeps, OutOfMemoryKeeps DEF Next

THEOREM MemoryInvariant == Spec => []MemoryInv
<1> QED
  BY MemoryInvInit, MemoryInvNext, PTL DEF Spec

\* However processimage ends, by an error in any of the library's calls, an
\* allocation that fails in any of them, a frame that ends too early, or well:
\* both pools are freed and the manager with them.
THEOREM EverythingReleased == Spec => []Released
<1>1. MemoryInv => Released
  BY DEF MemoryInv, Released, Nothing
<1> QED
  BY <1>1, MemoryInvariant, PTL

-----------------------------------------------------------------------------
(***************************************************************************)
(* The marker reader.  A routine keeps the header that a frame segment has *)
(* given, leaves the place in the source at a unit of it, and, suspended,  *)
(* where it was.                                                           *)
(***************************************************************************)

\* A set of natural numbers has a least element.
LEMMA LeastOf ==
  ASSUME NEW T, T \subseteq Nat, T # {}
  PROVE  \E m \in T : \A n \in T : m <= n
<1> DEFINE R == OpToRel(<, Nat)
<1>1. IsWellFoundedOn(R, Nat)
  BY NatLessThanWellFounded
<1>2. \A m, n \in Nat : n < m => <<n, m>> \in R
  BY DEF OpToRel
<1> HIDE DEF R
<1>3. PICK m \in T : \A n \in T : ~ (<<n, m>> \in R)
  BY <1>1, WFMin
<1>4. ASSUME NEW n \in T PROVE m <= n
  <2>1. m \in Nat /\ n \in Nat /\ ~ (n < m)
    BY <1>2, <1>3
  <2> QED
    BY <2>1
<1> QED
  BY <1>4

LEMMA Upwards ==
  ASSUME NEW n \in Nat, NEW T, 0 \in T, \A i \in 0..n : i \in T /\ i < n => i + 1 \in T
  PROVE  \A i \in 0..n : i \in T
<1> DEFINE Without == {i \in 0..n : i \notin T}
<1>1. SUFFICES ASSUME Without # {} PROVE FALSE
  OBVIOUS
<1>2. PICK m \in Without : \A k \in Without : m <= k
  <2>1. Without \subseteq Nat
    OBVIOUS
  <2> HIDE DEF Without
  <2> QED
    BY <1>1, <2>1, LeastOf
<1>3. m # 0
  OBVIOUS
<1>4. m - 1 \in 0..n /\ m - 1 \notin Without
  BY <1>2, <1>3
<1> QED
  BY <1>4

Named == {"unread", "sof", "width", "height", "n", "comp_info", "block"}

\* Once a frame segment has been read, the picture's size is known.
Sound(c) ==
  /\ Named \subseteq DOMAIN c
  /\ c.sof \in BOOLEAN
  /\ c.sof => c.width \in Nat \ {0} /\ c.height \in Nat \ {0} /\ c.n \in Nat \ {0}

\* The header is left alone.
SameHeader(c, e) ==
  /\ DOMAIN e = DOMAIN c
  /\ e.sof = c.sof /\ e.width = c.width /\ e.height = c.height
  /\ e.n = c.n /\ e.comp_info = c.comp_info /\ e.block = c.block

\* An unread marker that has a segment is the unit last read.
Placed(c, in, at) ==
  /\ at \in 0 .. Len(in)
  /\ c.unread \notin {None} \cup Parameterless =>
       at >= 1 /\ in[at].unit = "marker" /\ in[at].m = c.unread

\* How the routine of a marker may end that has read from `at` on.
Ends(c, in, at, r) ==
  /\ {"c", "at", "ret"} \subseteq DOMAIN r
  /\ r.ret \notin {"SOS", "EOI", "row", "scan", "ok"}
  /\ r.ret \in {"done", "suspended"} =>
       Sound(r.c) /\ r.at \in at .. Len(in) /\ (c.sof => SameHeader(c, r.c))
  /\ r.ret = "suspended" => r.at = at /\ r.c.unread = c.unread

LEMMA SofEnds ==
  ASSUME NEW c, NEW in, NEW at, Formed(in), Sound(c), Placed(c, in, at), c.unread \in Sofs
  PROVE  Ends(c, in, at, GetSof(c, in, at, Len(in)))
<1> DEFINE have == Len(in)
           c0 == [c EXCEPT !.kind = c.unread]
           f == in[at + 2]
           c1 == [c0 EXCEPT !.precision = f.precision, !.height = f.height,
                            !.width = f.width, !.n = f.n]
           code == SofError(c1, in[at + 1].bytes)
           read == IF have - at - 2 < f.n THEN have - at - 2 ELSE f.n
           c2 == [c1 EXCEPT !.comp_info =
                    [i \in 1 .. f.n |-> IF i <= read THEN in[at + 2 + i].comp
                                        ELSE IF i \in DOMAIN @ THEN @[i] ELSE None]]
           r == GetSof(c, in, at, have)
<1>1. r = IF have < at + 2 THEN Suspend(c0, at)
          ELSE IF code # None THEN Error(c1, at, code)
          ELSE IF read < f.n THEN Suspend(c2, at)
          ELSE Done([c2 EXCEPT !.sof = TRUE], at + 2 + f.n)
  BY DEF GetSof
<1>2. have \in Nat /\ at \in 1 .. have /\ in[at].unit = "marker" /\ in[at].m = c.unread
  <2>1. c.unread \notin {None} \cup Parameterless
    BY DEF Sofs, Parameterless, None, RST
  <2> QED
    BY <2>1 DEF Placed, Formed
<1>3. have >= at + 2 => f.width \in Nat /\ f.height \in Nat /\ f.n \in Nat
  BY <1>2 DEF Formed, FormedAt
<1>4. Sound(c0) /\ SameHeader(c, c0) /\ c0.unread = c.unread
  BY DEF Sound, SameHeader, Named
<1>5. /\ code # None => code \in {"JERR_SOF_DUPLICATE", "JERR_EMPTY_IMAGE", "JERR_BAD_LENGTH"}
      /\ code = None => /\ ~c1.sof
                        /\ ~ (c1.height <= 0 \/ c1.width <= 0 \/ c1.n <= 0)
  BY DEF SofError, None
<1>6. /\ Named \subseteq DOMAIN c1 /\ c1.sof = c.sof /\ c1.unread = c.unread
      /\ c1.width = f.width /\ c1.height = f.height /\ c1.n = f.n
  BY DEF Sound, Named
<1>7. /\ Named \subseteq DOMAIN c2 /\ c2.sof = c1.sof /\ c2.unread = c1.unread
      /\ c2.width = c1.width /\ c2.height = c1.height /\ c2.n = c1.n
  BY <1>6 DEF Named
<1> SUFFICES Ends(c, in, at, r)
  OBVIOUS
<1> HIDE DEF c0, c1, c2, code, f, read, r
<1>8. CASE have < at + 2
  BY <1>1, <1>2, <1>4, <1>8 DEF Ends, Suspend
<1>9. CASE have >= at + 2 /\ code # None
  BY <1>1, <1>2, <1>5, <1>9 DEF Ends, Error
<1>10. CASE have >= at + 2 /\ code = None
  <2>1. read \in Int /\ (~ (read < f.n) => at + 2 + f.n <= have)
    BY <1>2, <1>3, <1>10 DEF read
  <2>2. ~c.sof /\ f.width > 0 /\ f.height > 0 /\ f.n > 0
    BY <1>3, <1>5, <1>6, <1>10
  <2>3. CASE read < f.n
    <3>1. r = Suspend(c2, at)
      BY <1>1, <1>2, <1>10, <2>3
    <3>2. Sound(c2)
      BY <1>6, <1>7, <2>2, <1>5 DEF Sound
    <3> QED
      BY <1>2, <1>6, <1>7, <2>2, <3>1, <3>2 DEF Ends, Suspend
  <2>4. CASE ~ (read < f.n)
    <3> DEFINE e == [c2 EXCEPT !.sof = TRUE]
    <3>1. r = Done(e, at + 2 + f.n)
      BY <1>1, <1>2, <1>10, <2>4
    <3>2. Sound(e)
      BY <1>3, <1>6, <1>7, <1>10, <2>2 DEF Sound, Named
    <3> HIDE DEF e
    <3> QED
      BY <1>2, <1>3, <1>10, <2>1, <2>2, <2>4, <3>1, <3>2 DEF Ends, Done
  <2> QED
    BY <2>3, <2>4
<1> QED
  BY <1>2, <1>8, <1>9, <1>10

LEMMA SosEnds ==
  ASSUME NEW c, NEW in, NEW at, Formed(in), Sound(c), Placed(c, in, at), c.unread = "SOS"
  PROVE  /\ Ends(c, in, at, GetSos(c, in, at, Len(in)))
         /\ GetSos(c, in, at, Len(in)).ret = "done" => GetSos(c, in, at, Len(in)).c.sof
<1> DEFINE have == Len(in)
           n == in[at + 2].n
           code == SosError(c, in[at + 1].bytes, n)
           read == IF have - at - 2 < n THEN have - at - 2 ELSE n
           Known(i) == \E k \in 1 .. c.n : c.comp_info[k].id = in[at + 2 + i].id
           Of(i) == CHOOSE k \in 1 .. c.n :
                      /\ c.comp_info[k].id = in[at + 2 + i].id
                      /\ \A j \in 1 .. k - 1 : c.comp_info[j].id # in[at + 2 + i].id
           sel == [i \in 1 .. read |->
                     [ci |-> Of(i), dc |-> in[at + 2 + i].dc, ac |-> in[at + 2 + i].ac]]
           c1 == [c EXCEPT !.scan = sel]
           p == in[at + 3 + n]
           c2 == [c1 EXCEPT !.Ss = p.Ss, !.Se = p.Se, !.Ah = p.Ah, !.Al = p.Al,
                            !.next_restart = 0,
                            !.scans = IF n > 0 THEN @ + 1 ELSE @]
           unknown == \E i \in 1 .. read : ~ Known(i)
           r == GetSos(c, in, at, have)
<1>1. r = IF ~ c.sof THEN Error(c, at, "JERR_SOS_NO_SOF")
          ELSE IF have < at + 2 THEN Suspend(c, at)
          ELSE IF code # None THEN Error(c, at, code)
          ELSE IF unknown THEN Error(c, at, "JERR_BAD_COMPONENT_ID")
          ELSE IF have < at + 3 + n THEN Suspend(c1, at)
          ELSE Done(c2, at + 3 + n)
  BY DEF GetSos
<1>2. have \in Nat /\ at \in 1 .. have /\ in[at].unit = "marker" /\ in[at].m = "SOS"
  <2>1. c.unread \notin {None} \cup Parameterless
    BY DEF Parameterless, None, RST
  <2> QED
    BY <2>1 DEF Placed, Formed
<1>3. have >= at + 2 => n \in Nat
  BY <1>2 DEF Formed, FormedAt
<1> HIDE DEF sel, n, p
<1>4. Sound(c1) /\ SameHeader(c, c1) /\ c1.unread = c.unread
  BY DEF Sound, SameHeader, Named
<1>5. Sound(c2) /\ SameHeader(c, c2)
  BY <1>4 DEF Sound, SameHeader, Named
<1>6. code # None => code = "JERR_BAD_LENGTH"
  BY DEF SosError, None
<1>7. SameHeader(c, c)
  BY DEF SameHeader
<1> SUFFICES Ends(c, in, at, r) /\ (r.ret = "done" => r.c.sof)
  OBVIOUS
<1> HIDE DEF c1, c2, unknown, code, r
<1>8. CASE ~ c.sof
  BY <1>1, <1>8 DEF Ends, Error
<1>9. CASE c.sof /\ have < at + 2
  BY <1>1, <1>2, <1>7, <1>9 DEF Ends, Suspend
<1>10. CASE c.sof /\ have >= at + 2
  <2>1. CASE code # None
    BY <1>1, <1>2, <1>6, <1>10, <2>1 DEF Ends, Error
  <2>2. CASE code = None /\ unknown
    BY <1>1, <1>2, <1>10, <2>2 DEF Ends, Error
  <2>3. CASE code = None /\ ~unknown /\ have < at + 3 + n
    BY <1>1, <1>2, <1>4, <1>10, <2>3 DEF Ends, Suspend
  <2>4. CASE code = None /\ ~unknown /\ ~ (have < at + 3 + n)
    <3>1. r = Done(c2, at + 3 + n)
      BY <1>1, <1>2, <1>10, <2>4
    <3>2. at + 3 + n \in at .. have
      BY <1>2, <1>3, <1>10, <2>4
    <3> QED
      BY <1>5, <1>10, <3>1, <3>2 DEF Ends, Done, SameHeader
  <2> QED
    BY <2>1, <2>2, <2>3, <2>4
<1> QED
  BY <1>2, <1>8, <1>9, <1>10 DEF Sound

\* What a loop over tables has made of c and of the source after k units.
Underway(c, at, k, r) ==
  /\ {"c", "at", "left", "ret"} \subseteq DOMAIN r
  /\ r.at \in at .. at + k
  /\ SameHeader(c, r.c)
  /\ r.c.unread = c.unread
  /\ r.ret \in {"reading"} \cup TableErrors

LEMMA TableTaken ==
  ASSUME NEW c, Sound(c), NEW at \in Nat, NEW k \in Nat, NEW r, Underway(c, at, k, r),
         NEW kind \in {"DHT", "DQT", "DAC"}, NEW u
  PROVE  Underway(c, at, k + 1, TakeTable(kind, r, u))
<1>1. ASSUME NEW code \in TableErrors
      PROVE  Underway(c, at, k + 1, [r EXCEPT !.ret = code])
  BY <1>1 DEF Underway
<1>2. ASSUME NEW e, SameHeader(c, e), e.unread = c.unread, NEW bytes
      PROVE  Underway(c, at, k + 1, Stored(r, e, bytes))
  BY <1>2 DEF Underway, Stored
<1>3. ASSUME NEW e, DOMAIN e = DOMAIN r.c, \A f \in Named : e[f] = r.c[f], NEW bytes
      PROVE  Underway(c, at, k + 1, Stored(r, e, bytes))
  <2>1. SameHeader(c, e) /\ e.unread = c.unread
    BY <1>3 DEF Underway, SameHeader, Named
  <2> QED
    BY <1>2, <2>1
<1>4. Named \subseteq DOMAIN r.c
  BY DEF Underway, SameHeader, Sound
<1>5. HuffError(u, r.left) \in {None} \cup TableErrors /\ CondError(u) \in {None} \cup TableErrors
  BY DEF HuffError, CondError, TableErrors
<1>6. Underway(c, at, k + 1, TakeHuff(r, u))
  <2> DEFINE ac == [r.c EXCEPT !.ac[u.index] = u.table]
             dc == [r.c EXCEPT !.dc[u.index] = u.table]
             e == IF u.ac THEN ac ELSE dc
  <2>1. DOMAIN e = DOMAIN r.c /\ \A f \in Named : e[f] = r.c[f]
    <3>1. DOMAIN ac = DOMAIN r.c /\ \A f \in Named : ac[f] = r.c[f]
      BY <1>4 DEF Named
    <3>2. DOMAIN dc = DOMAIN r.c /\ \A f \in Named : dc[f] = r.c[f]
      BY <1>4 DEF Named
    <3> HIDE DEF ac, dc
    <3> QED
      BY <3>1, <3>2
  <2>2. TakeHuff(r, u) = IF HuffError(u, r.left) # None
                         THEN [r EXCEPT !.ret = HuffError(u, r.left)]
                         ELSE Stored(r, e, 17 + u.count)
    BY DEF TakeHuff
  <2> HIDE DEF e
  <2> QED
    BY <1>1, <1>3, <1>5, <2>1, <2>2
<1>7. Underway(c, at, k + 1, TakeQuant(r, u))
  <2> DEFINE e == [r.c EXCEPT !.quant[u.index] = u.table]
  <2>1. DOMAIN e = DOMAIN r.c /\ \A f \in Named : e[f] = r.c[f]
    BY <1>4 DEF Named
  <2>2. TakeQuant(r, u) = IF u.index \notin Slots THEN [r EXCEPT !.ret = "JERR_DQT_INDEX"]
                          ELSE Stored(r, e, QuantBytes(u, r.left))
    BY DEF TakeQuant
  <2>3. "JERR_DQT_INDEX" \in TableErrors
    BY DEF TableErrors
  <2> HIDE DEF e
  <2> QED
    BY <1>1, <1>3, <2>1, <2>2, <2>3
<1>8. Underway(c, at, k + 1, TakeCond(r, u))
  <2> DEFINE e == [r.c EXCEPT !.cond = (u.index :> u.val) @@ @]
  <2>1. DOMAIN e = DOMAIN r.c /\ \A f \in Named : e[f] = r.c[f]
    BY <1>4 DEF Named
  <2>2. TakeCond(r, u) = IF CondError(u) # None THEN [r EXCEPT !.ret = CondError(u)]
                         ELSE Stored(r, e, 2)
    BY DEF TakeCond
  <2> HIDE DEF e
  <2> QED
    BY <1>1, <1>3, <1>5, <2>1, <2>2
<1> QED
  BY <1>6, <1>7, <1>8 DEF TakeTable

LEMMA RoundsUnderway ==
  ASSUME NEW c, Sound(c), NEW at \in Nat, NEW have \in Nat, at <= have, NEW in, NEW left,
         NEW kind \in {"DHT", "DQT", "DAC"}, NEW least
  PROVE  Underway(c, at, have - at, Rounds(kind, least, Reading(c, at, left), in, at, have))
<1> DEFINE n == have - at
           first == Reading(c, at, left)
           step(r, k) == Round(kind, least, r, in[at + k])
           body(f, k) == IF k = 0 THEN first ELSE step(f[k - 1], k)
           full(f) == [k \in 0 .. have - at |-> body(f, k)]
           Run(f, m) == f = [k \in 0 .. m |-> body(f, k)]
<1>1. n \in Nat
  OBVIOUS
<1> HIDE DEF step, first
<1>2. \E f : Run(f, n)
  <2> DEFINE T == {m \in 0 .. n : \E f : Run(f, m)}
  <2>1. 0 \in T
    <3> DEFINE f0 == [k \in 0 .. 0 |-> first]
    <3>1. f0 = [k \in 0 .. 0 |-> body(f0, k)]
      OBVIOUS
    <3> HIDE DEF f0, body
    <3> QED
      BY <1>1, <3>1
  <2>2. ASSUME NEW m \in 0 .. n, m \in T, m < n
        PROVE  m + 1 \in T
    <3>1. PICK f : Run(f, m)
      BY <2>2
    <3> DEFINE g == [k \in 0 .. m + 1 |-> IF k = m + 1 THEN step(f[m], m + 1) ELSE f[k]]
    <3>2. \A k \in 0 .. m : g[k] = f[k]
      OBVIOUS
    <3>3. ASSUME NEW k \in 0 .. m + 1
          PROVE  g[k] = body(g, k)
      <4>1. CASE k = m + 1
        BY <3>2, <4>1
      <4>2. CASE k # m + 1 /\ k # 0
        <5>1. k \in 0 .. m /\ k - 1 \in 0 .. m
          BY <4>2
        <5>2. f[k] = step(f[k - 1], k)
          BY <3>1, <4>2, <5>1
        <5> QED
          BY <3>2, <4>2, <5>1, <5>2
      <4>3. CASE k = 0
        BY <3>1, <3>2, <4>3
      <4> QED
        BY <4>1, <4>2, <4>3
    <3>4. g = [k \in 0 .. m + 1 |-> body(g, k)]
      <4>1. DOMAIN g = 0 .. m + 1 /\ g = [k \in 0 .. m + 1 |-> g[k]]
        OBVIOUS
      <4> HIDE DEF g, body
      <4> QED
        BY <3>3, <4>1
    <3> HIDE DEF g, body
    <3>5. m + 1 \in 0 .. n
      BY <2>2
    <3> QED
      BY <3>4, <3>5
  <2> HIDE DEF T
  <2>3. n \in T
    <3>1. \A m \in 0 .. n : m \in T
      BY <1>1, <2>1, <2>2, Upwards
    <3> QED
      BY <1>1, <3>1
  <2> QED
    BY <2>3 DEF T
<1>3. (CHOOSE f : f = full(f)) = full(CHOOSE f : f = full(f))
  <2> HIDE DEF body
  <2>1. \E f : f = full(f)
    BY <1>2
  <2> HIDE DEF full
  <2> QED
    BY <2>1, Zenon
<1> DEFINE after == CHOOSE f : f = full(f)
<1>4. Rounds(kind, least, first, in, at, have) = after[n]
  BY DEF Rounds, step
<1>5. ASSUME NEW k \in 0 .. n PROVE after[k] = body(after, k)
  <2>1. after = full(after)
    <3> HIDE DEF full
    <3> QED
      BY <1>3 DEF after
  <2> HIDE DEF after, body
  <2> QED
    BY <2>1
<1> HIDE DEF after
<1> DEFINE T == {k \in 0 .. n : Underway(c, at, k, after[k])}
<1>6. 0 \in T
  <2>1. after[0] = first
    BY <1>1, <1>5
  <2>2. Underway(c, at, 0, first)
    BY DEF first, Reading, Underway, SameHeader
  <2> QED
    BY <1>1, <2>1, <2>2
<1>7. ASSUME NEW k \in 0 .. n, k \in T, k < n
      PROVE  k + 1 \in T
  <2>1. after[k + 1] = step(after[k], k + 1)
    BY <1>1, <1>5, <1>7
  <2>2. Underway(c, at, k, after[k])
    BY <1>7
  <2>3. Underway(c, at, k + 1, after[k])
    BY <2>2 DEF Underway
  <2>4. Underway(c, at, k + 1, TakeTable(kind, after[k], in[at + (k + 1)]))
    BY <2>2, TableTaken
  <2>5. Underway(c, at, k + 1, after[k + 1])
    BY <2>1, <2>3, <2>4 DEF step, Round
  <2> QED
    BY <1>7, <2>5
<1>8. n \in T
  <2> HIDE DEF T
  <2>1. \A k \in 0 .. n : k \in T
    BY <1>1, <1>6, <1>7, Upwards
  <2> QED
    BY <1>1, <2>1
<1> QED
  BY <1>4, <1>8 DEF first

LEMMA TablesEnd ==
  ASSUME NEW c, Sound(c), NEW in, NEW at, Formed(in), Placed(c, in, at),
         NEW kind \in {"DHT", "DQT", "DAC"}, NEW least, NEW left, at + 1 <= Len(in)
  PROVE  Ends(c, in, at, Again(Tables(kind, least, c, in, at + 1, left, Len(in)), at))
<1> DEFINE r == Rounds(kind, least, Reading(c, at + 1, left), in, at + 1, Len(in))
           e == Ended(r, least)
<1>1. Len(in) \in Nat /\ at \in 0 .. Len(in)
  BY DEF Formed, Placed
<1>2. Underway(c, at + 1, Len(in) - (at + 1), r)
  BY <1>1, RoundsUnderway
<1> HIDE DEF r
<1>3. /\ e.ret \in {"done", "suspended", "JERR_BAD_LENGTH"} \cup TableErrors
      /\ e.c = r.c /\ e.at = r.at
      /\ {"c", "at", "ret"} \subseteq DOMAIN e
  BY DEF Ended, Done, Suspend, Error
<1>4. r.at \in at .. Len(in) /\ SameHeader(c, r.c) /\ r.c.unread = c.unread
  BY <1>1, <1>2 DEF Underway
<1>5. Sound(r.c)
  BY <1>4 DEF Sound, SameHeader
<1> HIDE DEF e
<1>6. Ends(c, in, at, Again(e, at))
  BY <1>1, <1>3, <1>4, <1>5 DEF Ends, Again, TableErrors
<1> QED
  BY <1>6 DEF Tables, e, r

LEMMA SkipInside ==
  ASSUME NEW have \in Nat, NEW at \in 0 .. have, NEW units \in Nat
  PROVE  Skip(at, units, have) \in at .. have
  BY DEF Skip

LEMMA SoiEnds ==
  ASSUME NEW c, NEW in, NEW at, Formed(in), Sound(c), Placed(c, in, at)
  PROVE  Ends(c, in, at, GetSoi(c, at))
<1> DEFINE e == [c EXCEPT !.soi = TRUE, !.restart = 0, !.color = None,
                          !.cond = Conditioning, !.jfif = FALSE, !.adobe = None]
<1>1. Sound(e) /\ SameHeader(c, e)
  BY DEF Sound, SameHeader, Named
<1>2. at \in at .. Len(in)
  BY DEF Placed, Formed
<1>3. GetSoi(c, at) = IF c.soi THEN Error(c, at, "JERR_SOI_DUPLICATE") ELSE Done(e, at)
  BY DEF GetSoi
<1> HIDE DEF e
<1> QED
  BY <1>1, <1>2, <1>3 DEF Ends, Error, Done

LEMMA DriEnds ==
  ASSUME NEW c, NEW in, NEW at, Formed(in), Sound(c), Placed(c, in, at)
  PROVE  Ends(c, in, at, GetDri(c, in, at, Len(in)))
<1> DEFINE e == [c EXCEPT !.restart = in[at + 2].interval]
<1>1. Sound(e) /\ SameHeader(c, e) /\ SameHeader(c, c)
  BY DEF Sound, SameHeader, Named
<1>2. Len(in) \in Nat /\ at \in 0 .. Len(in)
  BY DEF Placed, Formed
<1>3. \/ GetDri(c, in, at, Len(in)) = Suspend(c, at)
      \/ GetDri(c, in, at, Len(in)) = Error(c, at, "JERR_BAD_LENGTH")
      \/ at + 2 <= Len(in) /\ GetDri(c, in, at, Len(in)) = Done(e, at + 2)
  BY <1>2 DEF GetDri
<1> HIDE DEF e
<1> QED
  BY <1>1, <1>2, <1>3 DEF Ends, Error, Done, Suspend

LEMMA SegmentSkipped ==
  ASSUME NEW c, NEW in, NEW at, Formed(in), Sound(c), Placed(c, in, at),
         c.unread \in {"APP0", "APP14"} \cup Skipped
  PROVE  /\ Ends(c, in, at, GetInteresting(c, in, at, Len(in)))
         /\ Ends(c, in, at, SkipVariable(c, in, at, Len(in)))
<1> DEFINE have == Len(in)
           d == in[at + 2]
           rest == in[at + 1].rest
           seen == CASE c.unread = "APP0" /\ d.jfif -> [c EXCEPT !.jfif = TRUE]
                     [] c.unread = "APP14" /\ d.adobe # None -> [c EXCEPT !.adobe = d.adobe]
                     [] OTHER -> c
<1>1. have \in Nat /\ at \in 1 .. have /\ in[at].unit = "marker" /\ in[at].m = c.unread
  <2>1. c.unread \notin {None} \cup Parameterless
    BY DEF Parameterless, None, RST, Skipped
  <2> QED
    BY <2>1 DEF Placed, Formed
<1>2. at + 1 <= have => rest \in Nat
  BY <1>1 DEF Formed, FormedAt
<1>3. Sound(seen) /\ SameHeader(c, seen) /\ SameHeader(c, c)
  <2> DEFINE a == [c EXCEPT !.jfif = TRUE]
             b == [c EXCEPT !.adobe = d.adobe]
  <2>1. Sound(a) /\ SameHeader(c, a) /\ Sound(b) /\ SameHeader(c, b) /\ SameHeader(c, c)
    BY DEF Sound, SameHeader, Named
  <2> HIDE DEF a, b
  <2>2. seen \in {a, b, c}
    BY DEF a, b
  <2> HIDE DEF seen
  <2> QED
    BY <2>1, <2>2
<1> HIDE DEF seen, rest
<1>4. \/ GetInteresting(c, in, at, have) = Suspend(c, at)
      \/ at + 2 <= have /\ GetInteresting(c, in, at, have) = Done(seen, Skip(at + 2, rest, have))
  BY <1>1 DEF GetInteresting, seen, rest
<1>5. \/ SkipVariable(c, in, at, have) = Suspend(c, at)
      \/ at + 1 <= have /\ SkipVariable(c, in, at, have) = Done(c, Skip(at + 1, rest, have))
  BY <1>1 DEF SkipVariable, rest
<1>6. /\ at + 2 <= have => Skip(at + 2, rest, have) \in at .. have
      /\ at + 1 <= have => Skip(at + 1, rest, have) \in at .. have
  <2>1. ASSUME at + 2 <= have PROVE Skip(at + 2, rest, have) \in at .. have
    <3>1. at + 2 \in 0 .. have /\ rest \in Nat
      BY <1>1, <1>2, <2>1
    <3>2. Skip(at + 2, rest, have) \in at + 2 .. have
      BY <1>1, <3>1, SkipInside
    <3> QED
      BY <1>1, <3>2
  <2>2. ASSUME at + 1 <= have PROVE Skip(at + 1, rest, have) \in at .. have
    <3>1. at + 1 \in 0 .. have /\ rest \in Nat
      BY <1>1, <1>2, <2>2
    <3>2. Skip(at + 1, rest, have) \in at + 1 .. have
      BY <1>1, <3>1, SkipInside
    <3> QED
      BY <1>1, <3>2
  <2> QED
    BY <2>1, <2>2
<1>7. Ends(c, in, at, Suspend(c, at))
  BY <1>1, <1>3 DEF Ends, Suspend
<1>8. ASSUME NEW e \in {seen, c}, NEW next \in at .. have
      PROVE  Ends(c, in, at, Done(e, next))
  BY <1>3, <1>8 DEF Ends, Done
<1> QED
  BY <1>4, <1>5, <1>6, <1>7, <1>8

LEMMA WithoutParameters ==
  Parameterless = {"RST0", "RST1", "RST2", "RST3", "RST4", "RST5", "RST6", "RST7", "TEM"}
  BY DEF Parameterless, RST

\* The routine of any marker.
LEMMA ProcessEnds ==
  ASSUME NEW c, NEW in, NEW at, Formed(in), Sound(c), Placed(c, in, at)
  PROVE  /\ Ends(c, in, at, Process(c, in, at, Len(in)))
         /\ c.unread = "SOS" /\ Process(c, in, at, Len(in)).ret = "done"
              => Process(c, in, at, Len(in)).c.sof
<1> DEFINE m == c.unread
           r == Process(c, in, at, Len(in))
<1>0. Len(in) \in Nat /\ at \in 0 .. Len(in) /\ SameHeader(c, c)
  BY DEF Placed, Formed, SameHeader
<1> SUFFICES Ends(c, in, at, r) /\ (m = "SOS" /\ r.ret = "done" => r.c.sof)
  OBVIOUS
<1>1. CASE m = "SOI"
  <2>1. r = GetSoi(c, at)
    BY <1>1, WithoutParameters DEF Process, Sofs, Skipped
  <2> QED
    BY <1>1, <2>1, SoiEnds
<1>2. CASE m \in Sofs
  <2>1. r = GetSof(c, in, at, Len(in)) /\ m # "SOS"
    BY <1>2, WithoutParameters DEF Process, Sofs, Skipped
  <2> QED
    BY <1>2, <2>1, SofEnds
<1>3. CASE m = "SOS"
  <2>1. r = GetSos(c, in, at, Len(in))
    BY <1>3, WithoutParameters DEF Process, Sofs, Skipped
  <2> QED
    BY <1>3, <2>1, SosEnds
<1>4. CASE m \in {"DAC", "DHT", "DQT"}
  <2>1. Ends(c, in, at, Suspend(c, at))
    BY <1>0 DEF Ends, Suspend
  <2>2. at + 1 <= Len(in) => \A kind \in {"DHT", "DQT", "DAC"} : \A least, left :
           Ends(c, in, at, Again(Tables(kind, least, c, in, at + 1, left, Len(in)), at))
    BY TablesEnd
  <2>3. /\ Ends(c, in, at, GetDht(c, in, at, Len(in)))
        /\ Ends(c, in, at, GetDqt(c, in, at, Len(in)))
        /\ Ends(c, in, at, GetDac(c, in, at, Len(in)))
    BY <1>0, <2>1, <2>2 DEF GetDht, GetDqt, GetDac
  <2>4. m # "SOS" /\ r \in {GetDht(c, in, at, Len(in)), GetDqt(c, in, at, Len(in)),
                           GetDac(c, in, at, Len(in))}
    BY <1>4, WithoutParameters DEF Process, Sofs, Skipped
  <2> QED
    BY <2>3, <2>4
<1>5. CASE m = "DRI"
  <2>1. r = GetDri(c, in, at, Len(in))
    BY <1>5, WithoutParameters DEF Process, Sofs, Skipped
  <2> QED
    BY <1>5, <2>1, DriEnds
<1>6. CASE m \in {"APP0", "APP14"} \cup Skipped
  <2>1. m # "SOS" /\ r \in {GetInteresting(c, in, at, Len(in)), SkipVariable(c, in, at, Len(in))}
    BY <1>6, WithoutParameters DEF Process, Sofs, Skipped
  <2> QED
    BY <1>6, <2>1, SegmentSkipped
<1>7. CASE m \notin {"SOI", "SOS", "DAC", "DHT", "DQT", "DRI", "APP0", "APP14"} \cup Sofs \cup Skipped
  <2>1. r \in {Done(c, at), Error(c, at, "JERR_SOF_UNSUPPORTED"), Error(c, at, "JERR_UNKNOWN_MARKER")}
    BY <1>7, WithoutParameters DEF Process, Sofs, Skipped
  <2>2. m # "SOS"
    BY <1>7
  <2> HIDE DEF m, r
  <2>3. Ends(c, in, at, r)
    BY <1>0, <2>1 DEF Ends, Done, Error
  <2> QED
    BY <2>2, <2>3
<1> QED
  BY <1>1, <1>2, <1>3, <1>4, <1>5, <1>6, <1>7

LEMMA NextMarkerFound ==
  ASSUME NEW c, NEW in, NEW at \in 0 .. Len(in), Formed(in)
  PROVE  \/ NextMarker(c, in, at, Len(in)) = Suspend(c, Len(in))
         \/ \E k \in at + 1 .. Len(in) :
              /\ in[k].unit = "marker"
              /\ NextMarker(c, in, at, Len(in)) = Done([c EXCEPT !.unread = in[k].m], k)
<1> DEFINE markers == {k \in at + 1 .. Len(in) : in[k].unit = "marker"}
           next == CHOOSE k \in markers : \A j \in markers : k <= j
<1>1. markers \subseteq Nat
  BY DEF Formed
<1>2. markers # {} => next \in markers
  <2> HIDE DEF markers
  <2> QED
    BY <1>1, LeastOf
<1>3. NextMarker(c, in, at, Len(in)) =
        IF markers = {} THEN Suspend(c, Len(in)) ELSE Done([c EXCEPT !.unread = in[next].m], next)
  BY DEF NextMarker
<1>4. \A k \in markers : k \in at + 1 .. Len(in) /\ in[k].unit = "marker"
  OBVIOUS
<1> HIDE DEF markers, next
<1> QED
  BY <1>2, <1>3, <1>4

\* How the search for the next marker may end.
Found(c, in, at, f) ==
  /\ f.ret \in {"done", "suspended", "JERR_NO_SOI"}
  /\ f.ret \in {"done", "suspended"} =>
       Sound(f.c) /\ SameHeader(c, f.c) /\ Placed(f.c, in, f.at) /\ f.at \in at .. Len(in)
  /\ f.ret = "done" => f.at > at \/ c.unread # None

LEMMA UnreadSet ==
  ASSUME NEW c, Sound(c), NEW m
  PROVE  /\ Sound([c EXCEPT !.unread = m]) /\ SameHeader(c, [c EXCEPT !.unread = m])
         /\ [c EXCEPT !.unread = m].unread = m
  BY DEF Sound, SameHeader, Named

LEMMA MarkerFound ==
  ASSUME NEW c, NEW in, NEW at, Formed(in), Sound(c), Placed(c, in, at)
  PROVE  Found(c, in, at, FindMarker(c, in, at, Len(in)))
<1> DEFINE f == FindMarker(c, in, at, Len(in))
           have == Len(in)
<1>1. have \in Nat /\ at \in 0 .. have /\ SameHeader(c, c)
  BY DEF Formed, Placed, SameHeader
<1>2. ASSUME NEW k \in at + 1 .. have, in[k].unit = "marker"
      PROVE  Found(c, in, at, Done([c EXCEPT !.unread = in[k].m], k))
  <2> DEFINE e == [c EXCEPT !.unread = in[k].m]
  <2>1. Sound(e) /\ SameHeader(c, e) /\ e.unread = in[k].m
    BY UnreadSet
  <2> SUFFICES Found(c, in, at, Done(e, k))
    OBVIOUS
  <2> HIDE DEF e
  <2>2. k \in 0 .. have /\ k >= 1 /\ k > at /\ k \in at .. have
    BY <1>1
  <2>3. Placed(e, in, k)
    BY <1>2, <2>1, <2>2 DEF Placed
  <2> QED
    BY <2>1, <2>2, <2>3 DEF Found, Done
<1>3. CASE c.unread # None
  <2>1. f = Done(c, at)
    BY <1>3 DEF FindMarker
  <2> HIDE DEF f
  <2>2. Found(c, in, at, f)
    BY <1>1, <1>3, <2>1 DEF Found, Done
  <2> QED
    BY <2>2 DEF f
<1>4. CASE c.unread = None /\ c.soi
  <2>1. f = NextMarker(c, in, at, have)
    BY <1>4 DEF FindMarker
  <2>2. Found(c, in, at, Suspend(c, have))
    BY <1>1, <1>4 DEF Found, Suspend, Placed
  <2>3. \/ f = Suspend(c, have)
        \/ \E k \in at + 1 .. have : in[k].unit = "marker" /\ f = Done([c EXCEPT !.unread = in[k].m], k)
    BY <1>1, <2>1, NextMarkerFound
  <2> HIDE DEF f
  <2> QED
    BY <1>2, <2>2, <2>3 DEF f
<1>5. CASE c.unread = None /\ ~c.soi
  <2>1. f = FirstMarker(c, in, at, have)
    BY <1>5 DEF FindMarker
  <2>2. Found(c, in, at, Suspend(c, at)) /\ Found(c, in, at, Error(c, at, "JERR_NO_SOI"))
    BY <1>1, <1>5 DEF Found, Suspend, Error, Placed
  <2>3. \/ f \in {Suspend(c, at), Error(c, at, "JERR_NO_SOI")}
        \/ /\ at + 1 \in at + 1 .. have /\ in[at + 1].unit = "marker"
           /\ f = Done([c EXCEPT !.unread = in[at + 1].m], at + 1)
    BY <1>1, <2>1 DEF FirstMarker
  <2> QED
    BY <1>2, <2>2, <2>3
<1> QED
  BY <1>3, <1>4, <1>5

\* What a round of read_markers leaves.  One that does not suspend has used up
\* the marker it found.
Going == {"done", "suspended", "SOS", "EOI"}
MarkerDone(c, in, at, r) ==
  /\ r.ret \notin {"row", "scan", "ok"}
  /\ r.ret \in Going =>
       Sound(r.c) /\ Placed(r.c, in, r.at) /\ r.at >= at /\ (c.sof => SameHeader(c, r.c))
  /\ r.ret \in {"done", "SOS", "EOI"} => r.c.unread = None /\ (r.at > at \/ c.unread # None)
  /\ r.ret = "SOS" => r.c.sof

LEMMA MarkerIsRead ==
  ASSUME NEW c, NEW in, NEW at, Formed(in), Sound(c), Placed(c, in, at)
  PROVE  MarkerDone(c, in, at, ReadMarker(c, in, at, Len(in)))
<1> DEFINE f == FindMarker(c, in, at, Len(in))
           p == Process(f.c, in, f.at, Len(in))
           r == ReadMarker(c, in, at, Len(in))
<1>1. Found(c, in, at, f) /\ Len(in) \in Nat /\ at \in 0 .. Len(in)
  BY MarkerFound DEF Formed, Placed
<1>2. r = IF f.ret # "done" THEN f ELSE AfterMarker(p, f.c.unread)
  BY DEF ReadMarker, AtMarker
<1> SUFFICES MarkerDone(c, in, at, r)
  OBVIOUS
<1> HIDE DEF f, r
<1>3. CASE f.ret # "done"
  BY <1>1, <1>2, <1>3 DEF Found, MarkerDone, Going
<1>4. CASE f.ret = "done"
  <2>1. /\ Sound(f.c) /\ SameHeader(c, f.c) /\ Placed(f.c, in, f.at) /\ f.at \in at .. Len(in)
        /\ f.at > at \/ c.unread # None
    BY <1>1, <1>4 DEF Found
  <2>2. Ends(f.c, in, f.at, p) /\ (f.c.unread = "SOS" /\ p.ret = "done" => p.c.sof)
    BY <2>1, ProcessEnds
  <2> HIDE DEF p
  <2>3. CASE p.ret # "done"
    <3>1. r = p
      BY <1>2, <1>4, <2>3 DEF AfterMarker
    <3>2. p.ret = "suspended" => Placed(p.c, in, p.at)
      BY <2>1, <2>2 DEF Ends, Placed
    <3> QED
      BY <1>1, <2>1, <2>2, <2>3, <3>1, <3>2 DEF Ends, MarkerDone, Going, SameHeader
  <2>4. CASE p.ret = "done"
    <3> DEFINE e == [p.c EXCEPT !.unread = None]
    <3>1. Sound(p.c) /\ p.at \in f.at .. Len(in) /\ (f.c.sof => SameHeader(f.c, p.c))
      BY <2>2, <2>4 DEF Ends
    <3>2. Sound(e) /\ SameHeader(p.c, e) /\ e.unread = None
      BY <3>1, UnreadSet
    <3>3. /\ r.c = e /\ r.at = p.at
          /\ r.ret \in {"done", "SOS", "EOI"}
          /\ r.ret = "SOS" => f.c.unread = "SOS"
      BY <1>2, <1>4, <2>2, <2>4 DEF AfterMarker, Ends
    <3> HIDE DEF e
    <3>4. Placed(e, in, p.at) /\ p.at >= at
      BY <1>1, <2>1, <3>1, <3>2 DEF Placed
    <3>5. c.sof => SameHeader(c, e)
      BY <2>1, <3>1, <3>2 DEF SameHeader
    <3>6. p.at > at \/ c.unread # None
      BY <1>1, <2>1, <3>1
    <3>7. r.ret = "SOS" => e.sof
      BY <2>2, <2>4, <3>2, <3>3 DEF SameHeader
    <3> QED
      BY <3>2, <3>3, <3>4, <3>5, <3>6, <3>7 DEF MarkerDone
  <2> QED
    BY <2>3, <2>4
<1> QED
  BY <1>3, <1>4

-----------------------------------------------------------------------------
(***************************************************************************)
(* Restart markers, and the data of an iMCU row.                           *)
(***************************************************************************)
\* What is left of the source, and of a marker that has been found in it.
Weight(c, in, at) == 2 * (Len(in) - at) + IF c.unread = None THEN 0 ELSE 1

LEMMA MinMax ==
  ASSUME NEW n \in Nat, NEW S, S \subseteq 0 .. n, S # {}
  PROVE  Min(S) \in S /\ Max(S) \in S
<1>1. \E m \in S : \A k \in S : m <= k
  <2>1. S \subseteq Nat
    OBVIOUS
  <2> QED
    BY <2>1, LeastOf
<1>2. \E m \in S : \A k \in S : m >= k
  <2> DEFINE T == {n - k : k \in S}
  <2>1. T \subseteq Nat /\ T # {}
    <3>1. \A k \in S : n - k \in Nat
      OBVIOUS
    <3> QED
      BY <3>1
  <2>2. PICK t \in T : \A u \in T : t <= u
    <3> HIDE DEF T
    <3> QED
      BY <2>1, LeastOf
  <2>3. PICK m \in S : t = n - m
    OBVIOUS
  <2>4. ASSUME NEW k \in S PROVE m >= k
    <3>1. t <= n - k
      BY <2>2
    <3> QED
      BY <2>3, <3>1
  <2> QED
    BY <2>4
<1> QED
  BY <1>1, <1>2 DEF Min, Max

\* What reading of data does to the source and the header.
DataTaken(c, in, at, r) ==
  /\ {"c", "at", "ret"} \subseteq DOMAIN r
  /\ r.ret \in {"done", "suspended"}
  /\ Sound(r.c) /\ SameHeader(c, r.c) /\ Placed(r.c, in, r.at) /\ r.at \in at .. Len(in)
  /\ r.ret = "done" => Weight(r.c, in, r.at) <= Weight(c, in, at)

LEMMA Resynced ==
  ASSUME NEW found, NEW in, Formed(in), Sound(found.c), Placed(found.c, in, found.at)
  PROVE  DataTaken(found.c, in, found.at, Resync(found, in, Len(in)))
<1> DEFINE have == Len(in)
           at == found.at
           c == found.c
           AtHand(k) == IF k = found.at THEN found.c ELSE [found.c EXCEPT !.unread = in[k].m]
           Action(k) == Recovery(AtHand(k).unread, found.c.next_restart)
           markers == {found.at} \cup {k \in found.at + 1 .. have : in[k].unit = "marker"}
           ends == {k \in markers : Action(k) # "skip"}
           end == Min(ends)
           r == Resync(found, in, have)
<1>1. r = IF ends = {} THEN Suspend(AtHand(Max(markers)), have)
          ELSE IF Action(end) = "take" THEN Done([AtHand(end) EXCEPT !.unread = None], end)
          ELSE Done(AtHand(end), end)
  BY DEF Resync
<1>2. have \in Nat /\ at \in 0 .. have
  BY DEF Formed, Placed
<1>3. markers \subseteq 0 .. have /\ markers # {} /\ ends \subseteq markers
  BY <1>2
<1>4. ASSUME NEW k \in markers
      PROVE  /\ k \in at .. have
             /\ Sound(AtHand(k)) /\ SameHeader(c, AtHand(k)) /\ Placed(AtHand(k), in, k)
             /\ Weight(AtHand(k), in, k) <= Weight(c, in, at)
  <2>1. CASE k = at
    <3>1. AtHand(k) = c
      BY <2>1
    <3> HIDE DEF AtHand
    <3> QED
      BY <1>2, <2>1, <3>1 DEF SameHeader, Weight
  <2>2. CASE k # at
    <3> DEFINE e == [found.c EXCEPT !.unread = in[k].m]
    <3>1. AtHand(k) = e
      BY <2>2
    <3>2. k \in at + 1 .. have /\ in[k].unit = "marker"
      BY <2>2
    <3>3. Sound(e) /\ SameHeader(c, e) /\ e.unread = in[k].m
      BY UnreadSet
    <3> HIDE DEF e, AtHand, markers
    <3>4. Placed(e, in, k)
      BY <1>2, <3>2, <3>3 DEF Placed
    <3>5. Weight(e, in, k) <= Weight(c, in, at)
      BY <1>2, <3>2 DEF Weight
    <3> QED
      BY <1>2, <3>1, <3>2, <3>3, <3>4, <3>5
  <2> QED
    BY <2>1, <2>2
<1>5. Max(markers) \in markers /\ (ends # {} => end \in ends)
  <2> HIDE DEF markers, ends
  <2>1. ends \subseteq 0 .. have
    BY <1>3
  <2> QED
    BY <1>2, <1>3, <2>1, MinMax
<1> SUFFICES DataTaken(c, in, at, r)
  OBVIOUS
<1>6. CASE ends = {}
  <2> DEFINE k == Max(markers)
             e == AtHand(k)
  <2>1. Action(k) = "skip"
    <3> HIDE DEF Action, k
    <3> QED
      BY <1>5, <1>6 DEF k
  <2>2. Sound(e) /\ SameHeader(c, e)
    <3> HIDE DEF AtHand, markers
    <3> QED
      BY <1>4, <1>5
  <2>3. r = Suspend(e, have)
    BY <1>1, <1>6
  <2> HIDE DEF e, r
  <2>4. e.unread \in Parameterless
    <3>1. Recovery(e.unread, c.next_restart) = "skip"
      BY <2>1 DEF e
    <3> QED
      BY <3>1 DEF Recovery, Parameterless
  <2> QED
    BY <1>2, <2>2, <2>3, <2>4 DEF DataTaken, Suspend, Placed
<1>7. CASE ends # {}
  <2> DEFINE h == AtHand(end)
             e == [h EXCEPT !.unread = None]
  <2>1. /\ end \in at .. have
        /\ Sound(h) /\ SameHeader(c, h) /\ Placed(h, in, end)
        /\ Weight(h, in, end) <= Weight(c, in, at)
    <3> HIDE DEF AtHand, markers, end
    <3> QED
      BY <1>3, <1>4, <1>5, <1>7
  <2>2. r = Done(e, end) \/ r = Done(h, end)
    BY <1>1, <1>7
  <2> HIDE DEF h, r, end
  <2>3. /\ Sound(e) /\ SameHeader(c, e) /\ Placed(e, in, end)
        /\ Weight(e, in, end) <= Weight(c, in, at)
    <3>1. Sound(e) /\ SameHeader(h, e) /\ e.unread = None
      BY <2>1, UnreadSet
    <3> HIDE DEF e
    <3>2. Placed(e, in, end) /\ SameHeader(c, e)
      BY <2>1, <3>1 DEF Placed, SameHeader
    <3>3. Weight(e, in, end) <= Weight(h, in, end)
      BY <1>2, <2>1, <3>1 DEF Weight
    <3>4. /\ Weight(e, in, end) \in Int /\ Weight(h, in, end) \in Int
          /\ Weight(c, in, at) \in Int
      BY <1>2, <2>1 DEF Weight
    <3> QED
      BY <2>1, <3>1, <3>2, <3>3, <3>4
  <2> HIDE DEF e
  <2> QED
    BY <2>1, <2>2, <2>3 DEF DataTaken, Done
<1> QED
  BY <1>6, <1>7

LEMMA RestartRead ==
  ASSUME NEW c, NEW in, NEW at, Formed(in), Sound(c), Placed(c, in, at)
  PROVE  DataTaken(c, in, at, ReadRestart(c, in, at, Len(in)))
<1> DEFINE have == Len(in)
           f == IF c.unread # None THEN Done(c, at) ELSE NextMarker(c, in, at, have)
           r == AtRestart(f, in, have)
<1>1. ReadRestart(c, in, at, have) = r
  BY DEF ReadRestart
<1>2. have \in Nat /\ at \in 0 .. have
  BY DEF Formed, Placed
<1>3. DataTaken(c, in, at, f)
  <2>1. CASE c.unread # None
    <3>1. f = Done(c, at)
      BY <2>1
    <3> HIDE DEF f
    <3> QED
      BY <1>2, <3>1 DEF DataTaken, Done, SameHeader, Weight
  <2>2. CASE c.unread = None /\ f = Suspend(c, have)
    <3> HIDE DEF f
    <3> QED
      BY <1>2, <2>2 DEF DataTaken, Suspend, SameHeader, Placed
  <2>3. ASSUME NEW k \in at + 1 .. have, in[k].unit = "marker", c.unread = None,
               f = Done([c EXCEPT !.unread = in[k].m], k)
        PROVE  DataTaken(c, in, at, f)
    <3> DEFINE e == [c EXCEPT !.unread = in[k].m]
    <3>1. Sound(e) /\ SameHeader(c, e) /\ e.unread = in[k].m /\ f = Done(e, k)
      BY <2>3, UnreadSet
    <3> HIDE DEF e, f
    <3>2. k \in 0 .. have /\ k >= 1 /\ k \in at .. have /\ k > at
      BY <1>2
    <3>3. Placed(e, in, k)
      BY <2>3, <3>1, <3>2 DEF Placed
    <3>4. Weight(e, in, k) <= Weight(c, in, at)
      BY <1>2, <3>2 DEF Weight
    <3> QED
      BY <3>1, <3>2, <3>3, <3>4 DEF DataTaken, Done
  <2>4. c.unread = None =>
          \/ f = Suspend(c, have)
          \/ \E k \in at + 1 .. have : in[k].unit = "marker" /\ f = Done([c EXCEPT !.unread = in[k].m], k)
    BY <1>2, NextMarkerFound
  <2> HIDE DEF f
  <2> QED
    BY <2>1, <2>2, <2>3, <2>4
<1> HIDE DEF f
<1>4. ASSUME NEW q, DataTaken(c, in, at, q)
      PROVE  DataTaken(c, in, at, AfterRestart(q))
  <2>1. CASE q.ret # "done"
    BY <1>4, <2>1 DEF AfterRestart
  <2>2. CASE q.ret = "done"
    <3> DEFINE e == [q.c EXCEPT !.next_restart = (@ + 1) % 8]
               s == [q EXCEPT !.c = e]
    <3>1. AfterRestart(q) = s
      BY <2>2 DEF AfterRestart
    <3>2. Sound(e) /\ SameHeader(q.c, e) /\ e.unread = q.c.unread
      BY <1>4 DEF DataTaken, Sound, SameHeader, Named
    <3>3. {"c", "at", "ret"} \subseteq DOMAIN s /\ s.c = e /\ s.at = q.at /\ s.ret = q.ret
      BY <1>4 DEF DataTaken
    <3> HIDE DEF e, s
    <3>4. DataTaken(c, in, at, s)
      BY <1>4, <3>2, <3>3 DEF DataTaken, SameHeader, Placed, Weight
    <3> QED
      BY <3>1, <3>4
  <2> QED
    BY <2>1, <2>2
<1>5. f.ret = "done" => DataTaken(c, in, at, [f EXCEPT !.c.unread = None])
  <2> DEFINE e == [f.c EXCEPT !.unread = None]
             s == [f EXCEPT !.c = e]
  <2> SUFFICES ASSUME f.ret = "done" PROVE DataTaken(c, in, at, s)
    OBVIOUS
  <2>1. Sound(e) /\ SameHeader(f.c, e) /\ e.unread = None
    BY <1>3, UnreadSet DEF DataTaken
  <2>2. {"c", "at", "ret"} \subseteq DOMAIN s /\ s.c = e /\ s.at = f.at /\ s.ret = f.ret
    BY <1>3 DEF DataTaken
  <2> HIDE DEF e, s
  <2>3. Weight(e, in, f.at) <= Weight(c, in, at)
    BY <1>2, <1>3, <2>1 DEF DataTaken, Weight
  <2> QED
    BY <1>3, <2>1, <2>2, <2>3 DEF DataTaken, SameHeader, Placed
<1>6. f.ret = "done" => DataTaken(c, in, at, Resync(f, in, have))
  <2> SUFFICES ASSUME f.ret = "done" PROVE DataTaken(c, in, at, Resync(f, in, have))
    OBVIOUS
  <2> DEFINE q == Resync(f, in, have)
  <2>1. DataTaken(f.c, in, f.at, q)
    BY <1>3, Resynced DEF DataTaken
  <2> HIDE DEF q
  <2>2. q.ret = "done" => Weight(q.c, in, q.at) <= Weight(c, in, at)
    BY <1>2, <1>3, <2>1 DEF DataTaken, Weight
  <2>3. q.at \in at .. have
    BY <1>2, <1>3, <2>1 DEF DataTaken
  <2> QED
    BY <1>3, <2>1, <2>2, <2>3 DEF DataTaken, SameHeader, q
<1> QED
  BY <1>1, <1>3, <1>4, <1>5, <1>6 DEF AtRestart

-----------------------------------------------------------------------------
(***************************************************************************)
(* The input side of a decompressor.                                       *)
(***************************************************************************)
\* The frame's header and its components have been accepted.
Setup(c) ==
  /\ Sound(c) /\ c.sof
  /\ c.block \in Nat \ {0}
  /\ \A i \in 1 .. c.n : c.comp_info[i].v \in 1 .. MAX_SAMP_FACTOR

LEMMA Quotient ==
  ASSUME NEW a \in Nat \ {0}, NEW b \in Nat \ {0}
  PROVE  DivRoundUp(a, b) \in Nat \ {0}
<1>1. a + b - 1 \in Nat /\ a + b - 1 >= b
  OBVIOUS
<1>2. (a + b - 1) \div b \in Nat /\ (a + b - 1) \div b >= 1
  BY <1>1
<1> QED
  BY <1>2 DEF DivRoundUp

LEMMA RowsCounted ==
  ASSUME NEW c, Setup(c)
  PROVE  TotalRows(c) \in Nat \ {0}
<1> DEFINE S == {1} \cup {comp.v : comp \in Components(c)}
<1>1. S \subseteq 0 .. 4 /\ S \subseteq 1 .. 4 /\ S # {}
  BY DEF Setup, Components, MAX_SAMP_FACTOR
<1>2. Max(S) \in 1 .. 4
  <2> HIDE DEF S
  <2>1. Max(S) \in S
    BY <1>1, MinMax
  <2> QED
    BY <1>1, <2>1
<1>3. MaxV(c) = Max(S)
  BY DEF MaxV
<1> HIDE DEF S
<1>4. MaxV(c) * c.block \in Nat \ {0}
  BY <1>2, <1>3 DEF Setup
<1> QED
  BY <1>4, Quotient DEF TotalRows, Setup, Sound

LEMMA HeaderKept ==
  ASSUME NEW c, NEW e, SameHeader(c, e)
  PROVE  /\ TotalRows(e) = TotalRows(c)
         /\ Setup(c) => Setup(e)
  BY DEF SameHeader, TotalRows, MaxV, Components, Setup, Sound

Fields == {"c", "at", "ret", "state", "inheaders", "multi", "eoi", "consume", "input_row",
           "latched", "togo", "scanline", "out", "pool"}

Core(d, in) ==
  /\ Fields \subseteq DOMAIN d
  /\ Sound(d.c) /\ Placed(d.c, in, d.at)
  /\ d.inheaders \in 0 .. 2
  /\ d.inheaders # 1 => Setup(d.c)
  /\ d.consume \in {"markers", "data"}
  /\ d.consume = "data" =>
       d.inheaders = 0 /\ d.input_row \in Nat /\ d.input_row < TotalRows(d.c)

\* What a call does not touch.
Apart(d, e) ==
  /\ DOMAIN e = DOMAIN d
  /\ e.state = d.state /\ e.scanline = d.scanline

\* The progress of the input.
Rest(d, in) == Weight(d.c, in, d.at)
RowsLeft(d) == IF d.consume = "data" THEN TotalRows(d.c) - d.input_row ELSE 0
Progress(d, e, in) ==
  \/ Rest(e, in) < Rest(d, in)
  \/ Rest(e, in) = Rest(d, in) /\ RowsLeft(e) < RowsLeft(d)

LEMMA RestIsNumber ==
  ASSUME NEW d, NEW in, d.at \in Int, Len(in) \in Nat
  PROVE  Rest(d, in) \in Int
<1>1. 2 * (Len(in) - d.at) + 0 \in Int /\ 2 * (Len(in) - d.at) + 1 \in Int
  OBVIOUS
<1> QED
  BY <1>1 DEF Rest, Weight

LEMMA Allocated ==
  ASSUME NEW d, NEW in, Core(d, in), NEW p, NEW names
  PROVE  /\ Core(Alloc(d, p, names), in) /\ Apart(d, Alloc(d, p, names))
         /\ \A f \in DOMAIN d \ {"pool"} : Alloc(d, p, names)[f] = d[f]
<1> DEFINE e == Alloc(d, p, names)
<1>1. DOMAIN e = DOMAIN d /\ \A f \in DOMAIN d \ {"pool"} : e[f] = d[f]
  BY DEF Alloc
<1>2. Fields \subseteq DOMAIN d
  BY DEF Core
<1>3. /\ e.c = d.c /\ e.at = d.at /\ e.inheaders = d.inheaders /\ e.consume = d.consume
      /\ e.input_row = d.input_row /\ e.state = d.state /\ e.multi = d.multi
      /\ e.scanline = d.scanline
  BY <1>1, <1>2 DEF Fields
<1> HIDE DEF e
<1>4. Core(e, in) /\ Apart(d, e)
  BY <1>1, <1>3 DEF Core, Apart
<1> QED
  BY <1>1, <1>4 DEF e

\* A row of data taken, or none: an arithmetic decoder may not wait for it.
RowTaken(d, in, e) ==
  /\ Apart(d, e)
  /\ e.ret \in {"done", "suspended", "JERR_CANT_SUSPEND"}
  /\ Sound(e.c) /\ SameHeader(d.c, e.c) /\ Placed(e.c, in, e.at) /\ e.at \in d.at .. Len(in)
  /\ e.inheaders = d.inheaders /\ e.consume = d.consume /\ e.input_row = d.input_row
  /\ e.eoi = d.eoi
  /\ e.ret = "done" => Rest(e, in) <= Rest(d, in)

\* None, at the end of the data.
LEMMA DryTaken ==
  ASSUME NEW d, NEW in, Core(d, in), Formed(in)
  PROVE  RowTaken(d, in, RunDry(d)) /\ RunDry(d).ret # "done"
<1> DEFINE e == RunDry(d)
<1>1. \E ret \in {"suspended", "JERR_CANT_SUSPEND"} : e = [d EXCEPT !.ret = ret]
  BY DEF RunDry, Fail
<1>2. Fields \subseteq DOMAIN d /\ Sound(d.c) /\ Placed(d.c, in, d.at) /\ Len(in) \in Nat
  BY DEF Core, Formed
<1> HIDE DEF e
<1>3. /\ DOMAIN e = DOMAIN d /\ e.c = d.c /\ e.at = d.at
      /\ e.ret \in {"suspended", "JERR_CANT_SUSPEND"}
      /\ e.state = d.state /\ e.eoi = d.eoi /\ e.scanline = d.scanline
      /\ e.inheaders = d.inheaders /\ e.consume = d.consume /\ e.input_row = d.input_row
  BY <1>1, <1>2 DEF Fields
<1>4. RowTaken(d, in, e) /\ e.ret # "done"
  BY <1>2, <1>3 DEF RowTaken, Apart, SameHeader, Placed
<1> QED
  BY <1>4 DEF e

LEMMA DataRowTaken ==
  ASSUME NEW d, NEW in, Core(d, in), Formed(in)
  PROVE  /\ RowTaken(d, in, DataRow(d, in, Len(in)))
         /\ d.c.unread = None /\ DataRow(d, in, Len(in)).ret = "done" =>
              Rest(DataRow(d, in, Len(in)), in) < Rest(d, in)
<1> DEFINE have == Len(in)
           m == IF in[d.at + 1].unit = "marker" THEN in[d.at + 1].m ELSE None
           c == [d.c EXCEPT !.unread = m]
           e == DataRow(d, in, have)
<1>1. have \in Nat /\ d.at \in 0 .. have /\ Fields \subseteq DOMAIN d /\ Sound(d.c)
  BY DEF Formed, Core, Placed
<1> SUFFICES RowTaken(d, in, e) /\ (d.c.unread = None /\ e.ret = "done" => Rest(e, in) < Rest(d, in))
  OBVIOUS
<1>2. CASE d.c.unread # None
  <2>1. e = [d EXCEPT !.ret = "done"]
    BY <1>2 DEF DataRow
  <2> HIDE DEF e
  <2> QED
    BY <1>1, <1>2, <2>1 DEF RowTaken, Apart, Core, SameHeader, Rest, Weight, Placed, Fields
<1>3. CASE d.c.unread = None /\ d.at = have
  <2>1. e = RunDry(d)
    BY <1>3 DEF DataRow
  <2> HIDE DEF e
  <2> QED
    BY <2>1, DryTaken
<1>4. CASE d.c.unread = None /\ d.at # have
  <2>1. e = [d EXCEPT !.ret = "done", !.at = @ + 1, !.c = c]
    BY <1>4 DEF DataRow
  <2>2. Sound(c) /\ SameHeader(d.c, c) /\ c.unread = m
    <3> HIDE DEF m
    <3> QED
      BY <1>1, UnreadSet
  <2> HIDE DEF c, e
  <2>3. /\ DOMAIN e = DOMAIN d /\ e.ret = "done" /\ e.at = d.at + 1 /\ e.c = c
        /\ e.state = d.state /\ e.multi = d.multi /\ e.eoi = d.eoi /\ e.scanline = d.scanline
        /\ e.inheaders = d.inheaders /\ e.consume = d.consume /\ e.input_row = d.input_row
    BY <1>1, <2>1 DEF Fields
  <2>4. Placed(c, in, d.at + 1)
    BY <1>1, <1>4, <2>2 DEF Placed
  <2>5. Rest(e, in) < Rest(d, in)
    BY <1>1, <1>4, <2>3 DEF Rest, Weight
  <2>6. Rest(e, in) \in Int /\ Rest(d, in) \in Int /\ e.at \in d.at .. have
    BY <1>1, <1>4, <2>3 DEF Rest, Weight
  <2> QED
    BY <2>2, <2>3, <2>4, <2>5, <2>6 DEF RowTaken, Apart
<1> QED
  BY <1>2, <1>3, <1>4

\* Taking over what a round of the marker reader has read, or a restart marker.
LEMMA Taken ==
  ASSUME NEW d, NEW in, Core(d, in), NEW r
  PROVE  LET e == TakeMarker(d, r)
         IN  /\ Apart(d, e) /\ e.c = r.c /\ e.at = r.at /\ e.ret = r.ret
             /\ e.inheaders = d.inheaders /\ e.consume = d.consume
             /\ e.input_row = d.input_row /\ e.eoi = d.eoi
<1> DEFINE t == [d EXCEPT !.c = r.c, !.at = r.at, !.ret = r.ret]
           e == TakeMarker(d, r)
<1>1. Fields \subseteq DOMAIN d
  BY DEF Core
<1>2. /\ DOMAIN t = DOMAIN d /\ t.c = r.c /\ t.at = r.at /\ t.ret = r.ret
      /\ t.state = d.state /\ t.multi = d.multi /\ t.scanline = d.scanline
      /\ t.inheaders = d.inheaders /\ t.consume = d.consume
      /\ t.input_row = d.input_row /\ t.eoi = d.eoi
  BY <1>1 DEF Fields
<1>3. e = MarkerAllocs(t)
  BY DEF TakeMarker
<1> HIDE DEF t
<1>4. DOMAIN e = DOMAIN t /\ \A f \in DOMAIN t \ {"pool"} : e[f] = t[f]
  BY <1>3 DEF MarkerAllocs, Alloc
<1> HIDE DEF e
<1>5. /\ e.c = t.c /\ e.at = t.at /\ e.ret = t.ret /\ e.state = t.state
      /\ e.multi = t.multi /\ e.scanline = t.scanline /\ e.inheaders = t.inheaders
      /\ e.consume = t.consume /\ e.input_row = t.input_row /\ e.eoi = t.eoi
  BY <1>1, <1>2, <1>4 DEF Fields
<1>6. Apart(d, e)
  BY <1>2, <1>4, <1>5 DEF Apart
<1> QED
  BY <1>2, <1>5, <1>6 DEF e

LEMMA RowIsTaken ==
  ASSUME NEW d, NEW in, Core(d, in), Formed(in)
  PROVE  /\ RowTaken(d, in, RowData(d, in, Len(in)))
         /\ d.c.unread = None /\ d.togo = d.c.restart /\ RowData(d, in, Len(in)).ret = "done" =>
              Rest(RowData(d, in, Len(in)), in) < Rest(d, in)
<1> DEFINE have == Len(in)
           restart == d.c.restart > 0 /\ d.togo = 0
           t == TakeMarker(d, ReadRestart(d.c, in, d.at, have))
           q == IF restart THEN Restarted(t, in, have) ELSE DataRow(d, in, have)
           e == RowData(d, in, have)
<1>1. e = RowCounted(q)
  BY DEF RowData
<1>2. Sound(d.c) /\ Placed(d.c, in, d.at) /\ Fields \subseteq DOMAIN d
      /\ have \in Nat /\ d.at \in 0 .. have
  BY DEF Core, Placed, Formed
<1>0. t.ret \in {"done", "suspended"}
  <2>1. DataTaken(d.c, in, d.at, ReadRestart(d.c, in, d.at, have))
    BY <1>2, RestartRead
  <2> QED
    BY <2>1, Taken DEF DataTaken
<1>3. RowTaken(d, in, t)
  <2>1. DataTaken(d.c, in, d.at, ReadRestart(d.c, in, d.at, have))
    BY <1>2, RestartRead
  <2> QED
    BY <2>1, Taken DEF DataTaken, RowTaken, Rest
<1> HIDE DEF t
<1>4. RowTaken(d, in, Restarted(t, in, have))
  <2>1. CASE t.ret = "suspended"
    <3>1. Core(t, in)
      BY <1>2, <1>3, HeaderKept DEF Core, RowTaken, Apart
    <3> DEFINE w == RunDry(t)
    <3>2. Restarted(t, in, have) = w
      BY <2>1 DEF Restarted
    <3>3. RowTaken(t, in, w) /\ w.ret # "done"
      BY <3>1, DryTaken
    <3> HIDE DEF w
    <3>4. RowTaken(d, in, w)
      <4>1. w.at \in d.at .. have
        BY <1>2, <1>3, <3>3 DEF RowTaken
      <4> QED
        BY <1>3, <3>3, <4>1 DEF RowTaken, Apart, SameHeader
    <3> QED
      BY <3>2, <3>4
  <2>2. CASE t.ret = "done"
    <3> DEFINE s1 == [t EXCEPT !.togo = t.c.restart]
    <3>1. Restarted(t, in, have) = DataRow(s1, in, have)
      BY <2>2 DEF Restarted
    <3>2. /\ DOMAIN s1 = DOMAIN t /\ s1.c = t.c /\ s1.at = t.at /\ s1.ret = t.ret
          /\ s1.state = t.state /\ s1.multi = t.multi /\ s1.scanline = t.scanline
          /\ s1.inheaders = t.inheaders /\ s1.consume = t.consume
          /\ s1.input_row = t.input_row /\ s1.eoi = t.eoi
      BY <1>2, <1>3 DEF RowTaken, Apart, Fields
    <3> HIDE DEF s1
    <3>3. Core(s1, in)
      BY <1>2, <1>3, <3>2, HeaderKept DEF Core, RowTaken, Apart
    <3>4. RowTaken(s1, in, DataRow(s1, in, have))
      BY <3>3, DataRowTaken
    <3> DEFINE w == DataRow(s1, in, have)
    <3> HIDE DEF w
    <3>5. Apart(d, w) /\ SameHeader(d.c, w.c)
      BY <1>3, <3>2, <3>4 DEF RowTaken, Apart, SameHeader, w
    <3>6. w.at \in d.at .. have
      BY <1>2, <1>3, <3>2, <3>4 DEF RowTaken, w
    <3>7. w.ret = "done" => Rest(w, in) <= Rest(d, in)
      <4>1. Rest(s1, in) = Rest(t, in) /\ Rest(t, in) <= Rest(d, in)
        BY <1>3, <2>2, <3>2 DEF RowTaken, Rest
      <4>2. w.ret = "done" => Rest(w, in) <= Rest(s1, in)
        BY <3>4 DEF RowTaken, w
      <4>3. Rest(w, in) \in Int /\ Rest(t, in) \in Int /\ Rest(d, in) \in Int
        <5>1. w.at \in Int /\ t.at \in Int /\ d.at \in Int
          BY <1>2, <1>3, <3>6 DEF RowTaken
        <5> QED
          BY <1>2, <5>1, RestIsNumber
      <4> QED
        BY <4>1, <4>2, <4>3
    <3>8. RowTaken(d, in, w)
      BY <1>3, <3>2, <3>4, <3>5, <3>6, <3>7 DEF RowTaken, w
    <3> QED
      BY <3>1, <3>8 DEF w
  <2> QED
    BY <1>0, <2>1, <2>2
<1>5. RowTaken(d, in, q)
  BY <1>4, DataRowTaken
<1>6. d.c.unread = None /\ d.togo = d.c.restart /\ q.ret = "done" => Rest(q, in) < Rest(d, in)
  <2>1. d.togo = d.c.restart => ~restart
    OBVIOUS
  <2> HIDE DEF restart
  <2> QED
    BY <2>1, DataRowTaken
<1> HIDE DEF q
<1>7. /\ DOMAIN e = DOMAIN q /\ e.c = q.c /\ e.at = q.at /\ e.ret = q.ret
      /\ e.state = q.state /\ e.multi = q.multi /\ e.scanline = q.scanline
      /\ e.inheaders = q.inheaders /\ e.consume = q.consume
      /\ e.input_row = q.input_row /\ e.eoi = q.eoi
  <2>1. \/ e = q
        \/ e = [q EXCEPT !.togo = @ - 1]
    BY <1>1 DEF RowCounted
  <2>2. Fields \subseteq DOMAIN q
    BY <1>2, <1>5 DEF RowTaken, Apart
  <2> HIDE DEF e
  <2> QED
    BY <2>1, <2>2 DEF Fields
<1> HIDE DEF e
<1>8. RowTaken(d, in, e) /\ Rest(e, in) = Rest(q, in)
  BY <1>5, <1>7 DEF RowTaken, Apart, Rest
<1> QED
  BY <1>6, <1>7, <1>8 DEF e

\* A row counted.  A round of consume_data, at the scan's last row or before it,
\* has brought the input on.
LEMMA RowCounts ==
  ASSUME NEW d, NEW in, Core(d, in), Formed(in), NEW q, RowTaken(d, in, q), q.ret = "done"
  PROVE  LET e == NextInputRow(q)
         IN  /\ Core(e, in) /\ Apart(d, e) /\ SameHeader(d.c, e.c)
             /\ e.ret \in {"row", "scan"} /\ e.inheaders = d.inheaders /\ e.eoi = d.eoi
             /\ e.c = q.c /\ e.at = q.at
             /\ d.consume = "data" => Progress(d, e, in)
<1> DEFINE e == NextInputRow(q)
<1>1. Fields \subseteq DOMAIN q /\ Fields \subseteq DOMAIN d /\ Len(in) \in Nat
      /\ TotalRows(q.c) = TotalRows(d.c)
  BY HeaderKept DEF RowTaken, Apart, Core, Formed
<1>2. /\ DOMAIN e = DOMAIN q /\ e.c = q.c /\ e.at = q.at
      /\ e.state = q.state /\ e.multi = q.multi /\ e.scanline = q.scanline
      /\ e.inheaders = q.inheaders /\ e.eoi = q.eoi
      /\ e.ret \in {"row", "scan"}
      /\ e.input_row = q.input_row + 1
      /\ \/ e.consume = "markers"
         \/ e.consume = q.consume /\ q.input_row + 1 < TotalRows(q.c)
  BY <1>1 DEF NextInputRow, Fields
<1> HIDE DEF e
<1>3. Core(e, in)
  BY <1>1, <1>2, HeaderKept DEF Core, RowTaken, Apart
<1>4. Apart(d, e) /\ SameHeader(d.c, e.c)
  BY <1>2 DEF RowTaken, Apart
<1>5. ASSUME d.consume = "data"
      PROVE  Progress(d, e, in)
  <2>1. /\ d.input_row \in Nat /\ d.input_row < TotalRows(d.c) /\ TotalRows(d.c) \in Nat
        /\ q.input_row = d.input_row /\ q.consume = "data"
    BY <1>5, RowsCounted DEF Core, RowTaken
  <2>2. RowsLeft(e) < RowsLeft(d)
    BY <1>1, <1>2, <1>5, <2>1 DEF RowsLeft
  <2>3. Rest(e, in) = Rest(q, in) /\ Rest(q, in) <= Rest(d, in)
    BY <1>2 DEF RowTaken, Rest
  <2>4. Rest(q, in) \in Int /\ Rest(d, in) \in Int
    <3>1. q.at \in Int /\ d.at \in Int
      BY <1>1 DEF RowTaken, Core, Placed
    <3>2. Len(in) \in Nat
      BY DEF Formed
    <3> QED
      BY <3>1, <3>2, RestIsNumber
  <2> QED
    BY <2>2, <2>3, <2>4 DEF Progress
<1> QED
  BY <1>2, <1>3, <1>4, <1>5 DEF RowTaken, e

LEMMA RowConsumed ==
  ASSUME NEW d, NEW in, Core(d, in), Formed(in), d.consume = "data"
  PROVE  LET e == ConsumeData(d, in, Len(in))
         IN  /\ Core(e, in) /\ Apart(d, e) /\ e.inheaders = 0
             /\ e.ret \in {"suspended", "JERR_CANT_SUSPEND", "row", "scan"}
             /\ e.ret \in {"row", "scan"} => Progress(d, e, in)
<1> DEFINE q == RowData(d, in, Len(in))
           e == ConsumeData(d, in, Len(in))
<1>1. RowTaken(d, in, q) /\ Fields \subseteq DOMAIN d /\ d.inheaders = 0
  BY RowIsTaken DEF Core
<1> HIDE DEF q
<1>2. \/ e = [d EXCEPT !.ret = "suspended"]
      \/ q.ret # "done" /\ e = q
      \/ q.ret = "done" /\ e = NextInputRow(q)
  BY <1>1 DEF ConsumeData, AfterRow, RowTaken, q
<1> SUFFICES /\ Core(e, in) /\ Apart(d, e) /\ e.inheaders = 0
             /\ e.ret \in {"suspended", "JERR_CANT_SUSPEND", "row", "scan"}
             /\ e.ret \in {"row", "scan"} => Progress(d, e, in)
  OBVIOUS
<1> HIDE DEF e
<1>3. CASE e = [d EXCEPT !.ret = "suspended"]
  <2>1. /\ DOMAIN e = DOMAIN d /\ e.c = d.c /\ e.at = d.at /\ e.ret = "suspended"
        /\ e.state = d.state /\ e.scanline = d.scanline /\ e.inheaders = d.inheaders
        /\ e.consume = d.consume /\ e.input_row = d.input_row
    BY <1>1, <1>3 DEF Fields
  <2>2. Core(e, in)
    BY <2>1 DEF Core
  <2> QED
    BY <1>1, <2>1, <2>2 DEF Apart
<1>4. CASE q.ret # "done" /\ e = q
  <2>1. Core(q, in)
    BY <1>1, HeaderKept DEF Core, RowTaken, Apart
  <2> QED
    BY <1>1, <1>4, <2>1 DEF RowTaken
<1>5. CASE q.ret = "done" /\ e = NextInputRow(q)
  BY <1>1, <1>5, RowCounts
<1> QED
  BY <1>2, <1>3, <1>4, <1>5

LEMMA Failing ==
  ASSUME NEW d, NEW code, "ret" \in DOMAIN d,
         code \notin {"done", "suspended", "SOS", "EOI", "row", "scan", "ok"}
  PROVE  Failed(Fail(d, code))
  BY DEF Failed, Fail

\* The start of a scan whose components are known.
LEMMA PassStarted ==
  ASSUME NEW d, NEW in, Core(d, in), d.inheaders = 0
  PROVE  LET e == StartInputPass(d)
         IN  \/ Failed(e)
             \/ /\ Core(e, in) /\ Apart(d, e) /\ e.c = d.c /\ e.at = d.at /\ e.ret = d.ret
                /\ e.inheaders = 0 /\ e.eoi = d.eoi /\ e.consume = "data" /\ e.togo = d.c.restart
                /\ e.multi = d.multi
<1> DEFINE t == [d EXCEPT !.latched = @ \cup {d.c.scan[i].ci : i \in DOMAIN d.c.scan},
                          !.input_row = 0, !.togo = d.c.restart, !.consume = "data"]
           e == StartInputPass(d)
<1>1. ScanError(d) \in {None, "JERR_BAD_MCU_SIZE", "JERR_NO_QUANT_TABLE",
                        "JERR_BAD_PROGRESSION", "JERR_NO_HUFF_TABLE"}
  BY DEF ScanError
<1>2. Fields \subseteq DOMAIN d
  BY DEF Core
<1>3. CASE ScanError(d) # None
  <2>1. e = Fail(d, ScanError(d))
    BY <1>3 DEF StartInputPass
  <2>2. Failed(e)
    BY <1>1, <1>2, <1>3, <2>1, Failing DEF Fields
  <2> QED
    BY <2>2
<1>4. CASE ScanError(d) = None
  <2>1. e = Alloc(t, "image", {"quant copies", "derived tables"})
    BY <1>4 DEF StartInputPass
  <2>2. /\ DOMAIN t = DOMAIN d /\ t.c = d.c /\ t.at = d.at /\ t.ret = d.ret
        /\ t.state = d.state /\ t.scanline = d.scanline /\ t.inheaders = d.inheaders
        /\ t.eoi = d.eoi /\ t.multi = d.multi
        /\ t.consume = "data" /\ t.input_row = 0 /\ t.togo = d.c.restart
    BY <1>2 DEF Fields
  <2> HIDE DEF t
  <2>3. TotalRows(d.c) \in Nat \ {0}
    BY RowsCounted DEF Core
  <2>4. Core(t, in) /\ Apart(d, t)
    BY <2>2, <2>3 DEF Core, Apart
  <2> HIDE DEF e
  <2>5. /\ Core(e, in) /\ Apart(t, e) /\ \A f \in DOMAIN t \ {"pool"} : e[f] = t[f]
    <3> DEFINE names == {"quant copies", "derived tables"}
    <3>1. e = Alloc(t, "image", names)
      BY <2>1
    <3> HIDE DEF names
    <3>2. /\ Core(Alloc(t, "image", names), in) /\ Apart(t, Alloc(t, "image", names))
          /\ \A f \in DOMAIN t \ {"pool"} : Alloc(t, "image", names)[f] = t[f]
      BY <2>4, Allocated
    <3> QED
      BY <3>1, <3>2
  <2>6. /\ e.c = t.c /\ e.at = t.at /\ e.ret = t.ret /\ e.inheaders = t.inheaders
        /\ e.eoi = t.eoi /\ e.consume = t.consume /\ e.togo = t.togo /\ e.multi = t.multi
    BY <1>2, <2>2, <2>5 DEF Fields
  <2>7. Apart(d, e)
    BY <2>4, <2>5 DEF Apart
  <2> QED
    BY <2>2, <2>5, <2>6, <2>7 DEF e
<1> QED
  BY <1>3, <1>4

\* The smallest of the block sizes a scan may settle; there is only one.
LEMMA SmallestSize ==
  ASSUME NEW S, S # {}, S \subseteq Nat \ {0}, S = {DCTSIZE} \/ S \subseteq 1 .. MAX_BLOCK_SIZE
  PROVE  Min(S) \in Nat \ {0}
<1>1. \E n \in Nat : S \subseteq 0 .. n
  BY DctsizeAssumption DEF MAX_BLOCK_SIZE
<1>2. Min(S) \in S
  BY <1>1, MinMax
<1> QED
  BY <1>2

\* What initial_setup accepts.
LEMMA SetupAccepted ==
  ASSUME NEW c, Sound(c), c.sof, SetupError(c) = None
  PROVE  /\ Setup([c EXCEPT !.block = Min(SizesOf(c))])
         /\ Sound([c EXCEPT !.block = Min(SizesOf(c))])
         /\ [c EXCEPT !.block = Min(SizesOf(c))].unread = c.unread
<1> DEFINE S == SizesOf(c)
           e == [c EXCEPT !.block = Min(S)]
<1>1. ~ \E comp \in Components(c) : comp.h \notin 1 .. MAX_SAMP_FACTOR \/
                                    comp.v \notin 1 .. MAX_SAMP_FACTOR
  BY DEF SetupError, None
<1>2. S # {}
  BY DEF SetupError, None
<1>3. S \subseteq Nat \ {0} /\ (S = {DCTSIZE} \/ S \subseteq 1 .. MAX_BLOCK_SIZE)
  BY DctsizeAssumption DEF SizesOf, MAX_BLOCK_SIZE
<1> HIDE DEF S
<1>4. Min(S) \in Nat \ {0}
  BY <1>2, <1>3, SmallestSize
<1>5. /\ DOMAIN e = DOMAIN c /\ e.block = Min(S) /\ e.sof = c.sof /\ e.unread = c.unread
      /\ e.width = c.width /\ e.height = c.height /\ e.n = c.n /\ e.comp_info = c.comp_info
  BY DEF Sound, Named
<1> HIDE DEF e
<1>6. Sound(e)
  BY <1>5 DEF Sound
<1>7. \A i \in 1 .. c.n : c.comp_info[i].v \in 1 .. MAX_SAMP_FACTOR
  BY <1>1 DEF Components
<1> QED
  BY <1>4, <1>5, <1>6, <1>7 DEF Setup, e, S

\* The start of a scan, read as a marker.
LEMMA ScanStarted ==
  ASSUME NEW d, NEW in, Core(d, in), d.ret = "SOS", d.c.sof
  PROVE  LET e == AtScan(d)
         IN  \/ Failed(e)
             \/ /\ Core(e, in) /\ Apart(d, e) /\ e.at = d.at
                /\ e.c.sof /\ e.c.unread = d.c.unread
                /\ e.ret \in {"SOS", "done"}
                /\ d.inheaders = 0 => e.inheaders = 0
                /\ d.inheaders > 0 => e.consume = d.consume
                /\ d.inheaders > 0 /\ e.ret = "done" => e.inheaders > 0
                /\ e.ret = "SOS" => e.inheaders = 0
<1> DEFINE e == AtScan(d)
           i == IF d.inheaders = 1 THEN InitialSetup(d) ELSE d
<1>1. Fields \subseteq DOMAIN d /\ d.inheaders \in 0 .. 2 /\ Sound(d.c)
  BY DEF Core
<1>2. CASE d.inheaders > 0
  <2>1. e = FirstScan(i)
    BY <1>2 DEF AtScan
  <2>2. \/ Failed(i)
        \/ /\ Fields \subseteq DOMAIN i /\ Apart(d, i) /\ i.at = d.at
           /\ i.ret = "SOS" /\ i.consume = d.consume /\ i.input_row = d.input_row
           /\ i.inheaders = d.inheaders
           /\ Setup(i.c) /\ Sound(i.c) /\ i.c.unread = d.c.unread
    <3>1. CASE d.inheaders = 1 /\ SetupError(d.c) # None
      <4>1. SetupError(d.c) \in {"JERR_IMAGE_TOO_BIG", "JERR_BAD_PRECISION", "JERR_COMPONENT_COUNT",
                                 "JERR_BAD_SAMPLING", "JERR_BAD_PROGRESSION"}
        BY <3>1 DEF SetupError
      <4>2. i = Fail(d, SetupError(d.c))
        BY <3>1 DEF InitialSetup
      <4>3. Failed(i)
        BY <1>1, <4>1, <4>2, Failing DEF Fields
      <4> QED
        BY <4>3
    <3>2. CASE d.inheaders = 1 /\ SetupError(d.c) = None
      <4> DEFINE c == [d.c EXCEPT !.block = Min(SizesOf(d.c))]
                 multi == Len(d.c.scan) < d.c.n \/ Progressive(d.c)
      <4>1. i = [d EXCEPT !.c = c, !.multi = multi]
        BY <3>2 DEF InitialSetup
      <4>2. Setup(c) /\ Sound(c) /\ c.unread = d.c.unread
        BY <1>1, <3>2, SetupAccepted
      <4> HIDE DEF i, c, multi
      <4> QED
        BY <1>1, <4>1, <4>2 DEF Fields, Apart
    <3>3. CASE d.inheaders # 1
      <4>1. i = d /\ Setup(d.c)
        BY <3>3 DEF Core
      <4> HIDE DEF i
      <4> QED
        BY <1>1, <4>1 DEF Apart
    <3> QED
      BY <3>1, <3>2, <3>3
  <2> HIDE DEF i
  <2>3. CASE Failed(i)
    BY <2>1, <2>3 DEF FirstScan
  <2>4. CASE ~ Failed(i)
    <3> DEFINE a == [i EXCEPT !.inheaders = 2, !.ret = "done"]
               b == [i EXCEPT !.inheaders = 0]
    <3>1. e = a \/ e = b
      BY <2>1, <2>4 DEF FirstScan
    <3>2. /\ DOMAIN a = DOMAIN i /\ a.c = i.c /\ a.at = i.at /\ a.ret = "done"
          /\ a.state = i.state /\ a.scanline = i.scanline /\ a.inheaders = 2
          /\ a.consume = i.consume /\ a.input_row = i.input_row
      BY <2>2, <2>4 DEF Fields
    <3>3. /\ DOMAIN b = DOMAIN i /\ b.c = i.c /\ b.at = i.at /\ b.ret = "SOS"
          /\ b.state = i.state /\ b.scanline = i.scanline /\ b.inheaders = 0
          /\ b.consume = i.consume /\ b.input_row = i.input_row
      BY <2>2, <2>4 DEF Fields
    <3> HIDE DEF a, b
    <3>4. d.consume # "data"
      BY <1>2 DEF Core
    <3>9. Placed(i.c, in, d.at) /\ i.c.sof
      BY <2>2, <2>4 DEF Core, Placed, Setup
    <3>5. Core(a, in) /\ Apart(d, a)
      BY <1>1, <2>2, <2>4, <3>2, <3>4, <3>9 DEF Core, Apart
    <3>6. Core(b, in) /\ Apart(d, b)
      BY <1>1, <2>2, <2>4, <3>3, <3>4, <3>9 DEF Core, Apart
    <3> HIDE DEF e
    <3>7. CASE e = a
      BY <1>2, <2>2, <2>4, <3>2, <3>5, <3>7, <3>9 DEF e
    <3>8. CASE e = b
      BY <1>2, <2>2, <2>4, <3>3, <3>6, <3>8, <3>9 DEF e
    <3> QED
      BY <3>1, <3>7, <3>8
  <2> QED
    BY <2>3, <2>4
<1>3. CASE d.inheaders = 0
  <2>1. \/ e = Fail(d, "JERR_EOI_EXPECTED")
        \/ e = [d EXCEPT !.ret = "done"]
        \/ e = StartInputPass(d)
    BY <1>3 DEF AtScan
  <2>2. Failed(Fail(d, "JERR_EOI_EXPECTED"))
    BY <1>1, Failing DEF Fields
  <2> DEFINE a == [d EXCEPT !.ret = "done"]
  <2>3. /\ DOMAIN a = DOMAIN d /\ a.c = d.c /\ a.at = d.at /\ a.ret = "done"
        /\ a.state = d.state /\ a.scanline = d.scanline /\ a.inheaders = d.inheaders
        /\ a.consume = d.consume /\ a.input_row = d.input_row
    BY <1>1 DEF Fields
  <2> HIDE DEF a
  <2>4. Core(a, in) /\ Apart(d, a)
    BY <2>3 DEF Core, Apart
  <2> HIDE DEF e
  <2>5. CASE e = StartInputPass(d)
    BY <1>3, <2>5, PassStarted DEF e
  <2>6. CASE e = a
    BY <1>3, <2>3, <2>4, <2>6 DEF e
  <2> QED
    BY <2>1, <2>2, <2>5, <2>6 DEF a, e
<1> QED
  BY <1>1, <1>2, <1>3

\* A round of consume_markers.
MarkerConsumed(d, in, e) ==
  /\ Core(e, in) /\ Apart(d, e)
  /\ e.ret \in Going
  /\ d.inheaders = 0 => e.inheaders = 0
  /\ d.inheaders > 0 => e.consume = d.consume
  /\ d.inheaders > 0 /\ e.ret \in {"done", "suspended"} => e.inheaders > 0
  /\ e.ret = "SOS" => e.inheaders = 0 /\ e.c.unread = None
  /\ d.c.sof => e.c.sof
  /\ e.ret \in {"done", "SOS"} \/ (e.ret = "EOI" /\ ~d.eoi) => Rest(e, in) < Rest(d, in)

LEMMA MarkerIsConsumed ==
  ASSUME NEW d, NEW in, Core(d, in), Formed(in)
  PROVE  LET e == ConsumeMarker(d, in, Len(in))
         IN  Failed(e) \/ MarkerConsumed(d, in, e)
<1> DEFINE e == ConsumeMarker(d, in, Len(in))
           r == ReadMarker(d.c, in, d.at, Len(in))
           t == TakeMarker(d, r)
<1>1. Fields \subseteq DOMAIN d /\ d.inheaders \in 0 .. 2 /\ Sound(d.c)
      /\ Placed(d.c, in, d.at) /\ Len(in) \in Nat /\ d.at \in 0 .. Len(in)
  BY DEF Core, Placed, Formed
<1> SUFFICES Failed(e) \/ MarkerConsumed(d, in, e)
  OBVIOUS
<1>2. CASE d.eoi
  <2>1. e = [d EXCEPT !.ret = "EOI"]
    BY <1>2 DEF ConsumeMarker
  <2> HIDE DEF e
  <2>2. /\ DOMAIN e = DOMAIN d /\ e.c = d.c /\ e.at = d.at /\ e.ret = "EOI"
        /\ e.state = d.state /\ e.scanline = d.scanline /\ e.inheaders = d.inheaders
        /\ e.consume = d.consume /\ e.input_row = d.input_row
    BY <1>1, <2>1 DEF Fields
  <2>3. Core(e, in) /\ Apart(d, e)
    BY <2>2 DEF Core, Apart
  <2> QED
    BY <1>2, <2>2, <2>3 DEF MarkerConsumed, Going
<1>3. CASE ~d.eoi
  <2>1. MarkerDone(d.c, in, d.at, r)
    BY <1>1, MarkerIsRead
  <2> HIDE DEF r
  <2>2. e = ActOnMarker(t)
    BY <1>3 DEF ConsumeMarker, r
  <2>3. /\ Apart(d, t) /\ t.c = r.c /\ t.at = r.at /\ t.ret = r.ret
        /\ t.inheaders = d.inheaders /\ t.consume = d.consume
        /\ t.input_row = d.input_row /\ t.eoi = d.eoi
    BY Taken
  <2> HIDE DEF t, e
  <2>4. CASE t.ret \notin Going
    <3>1. e = t
      BY <2>2, <2>4 DEF ActOnMarker, Going
    <3>2. Failed(t)
      BY <2>1, <2>3, <2>4 DEF Failed, Going, MarkerDone
    <3> QED
      BY <3>1, <3>2
  <2>5. CASE t.ret \in Going
    <3>1. /\ Sound(t.c) /\ Placed(t.c, in, t.at) /\ t.at >= d.at
          /\ d.c.sof => SameHeader(d.c, t.c)
          /\ t.ret \in {"done", "SOS", "EOI"} => t.c.unread = None /\ (t.at > d.at \/ d.c.unread # None)
          /\ t.ret = "SOS" => t.c.sof
      BY <2>1, <2>3, <2>5 DEF MarkerDone
    <3>2. Core(t, in)
      <4>1. d.inheaders # 1 => Setup(t.c)
        BY <3>1, HeaderKept DEF Core, Setup
      <4>2. d.consume = "data" => TotalRows(t.c) = TotalRows(d.c)
        BY <3>1, HeaderKept DEF Core, Setup
      <4> QED
        BY <2>3, <3>1, <4>1, <4>2 DEF Core, Apart
    <3>3. t.ret \in {"done", "SOS", "EOI"} => Rest(t, in) < Rest(d, in)
      <4>1. t.at \in 0 .. Len(in)
        BY <3>1 DEF Placed
      <4> QED
        BY <1>1, <3>1, <4>1 DEF Rest, Weight
    <3>4. CASE t.ret \in {"done", "suspended"}
      <4>1. e = t
        BY <2>2, <3>4 DEF ActOnMarker
      <4> QED
        BY <1>1, <2>3, <2>5, <3>1, <3>2, <3>3, <3>4, <4>1 DEF MarkerConsumed, SameHeader
    <3>5. CASE t.ret = "SOS"
      <4>1. e = AtScan(t)
        BY <2>2, <3>5 DEF ActOnMarker
      <4>2. \/ Failed(e)
            \/ /\ Core(e, in) /\ Apart(t, e) /\ e.at = t.at
               /\ e.c.sof /\ e.c.unread = t.c.unread
               /\ e.ret \in {"SOS", "done"}
               /\ t.inheaders = 0 => e.inheaders = 0
               /\ t.inheaders > 0 => e.consume = t.consume
               /\ t.inheaders > 0 /\ e.ret = "done" => e.inheaders > 0
               /\ e.ret = "SOS" => e.inheaders = 0
        BY <3>1, <3>2, <3>5, <4>1, ScanStarted
      <4>3. ~Failed(e) => Apart(d, e) /\ Rest(e, in) = Rest(t, in)
        BY <2>3, <4>2 DEF Apart, Rest, Weight
      <4> QED
        BY <2>3, <3>1, <3>3, <3>5, <4>2, <4>3 DEF MarkerConsumed, Going, SameHeader
    <3>6. CASE t.ret = "EOI"
      <4> DEFINE a == [t EXCEPT !.eoi = TRUE]
      <4>1. e = AtEnd(t)
        BY <2>2, <3>6 DEF ActOnMarker
      <4>2. \/ e = Fail(a, "JERR_SOF_NO_SOS")
            \/ e = a
        BY <4>1 DEF AtEnd
      <4>3. /\ DOMAIN a = DOMAIN t /\ a.c = t.c /\ a.at = t.at /\ a.ret = "EOI"
            /\ a.state = t.state /\ a.scanline = t.scanline /\ a.inheaders = t.inheaders
            /\ a.consume = t.consume /\ a.input_row = t.input_row
        BY <1>1, <2>3, <3>6 DEF Fields, Apart
      <4> HIDE DEF a
      <4>4. "ret" \in DOMAIN a
        BY <1>1, <2>3, <4>3 DEF Fields, Apart
      <4>5. CASE e = Fail(a, "JERR_SOF_NO_SOS")
        BY <4>4, <4>5, Failing
      <4>6. CASE e = a
        <5>1. Core(a, in) /\ Apart(d, a) /\ Rest(a, in) = Rest(t, in)
          BY <2>3, <3>2, <4>3 DEF Core, Apart, Rest
        <5> QED
          BY <1>1, <2>3, <3>1, <3>3, <3>6, <4>3, <4>6, <5>1 DEF MarkerConsumed, Going, SameHeader
      <4> QED
        BY <4>2, <4>5, <4>6
    <3> QED
      BY <2>5, <3>4, <3>5, <3>6 DEF Going
  <2> QED
    BY <2>4, <2>5
<1> QED
  BY <1>2, <1>3

-----------------------------------------------------------------------------
(***************************************************************************)
(* The application's calls.                                                *)
(***************************************************************************)
InputTaken(d, in, e) ==
  /\ Core(e, in) /\ Apart(d, e)
  /\ e.ret \in Going \cup {"row", "scan"}
  /\ d.inheaders = 0 => e.inheaders = 0
  /\ d.c.sof => e.c.sof
  /\ e.ret \in {"done", "SOS", "row", "scan"} \/ (e.ret = "EOI" /\ ~d.eoi) => Progress(d, e, in)

LEMMA InputIsTaken ==
  ASSUME NEW d, NEW in, Core(d, in), Formed(in)
  PROVE  LET e == ConsumeInput(d, in, Len(in))
         IN  Failed(e) \/ InputTaken(d, in, e)
<1>1. CASE d.consume = "markers"
  <2> DEFINE e == ConsumeMarker(d, in, Len(in))
  <2>1. ConsumeInput(d, in, Len(in)) = e
    BY <1>1 DEF ConsumeInput
  <2>2. Failed(e) \/ MarkerConsumed(d, in, e)
    BY MarkerIsConsumed
  <2> HIDE DEF e
  <2>3. MarkerConsumed(d, in, e) => InputTaken(d, in, e)
    BY DEF MarkerConsumed, InputTaken, Progress, Going
  <2> QED
    BY <2>1, <2>2, <2>3
<1>2. CASE d.consume = "data"
  <2> DEFINE e == ConsumeData(d, in, Len(in))
  <2>1. ConsumeInput(d, in, Len(in)) = e
    BY <1>2 DEF ConsumeInput
  <2>2. /\ Core(e, in) /\ Apart(d, e) /\ e.inheaders = 0
        /\ e.ret \in {"suspended", "JERR_CANT_SUSPEND", "row", "scan"}
        /\ e.ret \in {"row", "scan"} => Progress(d, e, in)
    BY <1>2, RowConsumed
  <2> HIDE DEF e
  <2>3. Failed(e) \/ InputTaken(d, in, e)
    BY <2>2 DEF InputTaken, Going, Core, Setup, Failed
  <2> QED
    BY <2>1, <2>3
<1> QED
  BY <1>1, <1>2 DEF Core

\* A decompressor between two calls.
Decoding == {"READY", "PRELOAD", "SCANNING", "STOPPING"}
Held(d, in) ==
  /\ Core(d, in)
  /\ d.state = "START" => d.c.unread = None /\ d.consume = "markers"
  /\ d.state = "INHEADER" => d.consume = "markers" /\ d.inheaders > 0
  /\ d.state \in Decoding => d.inheaders = 0
  /\ d.state = "READY" => d.c.unread = None /\ d.consume = "markers"
  /\ d.state = "SCANNING" => d.scanline \in Nat

LEMMA StateBad ==
  ASSUME NEW d, NEW in, Core(d, in)
  PROVE  Failed(BadState(d))
  BY Failing DEF BadState, Core, Fields

LEMMA HeaderRead ==
  ASSUME NEW d, NEW in, Held(d, in), Formed(in)
  PROVE  LET e == ReadHeader(d, in, Len(in))
         IN  \/ Failed(e)
             \/ /\ Held(e, in) /\ e.ret \in {"done", "suspended", "ok"}
                /\ e.ret = "done" => Progress(d, e, in)
<1> DEFINE Good(e) == \/ Failed(e)
                      \/ /\ Held(e, in) /\ e.ret \in {"done", "suspended", "ok"}
                         /\ e.ret = "done" => Progress(d, e, in)
<1>1. ASSUME NEW s, Held(s, in), s.state = "INHEADER",
             Rest(s, in) = Rest(d, in)
      PROVE  Good(AfterHeader(ConsumeInput(s, in, Len(in))))
  <2> DEFINE t == ConsumeMarker(s, in, Len(in))
             e == AfterHeader(t)
  <2>1. ConsumeInput(s, in, Len(in)) = t
    BY <1>1 DEF ConsumeInput, Held
  <2>2. Failed(t) \/ MarkerConsumed(s, in, t)
    BY <1>1, MarkerIsConsumed DEF Held
  <2> HIDE DEF t
  <2>3. CASE Failed(t)
    <3>1. e = t
      BY <2>3 DEF AfterHeader, Failed
    <3> QED
      BY <2>1, <2>3, <3>1
  <2>4. CASE MarkerConsumed(s, in, t)
    <3>1. Fields \subseteq DOMAIN t
      BY <2>4 DEF MarkerConsumed, Core
    <3>2. CASE t.ret = "SOS"
      <4> DEFINE c == [t.c EXCEPT !.color = ColorSpace(t.c)]
      <4>1. e = [t EXCEPT !.c = c, !.state = "READY", !.ret = "ok"]
        BY <3>2 DEF AfterHeader
      <4>2. Sound(c) /\ SameHeader(t.c, c) /\ c.unread = t.c.unread
        BY <2>4 DEF MarkerConsumed, Core, Sound, SameHeader, Named
      <4> HIDE DEF c, e
      <4>3. /\ DOMAIN e = DOMAIN t /\ e.c = c /\ e.at = t.at /\ e.state = "READY"
            /\ e.ret = "ok" /\ e.inheaders = t.inheaders /\ e.consume = t.consume
            /\ e.input_row = t.input_row
        BY <3>1, <4>1 DEF Fields
      <4>4. t.inheaders = 0 /\ t.c.unread = None /\ t.consume = "markers" /\ Setup(t.c)
        BY <1>1, <2>4, <3>2 DEF MarkerConsumed, Held, Core
      <4>5. Core(e, in)
        BY <2>4, <4>2, <4>3, <4>4, HeaderKept DEF MarkerConsumed, Core, Placed
      <4>6. Held(e, in)
        BY <4>2, <4>3, <4>4, <4>5 DEF Held, Decoding
      <4> QED
        BY <2>1, <4>3, <4>6 DEF e
    <3>3. CASE t.ret = "EOI"
      <4>1. e = Fail(t, "JERR_NO_IMAGE")
        BY <3>3 DEF AfterHeader
      <4>2. Failed(e)
        BY <3>1, <4>1, Failing DEF Fields
      <4> QED
        BY <2>1, <4>2
    <3>4. CASE t.ret \in {"done", "suspended"}
      <4>1. e = t
        BY <3>4 DEF AfterHeader
      <4>2. t.state = "INHEADER" /\ t.inheaders > 0 /\ t.consume = "markers"
        BY <1>1, <2>4, <3>4 DEF MarkerConsumed, Held, Apart, Core
      <4>3. Held(t, in)
        BY <2>4, <4>2 DEF Held, MarkerConsumed, Decoding
      <4>4. t.ret = "done" => Progress(d, t, in)
        <5>1. t.ret = "done" => Rest(t, in) < Rest(s, in)
          BY <2>4 DEF MarkerConsumed
        <5> QED
          BY <1>1, <5>1 DEF Progress
      <4>5. Good(t)
        BY <3>4, <4>3, <4>4
      <4> QED
        BY <2>1, <4>1, <4>5
    <3> QED
      BY <2>4, <3>2, <3>3, <3>4 DEF MarkerConsumed, Going
  <2> QED
    BY <2>2, <2>3, <2>4
<1>2. CASE d.state = "START"
  <2> DEFINE s == ResetInput(d)
             c == Reset(d.c)
  <2>1. ReadHeader(d, in, Len(in)) = AfterHeader(ConsumeInput(s, in, Len(in)))
    BY <1>2 DEF ReadHeader
  <2>2. Named \subseteq DOMAIN c /\ c.sof = FALSE /\ c.unread = None
    BY DEF Reset, Held, Core, Sound, Named
  <2>3. Fields \subseteq DOMAIN d
    BY DEF Held, Core
  <2> HIDE DEF c
  <2>4. /\ DOMAIN s = DOMAIN d /\ s.c = c /\ s.at = d.at /\ s.state = "INHEADER"
        /\ s.inheaders = 1 /\ s.consume = "markers"
    BY <2>3 DEF ResetInput, Fields, c
  <2> HIDE DEF s
  <2>5. Core(s, in)
    <3>1. Sound(c) /\ Placed(c, in, d.at)
      BY <2>2 DEF Sound, Placed, Held, Core
    <3> QED
      BY <2>3, <2>4, <3>1 DEF Core
  <2>6. Held(s, in)
    BY <2>4, <2>5 DEF Held, Decoding
  <2>7. Rest(s, in) = Rest(d, in)
    BY <1>2, <2>2, <2>4 DEF Held, Rest, Weight
  <2> QED
    BY <1>1, <2>1, <2>4, <2>6, <2>7
<1>3. CASE d.state = "INHEADER"
  <2>1. ReadHeader(d, in, Len(in)) = AfterHeader(ConsumeInput(d, in, Len(in)))
    BY <1>3 DEF ReadHeader
  <2> QED
    BY <1>1, <1>3, <2>1
<1>4. CASE d.state \notin {"START", "INHEADER"}
  <2>1. ReadHeader(d, in, Len(in)) = BadState(d)
    BY <1>4 DEF ReadHeader
  <2> QED
    BY <2>1, StateBad DEF Held
<1> QED
  BY <1>2, <1>3, <1>4

LEMMA TablesLoaded ==
  ASSUME NEW d, NEW in, Held(d, in)
  PROVE  LET e == LoadDht([d EXCEPT !.c.color = "YCbCr", !.ret = "done"])
         IN  Held(e, in) /\ e.state = d.state
<1> DEFINE c0 == [d.c EXCEPT !.color = "YCbCr"]
           s == [d EXCEPT !.c = c0, !.ret = "done"]
           c == [c0 EXCEPT !.dc[0] = Standard, !.dc[1] = Standard,
                           !.ac[0] = Standard, !.ac[1] = Standard]
           t == [s EXCEPT !.c = c]
           e == LoadDht(s)
<1>1. Sound(c0) /\ SameHeader(d.c, c0) /\ c0.unread = d.c.unread
  BY DEF Held, Core, Sound, SameHeader, Named
<1>2. Sound(c) /\ SameHeader(d.c, c) /\ c.unread = d.c.unread
  <2> HIDE DEF c0
  <2>1. Sound(c) /\ SameHeader(c0, c) /\ c.unread = c0.unread
    BY <1>1 DEF Sound, SameHeader, Named
  <2> QED
    BY <1>1, <2>1 DEF SameHeader
<1>3. Fields \subseteq DOMAIN d
  BY DEF Held, Core
<1>4. e = MarkerAllocs(t)
  <2>1. s.c = c0
    BY <1>3 DEF Fields
  <2> HIDE DEF s, c0
  <2> QED
    BY <2>1 DEF LoadDht
<1> HIDE DEF c0, c
<1>5. /\ DOMAIN t = DOMAIN d /\ t.c = c /\ t.at = d.at /\ t.state = d.state
      /\ t.inheaders = d.inheaders /\ t.consume = d.consume /\ t.input_row = d.input_row
      /\ t.scanline = d.scanline
  BY <1>3 DEF Fields
<1> HIDE DEF t, e
<1>6. DOMAIN e = DOMAIN t /\ \A f \in DOMAIN t \ {"pool"} : e[f] = t[f]
  BY <1>4 DEF MarkerAllocs, Alloc
<1>7. /\ e.c = c /\ e.at = d.at /\ e.state = d.state
      /\ e.inheaders = d.inheaders /\ e.consume = d.consume /\ e.input_row = d.input_row
      /\ e.scanline = d.scanline
  BY <1>3, <1>5, <1>6 DEF Fields
<1>8. Core(e, in)
  BY <1>2, <1>5, <1>6, <1>7, HeaderKept DEF Held, Core, Placed
<1>9. Held(e, in) /\ e.state = d.state
  BY <1>2, <1>7, <1>8 DEF Held
<1>10. e = LoadDht([d EXCEPT !.c.color = "YCbCr", !.ret = "done"])
  BY DEF e, s, c0
<1> QED
  BY <1>9, <1>10

LEMMA PassPutOut ==
  ASSUME NEW d, NEW in, Core(d, in), d.inheaders = 0
  PROVE  LET e == OutputPass(d)
         IN  Held(e, in) /\ e.ret = "ok" /\ e.c = d.c /\ e.scanline = 0
<1> DEFINE e == OutputPass(d)
<1>1. Fields \subseteq DOMAIN d
  BY DEF Core
<1>2. /\ DOMAIN e = DOMAIN d /\ e.c = d.c /\ e.at = d.at /\ e.state = "SCANNING"
      /\ e.inheaders = d.inheaders /\ e.consume = d.consume /\ e.input_row = d.input_row
      /\ e.scanline = 0 /\ e.ret = "ok"
  BY <1>1 DEF Fields, OutputPass
<1> HIDE DEF e
<1>3. Core(e, in)
  BY <1>2 DEF Core
<1>4. Held(e, in)
  BY <1>2, <1>3 DEF Held
<1> QED
  BY <1>2, <1>4 DEF e

\* The first row of a scan has to be there.
LEMMA FirstRow ==
  ASSUME NEW d, NEW in, Core(d, in), Formed(in), d.consume = "data",
         d.c.unread = None, d.togo = d.c.restart
  PROVE  LET e == ConsumeData(d, in, Len(in))
         IN  Failed(e) \/ e.ret = "suspended" \/ Rest(e, in) < Rest(d, in)
<1> DEFINE q == RowData(d, in, Len(in))
           e == ConsumeData(d, in, Len(in))
<1>1. /\ RowTaken(d, in, q) /\ Fields \subseteq DOMAIN d
      /\ q.ret = "done" => Rest(q, in) < Rest(d, in)
  BY RowIsTaken DEF Core
<1> HIDE DEF q
<1>2. \/ e = [d EXCEPT !.ret = "suspended"]
      \/ q.ret # "done" /\ e = q
      \/ q.ret = "done" /\ e = NextInputRow(q)
  BY <1>1 DEF ConsumeData, AfterRow, RowTaken, q
<1> SUFFICES ASSUME ~Failed(e), e.ret # "suspended" PROVE Rest(e, in) < Rest(d, in)
  OBVIOUS
<1> HIDE DEF e
<1>3. q.ret = "done" /\ e = NextInputRow(q)
  BY <1>1, <1>2 DEF Fields, RowTaken, Failed
<1>4. e.c = q.c /\ e.at = q.at
  BY <1>1, <1>3, RowCounts
<1> QED
  BY <1>1, <1>3, <1>4 DEF Rest

\* How a round of jpeg_start_decompress ends that goes on from s.
Begun(s, in, e) ==
  \/ Failed(e)
  \/ /\ Held(e, in) /\ e.c.sof
     /\ e.ret \in {"done", "suspended", "ok"}
     /\ e.ret = "done" => Progress(s, e, in)
     /\ e.state = "SCANNING" => e.scanline = 0

LEMMA Preloaded ==
  ASSUME NEW s, NEW in, Core(s, in), Formed(in), s.inheaders = 0, s.state = "PRELOAD"
  PROVE  Begun(s, in, Preload(s, in, Len(in)))
<1> DEFINE t == ConsumeInput(s, in, Len(in))
           e == Preload(s, in, Len(in))
<1>0. s.c.sof
  BY DEF Core, Setup
<1>1. CASE Failed(s)
  BY <1>1 DEF Preload, Begun
<1>2. CASE ~Failed(s) /\ ~s.multi
  <2>1. e = OutputPass(s)
    BY <1>2 DEF Preload
  <2> HIDE DEF e
  <2>2. Begun(s, in, e)
    BY <1>0, <2>1, PassPutOut DEF Begun
  <2> QED
    BY <2>2 DEF e
<1>3. CASE ~Failed(s) /\ s.multi
  <2>1. e = AfterPreload(t)
    BY <1>3 DEF Preload
  <2>2. Failed(t) \/ InputTaken(s, in, t)
    BY InputIsTaken
  <2> HIDE DEF t, e
  <2>3. CASE Failed(t)
    <3>1. e = t
      BY <2>1, <2>3 DEF AfterPreload, Failed
    <3> QED
      BY <2>3, <3>1 DEF Begun, e
  <2>4. CASE InputTaken(s, in, t) /\ ~Failed(t)
    <3>1. /\ Core(t, in) /\ t.inheaders = 0 /\ t.c.sof /\ t.state = "PRELOAD"
          /\ Fields \subseteq DOMAIN t
      BY <1>0, <2>4 DEF InputTaken, Apart, Core
    <3>2. CASE t.ret = "suspended"
      <4>1. e = t
        BY <2>1, <3>2 DEF AfterPreload
      <4>2. Held(t, in)
        BY <3>1 DEF Held
      <4> QED
        BY <3>1, <3>2, <4>1, <4>2 DEF Begun, e
    <3>3. CASE t.ret = "EOI"
      <4>1. e = OutputPass(t)
        BY <2>1, <2>4, <3>3 DEF AfterPreload
      <4>2. Begun(s, in, e)
        BY <3>1, <4>1, PassPutOut DEF Begun
      <4> QED
        BY <4>2 DEF e
    <3>4. CASE t.ret \notin {"suspended", "EOI"}
      <4>1. e = [t EXCEPT !.ret = "done"]
        BY <2>1, <2>4, <3>4 DEF AfterPreload
      <4>2. /\ DOMAIN e = DOMAIN t /\ e.c = t.c /\ e.at = t.at /\ e.state = t.state
            /\ e.inheaders = t.inheaders /\ e.consume = t.consume /\ e.input_row = t.input_row
            /\ e.ret = "done"
        BY <3>1, <4>1 DEF Fields
      <4>3. Core(e, in)
        BY <3>1, <4>2 DEF Core
      <4>4. Held(e, in)
        BY <3>1, <4>2, <4>3 DEF Held
      <4>5. Progress(s, t, in)
        <5>1. t.ret \in {"done", "SOS", "row", "scan"}
          BY <2>4, <3>4 DEF InputTaken, Going
        <5> QED
          BY <2>4, <5>1 DEF InputTaken
      <4>6. Progress(s, e, in)
        BY <4>2, <4>5 DEF Progress, Rest, RowsLeft
      <4> QED
        BY <3>1, <4>2, <4>4, <4>6 DEF Begun, e
    <3> QED
      BY <3>2, <3>3, <3>4
  <2> QED
    BY <2>2, <2>3, <2>4
<1> QED
  BY <1>1, <1>2, <1>3

\* The first round, from the header.
LEMMA FirstPreloaded ==
  ASSUME NEW d, NEW in, Held(d, in), Formed(in), d.state = "READY"
  PROVE  Begun(d, in, Preload([MasterSelection(d) EXCEPT !.state = "PRELOAD"], in, Len(in)))
<1> DEFINE m == MasterSelection(d)
           s == [m EXCEPT !.state = "PRELOAD"]
           e == Preload(s, in, Len(in))
           a == Alloc(d, "image", Controllers)
           b == Alloc(d, "image", {"master", "range_limit", "cconvert"})
<1>1. Core(d, in) /\ d.inheaders = 0 /\ d.consume = "markers" /\ d.c.unread = None
      /\ Fields \subseteq DOMAIN d
  BY DEF Held, Decoding, Core
<1>2. \/ /\ m = Fail(b, SelectionError(d.c))
         /\ SelectionError(d.c) \in {"JERR_BAD_J_COLORSPACE", "JERR_FRACT_SAMPLE_NOTIMPL"}
      \/ m = StartInputPass(a)
  BY DEF MasterSelection, SelectionError
<1>3. /\ Core(a, in) /\ Apart(d, a) /\ \A f \in DOMAIN d \ {"pool"} : a[f] = d[f]
  <2> HIDE DEF a
  <2>1. a = Alloc(d, "image", Controllers)
    BY DEF a
  <2> QED
    BY <1>1, <2>1, Allocated
<1> HIDE DEF a
<1>4. a.inheaders = 0 /\ a.c = d.c /\ a.at = d.at /\ a.eoi = d.eoi /\ a.state = d.state
  BY <1>1, <1>3 DEF Fields
<1>5. Fields \subseteq DOMAIN b
  BY <1>1 DEF Alloc
<1> HIDE DEF b
<1>6. \/ Failed(m) /\ {"ret", "state"} \subseteq DOMAIN m
      \/ /\ Core(m, in) /\ Apart(a, m) /\ m.c = d.c /\ m.at = d.at
         /\ m.inheaders = 0 /\ m.consume = "data" /\ m.togo = d.c.restart
  <2>1. CASE m = StartInputPass(a)
    <3>1. {"ret", "state"} \subseteq DOMAIN StartInputPass(a)
      BY <1>3 DEF StartInputPass, Fail, Alloc, Core, Fields
    <3>2. \/ Failed(StartInputPass(a))
          \/ /\ Core(StartInputPass(a), in) /\ Apart(a, StartInputPass(a))
             /\ StartInputPass(a).c = a.c /\ StartInputPass(a).at = a.at
             /\ StartInputPass(a).inheaders = 0 /\ StartInputPass(a).consume = "data"
             /\ StartInputPass(a).togo = a.c.restart
      BY <1>3, <1>4, PassStarted
    <3> QED
      BY <1>4, <2>1, <3>1, <3>2
  <2>2. CASE /\ m = Fail(b, SelectionError(d.c))
             /\ SelectionError(d.c) \in {"JERR_BAD_J_COLORSPACE", "JERR_FRACT_SAMPLE_NOTIMPL"}
    <3> HIDE DEF m
    <3>1. "ret" \in DOMAIN b /\ {"ret", "state"} \subseteq DOMAIN m
      BY <1>5, <2>2 DEF Fields, Fail
    <3>2. Failed(m)
      BY <2>2, <3>1, Failing
    <3> QED
      BY <3>1, <3>2
  <2> HIDE DEF m
  <2> QED
    BY <1>2, <2>1, <2>2
<1> HIDE DEF m
<1>7. CASE Failed(m) /\ {"ret", "state"} \subseteq DOMAIN m
  <2>1. Failed(s)
    BY <1>7 DEF Failed
  <2> HIDE DEF s
  <2>2. e = s
    BY <2>1 DEF Preload
  <2> QED
    BY <2>1, <2>2 DEF Begun, s, m
<1>8. CASE /\ Core(m, in) /\ Apart(a, m) /\ m.c = d.c /\ m.at = d.at
           /\ m.inheaders = 0 /\ m.consume = "data" /\ m.togo = d.c.restart
  <2>1. /\ DOMAIN s = DOMAIN m /\ s.c = d.c /\ s.at = d.at /\ s.state = "PRELOAD"
        /\ s.inheaders = 0 /\ s.consume = "data" /\ s.input_row = m.input_row
        /\ s.togo = d.c.restart
    BY <1>8 DEF Core, Fields
  <2> HIDE DEF s
  <2>2. Core(s, in)
    BY <1>8, <2>1 DEF Core
  <2>3. Begun(s, in, e)
    BY <2>1, <2>2, Preloaded
  <2>4. ASSUME e.ret = "done", ~Failed(e)
        PROVE  Progress(d, e, in)
    <3> DEFINE t == ConsumeData(s, in, Len(in))
    <3>1. ~Failed(s)
      BY <2>4 DEF Preload
    <3>2. s.multi
      <4>1. ~s.multi => e = OutputPass(s)
        BY <3>1 DEF Preload
      <4>2. OutputPass(s).ret = "ok"
        BY <2>1, <2>2, PassPutOut
      <4> QED
        BY <2>4, <4>1, <4>2
    <3>3. e = AfterPreload(t)
      BY <2>1, <3>1, <3>2 DEF Preload, ConsumeInput
    <3>4. Failed(t) \/ t.ret = "suspended" \/ Rest(t, in) < Rest(s, in)
      BY <1>1, <2>1, <2>2, FirstRow
    <3>5. /\ Core(t, in) /\ t.inheaders = 0
          /\ t.ret \in {"suspended", "JERR_CANT_SUSPEND", "row", "scan"}
      BY <2>1, <2>2, RowConsumed
    <3> HIDE DEF t, e
    <3>6. ~Failed(t) /\ t.ret # "suspended" /\ e = [t EXCEPT !.ret = "done"]
      BY <2>4, <3>3, <3>5 DEF AfterPreload, Failed
    <3>7. e.c = t.c /\ e.at = t.at
      BY <3>5, <3>6 DEF Core, Fields
    <3>8. Rest(e, in) < Rest(d, in)
      BY <2>1, <3>4, <3>6, <3>7 DEF Rest
    <3> QED
      BY <3>8 DEF Progress
  <2> HIDE DEF e
  <2>5. Begun(d, in, e)
    BY <2>3, <2>4 DEF Begun
  <2> QED
    BY <2>5 DEF e, s, m
<1> QED
  BY <1>6, <1>7, <1>8

LEMMA DecompressStarted ==
  ASSUME NEW d, NEW in, Held(d, in), Formed(in)
  PROVE  Begun(d, in, StartDecompress(d, in, Len(in)))
<1>1. CASE d.state = "READY"
  BY <1>1, FirstPreloaded DEF StartDecompress
<1>2. CASE d.state = "PRELOAD"
  BY <1>2, Preloaded DEF StartDecompress, Held, Decoding
<1>3. CASE d.state \notin {"READY", "PRELOAD"}
  <2>1. StartDecompress(d, in, Len(in)) = BadState(d)
    BY <1>3 DEF StartDecompress
  <2> QED
    BY <2>1, StateBad DEF Held, Begun
<1> QED
  BY <1>1, <1>2, <1>3

\* A round of the loop over rows: the header stays, and either a row has been
\* given out or the count of them has not moved.
Shown(d, in, e) ==
  /\ Held(e, in) /\ SameHeader(d.c, e.c)
  /\ \/ e.out = 0 /\ e.scanline = d.scanline
     \/ e.out = d.scanline + 1 /\ e.scanline = d.scanline + 1

LEMMA RowsPutOut ==
  ASSUME NEW d, NEW in, Core(d, in), d.inheaders = 0, d.state = "SCANNING", d.scanline \in Nat
  PROVE  Shown(d, in, WithBuffer(d))
<1> DEFINE f == [d EXCEPT !.full = TRUE]
           next == IF f.next_row >= MaxV(f.c) THEN 0 ELSE f.next_row
           rows == IF f.rows_to_go > 0 THEN 1 ELSE 0
           u == [f EXCEPT !.out = IF rows = 1 THEN f.scanline + 1 ELSE 0,
                          !.rows_to_go = @ - rows, !.scanline = @ + rows,
                          !.next_row = next + rows,
                          !.rowgroup = IF next + rows >= MaxV(f.c) THEN @ + 1 ELSE @]
           v == [u EXCEPT !.full = FALSE, !.rowgroup = 0]
           e == WithBuffer(d)
<1>1. \/ e = [d EXCEPT !.out = 0]
      \/ e = u
      \/ e = v
  BY DEF WithBuffer, BufferUsed, Upsample
<1>2. Fields \subseteq DOMAIN d
  BY DEF Core
<1>3. /\ DOMAIN f = DOMAIN d /\ f.c = d.c /\ f.at = d.at /\ f.state = d.state
      /\ f.inheaders = d.inheaders /\ f.consume = d.consume /\ f.input_row = d.input_row
      /\ f.scanline = d.scanline
  BY <1>2 DEF Fields
<1> HIDE DEF f
<1>4. rows \in {0, 1}
  OBVIOUS
<1> HIDE DEF rows, next
<1>5. /\ DOMAIN u = DOMAIN d /\ u.c = d.c /\ u.at = d.at /\ u.state = d.state
      /\ u.inheaders = d.inheaders /\ u.consume = d.consume /\ u.input_row = d.input_row
      /\ u.scanline = d.scanline + rows
      /\ u.out = IF rows = 1 THEN d.scanline + 1 ELSE 0
  BY <1>2, <1>3 DEF Fields
<1> HIDE DEF u
<1>6. /\ DOMAIN v = DOMAIN d /\ v.c = d.c /\ v.at = d.at /\ v.state = d.state
      /\ v.inheaders = d.inheaders /\ v.consume = d.consume /\ v.input_row = d.input_row
      /\ v.scanline = d.scanline + rows
      /\ v.out = IF rows = 1 THEN d.scanline + 1 ELSE 0
  BY <1>2, <1>5 DEF Fields
<1> HIDE DEF v
<1> DEFINE w == [d EXCEPT !.out = 0]
<1>7. /\ DOMAIN w = DOMAIN d /\ w.c = d.c /\ w.at = d.at /\ w.state = d.state
      /\ w.inheaders = d.inheaders /\ w.consume = d.consume /\ w.input_row = d.input_row
      /\ w.scanline = d.scanline /\ w.out = 0
  BY <1>2 DEF Fields
<1> HIDE DEF w
<1>8. \E k \in {0, 1} :
        /\ DOMAIN e = DOMAIN d /\ e.c = d.c /\ e.at = d.at /\ e.state = d.state
        /\ e.inheaders = d.inheaders /\ e.consume = d.consume /\ e.input_row = d.input_row
        /\ e.scanline = d.scanline + k
        /\ e.out = IF k = 1 THEN d.scanline + 1 ELSE 0
  <2>1. CASE e = w
    BY <1>7, <2>1
  <2>2. CASE e = u
    BY <1>4, <1>5, <2>2
  <2>3. CASE e = v
    BY <1>4, <1>6, <2>3
  <2> QED
    BY <1>1, <2>1, <2>2, <2>3 DEF w
<1> HIDE DEF e
<1>9. Core(e, in) /\ SameHeader(d.c, e.c) /\ e.scanline \in Nat
  BY <1>8 DEF Core, SameHeader
<1>10. Held(e, in)
  BY <1>8, <1>9 DEF Held
<1> QED
  BY <1>8, <1>9, <1>10 DEF Shown, e

LEMMA ScanlineRead ==
  ASSUME NEW d, NEW in, Held(d, in), Formed(in)
  PROVE  LET e == ReadScanlines(d, in, Len(in))
         IN  Failed(e) \/ Shown(d, in, e)
<1> DEFINE e == ReadScanlines(d, in, Len(in))
           s == [d EXCEPT !.ret = "done"]
           t == IF s.full THEN s ELSE Decompress(s, in, Len(in))
           z == [d EXCEPT !.out = 0]
<1>1. Core(d, in) /\ Fields \subseteq DOMAIN d
  BY DEF Held, Core
<1>2. CASE d.state # "SCANNING"
  <2>1. e = BadState(d)
    BY <1>2 DEF ReadScanlines
  <2> QED
    BY <1>1, <2>1, StateBad
<1>3. CASE d.state = "SCANNING"
  <2>1. e = z \/ e = WithBuffer(t)
    BY <1>3 DEF ReadScanlines, ProcessData
  <2>2. d.inheaders = 0 /\ d.scanline \in Nat
    BY <1>3 DEF Held, Decoding
  <2>3. /\ DOMAIN s = DOMAIN d /\ s.c = d.c /\ s.at = d.at /\ s.state = d.state
        /\ s.inheaders = d.inheaders /\ s.consume = d.consume /\ s.input_row = d.input_row
        /\ s.scanline = d.scanline
    BY <1>1 DEF Fields
  <2>4. /\ DOMAIN z = DOMAIN d /\ z.c = d.c /\ z.at = d.at /\ z.state = d.state
        /\ z.inheaders = d.inheaders /\ z.consume = d.consume /\ z.input_row = d.input_row
        /\ z.scanline = d.scanline /\ z.out = 0
    BY <1>1 DEF Fields
  <2> HIDE DEF s, z, e
  <2>5. Core(s, in) /\ SameHeader(d.c, s.c)
    BY <1>1, <2>3 DEF Core, SameHeader
  <2>6. Shown(d, in, z)
    <3>1. Core(z, in) /\ SameHeader(d.c, z.c)
      BY <1>1, <2>4 DEF Core, SameHeader
    <3>2. Held(z, in)
      BY <1>3, <2>2, <2>4, <3>1 DEF Held
    <3> QED
      BY <2>4, <3>1, <3>2 DEF Shown
  <2>7. Core(t, in) /\ t.inheaders = 0 /\ t.state = "SCANNING" /\ t.scanline = d.scanline
        /\ SameHeader(d.c, t.c)
    <3> DEFINE g == Decompress(s, in, Len(in))
               q == RowData(s, in, Len(in))
               n == NextInputRow(q)
               a == [s EXCEPT !.output_row = @ + 1, !.ret = "done"]
               b == [n EXCEPT !.output_row = @ + 1, !.ret = "done"]
    <3>1. RowTaken(s, in, q)
      BY <2>5, RowIsTaken
    <3>2. \/ t = s
          \/ t = a
          \/ q.ret # "done" /\ t = q
          \/ q.ret = "done" /\ t = b
      <4>1. g = IF s.multi THEN a ELSE RowDecoded(q)
        BY DEF Decompress
      <4>2. RowDecoded(q) = IF q.ret # "done" THEN q ELSE b
        BY DEF RowDecoded
      <4>3. t = s \/ t = g
        OBVIOUS
      <4> HIDE DEF g, q, a, b
      <4> QED
        BY <4>1, <4>2, <4>3
    <3>3. /\ DOMAIN a = DOMAIN s /\ a.c = s.c /\ a.at = s.at /\ a.state = s.state
          /\ a.inheaders = s.inheaders /\ a.consume = s.consume /\ a.input_row = s.input_row
          /\ a.scanline = s.scanline
      BY <1>1, <2>3 DEF Fields
    <3> HIDE DEF q, a, t
    <3>4. CASE t = s
      BY <1>3, <2>2, <2>3, <2>5, <3>4
    <3>5. CASE t = a
      <4>1. Core(a, in)
        BY <2>5, <3>3 DEF Core
      <4> QED
        BY <1>3, <2>2, <2>3, <2>5, <3>3, <3>5, <4>1
    <3>6. CASE q.ret # "done" /\ t = q
      <4>1. Core(q, in)
        BY <2>5, <3>1, HeaderKept DEF Core, RowTaken, Apart
      <4>2. Apart(s, q) /\ SameHeader(s.c, q.c) /\ q.inheaders = s.inheaders
        BY <3>1 DEF RowTaken
      <4> QED
        BY <1>3, <2>2, <2>3, <3>6, <4>1, <4>2 DEF Apart
    <3>7. CASE q.ret = "done" /\ t = b
      <4>2. Core(n, in) /\ Apart(s, n) /\ SameHeader(s.c, n.c) /\ n.inheaders = s.inheaders
        BY <2>5, <3>1, <3>7, RowCounts
      <4> HIDE DEF n
      <4>3. /\ DOMAIN b = DOMAIN n /\ b.c = n.c /\ b.at = n.at /\ b.state = n.state
            /\ b.inheaders = n.inheaders /\ b.consume = n.consume /\ b.input_row = n.input_row
            /\ b.scanline = n.scanline
        BY <4>2 DEF Core, Fields
      <4> HIDE DEF b
      <4>4. Core(b, in)
        BY <4>2, <4>3 DEF Core
      <4> QED
        BY <1>3, <2>2, <2>3, <3>7, <4>2, <4>3, <4>4 DEF Apart
    <3> QED
      BY <3>2, <3>4, <3>5, <3>6, <3>7
  <2>8. Shown(t, in, WithBuffer(t))
    BY <2>2, <2>7, RowsPutOut
  <2> HIDE DEF t
  <2>9. Shown(d, in, WithBuffer(t))
    BY <2>7, <2>8 DEF Shown, SameHeader
  <2> QED
    BY <2>1, <2>6, <2>9 DEF e
<1> QED
  BY <1>2, <1>3

LEMMA DecompressFinished ==
  ASSUME NEW d, NEW in, Held(d, in), Formed(in)
  PROVE  LET e == FinishDecompress(d, in, Len(in))
         IN  \/ Failed(e)
             \/ e.ret = "ok"
             \/ /\ Held(e, in) /\ e.ret \in {"done", "suspended"}
                /\ e.ret = "done" => Progress(d, e, in)
<1> DEFINE e == FinishDecompress(d, in, Len(in))
           s == [d EXCEPT !.state = "STOPPING"]
           t == ConsumeInput(s, in, Len(in))
           a == [Abort(s) EXCEPT !.ret = "ok"]
           Good == \/ Failed(e)
                   \/ e.ret = "ok"
                   \/ /\ Held(e, in) /\ e.ret \in {"done", "suspended"}
                      /\ e.ret = "done" => Progress(d, e, in)
<1> SUFFICES Good
  OBVIOUS
<1>1. Core(d, in) /\ Fields \subseteq DOMAIN d
  BY DEF Held, Core
<1>2. CASE d.state \notin {"SCANNING", "STOPPING"}
  <2>1. e = BadState(d)
    BY <1>2 DEF FinishDecompress
  <2> HIDE DEF e
  <2> QED
    BY <1>1, <2>1, StateBad
<1>3. CASE d.state = "SCANNING" /\ d.scanline < d.c.height
  <2>1. e = Fail(d, "JERR_TOO_LITTLE_DATA")
    BY <1>3 DEF FinishDecompress
  <2> HIDE DEF e
  <2>2. Failed(e)
    BY <1>1, <2>1, Failing DEF Fields
  <2> QED
    BY <2>2
<1>4. CASE d.state \in {"SCANNING", "STOPPING"} /\ ~ (d.state = "SCANNING" /\ d.scanline < d.c.height)
  <2>1. e = Stopping(s, in, Len(in))
    BY <1>4 DEF FinishDecompress
  <2>2. /\ DOMAIN s = DOMAIN d /\ s.c = d.c /\ s.at = d.at /\ s.state = "STOPPING"
        /\ s.inheaders = d.inheaders /\ s.consume = d.consume /\ s.input_row = d.input_row
        /\ s.eoi = d.eoi
    BY <1>1 DEF Fields
  <2>3. d.inheaders = 0
    BY <1>4 DEF Held, Decoding
  <2>4. s.eoi => e = a
    BY <2>1 DEF Stopping
  <2>5. ~s.eoi => e = AfterRest(t)
    BY <2>1 DEF Stopping
  <2> HIDE DEF s
  <2>6. a.ret = "ok"
    BY <1>1, <2>2 DEF Abort, FreePool, Fields
  <2> HIDE DEF a, e
  <2>7. CASE s.eoi
    BY <2>4, <2>6, <2>7
  <2>8. CASE ~s.eoi
    <3>1. Core(s, in)
      BY <1>1, <2>2 DEF Core
    <3>2. Failed(t) \/ InputTaken(s, in, t)
      BY <3>1, InputIsTaken
    <3> HIDE DEF t
    <3>3. CASE Failed(t)
      <4>1. e = t
        BY <2>5, <2>8, <3>3 DEF AfterRest, Failed
      <4> QED
        BY <3>3, <4>1
    <3>4. CASE InputTaken(s, in, t)
      <4>1. Core(t, in) /\ t.state = "STOPPING" /\ t.inheaders = 0 /\ Fields \subseteq DOMAIN t
        BY <2>2, <2>3, <3>4 DEF InputTaken, Apart, Core
      <4>2. CASE t.ret \in {"EOI", "SOS", "row", "scan"}
        <5>1. e = [t EXCEPT !.ret = "done"]
          BY <2>5, <2>8, <4>2 DEF AfterRest
        <5>2. /\ DOMAIN e = DOMAIN t /\ e.c = t.c /\ e.at = t.at /\ e.state = t.state
              /\ e.inheaders = t.inheaders /\ e.consume = t.consume /\ e.input_row = t.input_row
              /\ e.ret = "done"
          BY <4>1, <5>1 DEF Fields
        <5>3. Core(e, in)
          BY <4>1, <5>2 DEF Core
        <5>4. Held(e, in)
          BY <4>1, <5>2, <5>3 DEF Held
        <5>5. Progress(s, t, in)
          BY <2>8, <3>4, <4>2 DEF InputTaken
        <5>6. Progress(d, e, in)
          BY <2>2, <5>2, <5>5 DEF Progress, Rest, RowsLeft
        <5> QED
          BY <5>2, <5>4, <5>6
      <4>3. CASE t.ret \in {"done", "suspended"}
        <5>1. e = t
          BY <2>5, <2>8, <4>3 DEF AfterRest
        <5>2. Held(t, in)
          BY <4>1 DEF Held
        <5>3. t.ret = "done" => Progress(s, t, in)
          BY <3>4 DEF InputTaken
        <5>4. t.ret = "done" => Progress(d, t, in)
          BY <2>2, <5>3 DEF Progress, Rest, RowsLeft
        <5> QED
          BY <4>3, <5>1, <5>2, <5>4
      <4> QED
        BY <3>4, <4>2, <4>3 DEF InputTaken, Going
    <3> QED
      BY <3>2, <3>3, <3>4
  <2> QED
    BY <2>7, <2>8
<1> QED
  BY <1>2, <1>3, <1>4

LEMMA Created ==
  ASSUME NEW in
  PROVE  Held(AddSource(Create), in)
<1> DEFINE d == [NoDecompressor EXCEPT !.mem = TRUE, !.state = "START"]
           e == AddSource(Create)
<1>1. /\ Fields \subseteq DOMAIN d /\ d.c = MarkerReader /\ d.at = 0 /\ d.state = "START"
      /\ d.inheaders = 1 /\ d.consume = "markers"
  BY DEF NoDecompressor, Fields
<1>2. e = Alloc(Alloc(d, "permanent", {"marker", "inputctl"}), "permanent", {"src"})
  BY DEF AddSource, Create
<1> HIDE DEF d, e
<1>3. /\ Fields \subseteq DOMAIN e /\ e.c = MarkerReader /\ e.at = 0 /\ e.state = "START"
      /\ e.inheaders = 1 /\ e.consume = "markers"
  BY <1>1, <1>2 DEF Alloc, Fields
<1>4. Sound(MarkerReader) /\ Placed(MarkerReader, in, 0) /\ MarkerReader.unread = None
  BY DEF Sound, Named, Placed, MarkerReader
<1>5. Core(e, in)
  BY <1>3, <1>4 DEF Core
<1>6. Held(e, in)
  BY <1>3, <1>4, <1>5 DEF Held, Decoding
<1> QED
  BY <1>6 DEF e

-----------------------------------------------------------------------------
(***************************************************************************)
(* processimage.  The invariant of its calls: between two of them the      *)
(* decompressor is one that the frame at hand has led to, the buffer has   *)
(* the size that was noted, and the place in it where the next row goes is *)
(* not before the one that the rows given out so far take.                 *)
(***************************************************************************)
Calling == {"header", "tables", "start", "buffers", "row", "finish"}
Sized ==
  /\ img.w \in Nat \ {0} /\ img.h \in Nat \ {0}
  /\ DOMAIN rgb = 0 .. img.w * img.h - 1
CallsInv ==
  /\ past \in Seq(DOMAIN Pictures)
  /\ pc # "idle" => past # <<>>
  /\ y \in Nat
  /\ rgb # NULL => Sized
  /\ pc \in Calling => Held(cinfo, In)
  /\ pc \in {"buffers", "row"} => cinfo.c.sof
  /\ pc = "buffers" /\ cinfo.state = "SCANNING" => cinfo.scanline = 0
  /\ pc = "row" => rgb # NULL
  /\ pc = "row" /\ cinfo.state = "SCANNING" => cinfo.scanline * img.w <= y
  /\ fault = "written outside" => pc = "undefined"
  /\ WritesInside

LEMMA CallsInvInit == Init => CallsInv
<1> SUFFICES ASSUME Init PROVE CallsInv
  OBVIOUS
<1> QED
  BY DEF Init, CallsInv, Calling, WritesInside, NULL

\* The frame at hand.
LEMMA InIsFormed ==
  ASSUME past \in Seq(DOMAIN Pictures), past # <<>>
  PROVE  Formed(In)
<1>1. Last(past) \in DOMAIN Pictures
  BY DEF Last
<1> QED
  BY <1>1, PicturesAssumption DEF In, Picture

\* A step of processimage that a call takes from pc to `next`, or to its end.
Leads(d, next) ==
  \/ Failed(d)
  \/ /\ next # "row"
     /\ next \in Calling => Held(d, In)
     /\ next = "buffers" => d.c.sof /\ (d.state = "SCANNING" => d.scanline = 0)

LEMMA LibraryLeads ==
  ASSUME CallsInv, pc \notin {"idle", "undefined"}, NEW d, NEW next, Library(d, next),
         y' = y, Leads(d, next)
  PROVE  CallsInv'
<1>1. /\ past' = past /\ rgb' = rgb /\ img' = img /\ fault' = fault /\ In' = In
      /\ cinfo' = d /\ pc' = IF Failed(d) THEN "error" ELSE next
  BY DEF Library, In, Picture
<1>2. Sized' = Sized
  BY <1>1 DEF Sized
<1>3. past' \in Seq(DOMAIN Pictures) /\ past' # <<>> /\ y' \in Nat
  BY <1>1 DEF CallsInv
<1>4. rgb' # NULL => Sized'
  BY <1>1, <1>2 DEF CallsInv, NULL
<1>5. pc' \in Calling => Held(cinfo', In')
  BY <1>1 DEF Leads, Calling
<1>6. /\ pc' # "row"
      /\ pc' = "buffers" => cinfo'.c.sof /\ (cinfo'.state = "SCANNING" => cinfo'.scanline = 0)
  BY <1>1 DEF Leads
<1>7. fault' # "written outside"
  BY <1>1 DEF CallsInv
<1> QED
  BY <1>3, <1>4, <1>5, <1>6, <1>7 DEF CallsInv, WritesInside, NULL, In, Picture

LEMMA HeaderLeads ==
  ASSUME CallsInv, Header
  PROVE  CallsInv'
<1> DEFINE d == ReadHeader(cinfo, In, Have)
           next == IF d.ret = "done" THEN "header" ELSE "tables"
<1>1. pc = "header" /\ Library(d, next) /\ y' = y
  BY DEF Header
<1>2. Held(cinfo, In) /\ Formed(In)
  BY <1>1, InIsFormed DEF CallsInv, Calling
<1>3. Failed(d) \/ Held(d, In)
  BY <1>2, HeaderRead DEF Have
<1>4. next \in {"header", "tables"}
  OBVIOUS
<1> HIDE DEF d, next
<1>5. Leads(d, next)
  BY <1>3, <1>4 DEF Leads, Calling
<1> QED
  BY <1>1, <1>5, LibraryLeads

LEMMA ParametersLead ==
  ASSUME CallsInv, Parameters
  PROVE  CallsInv'
<1> DEFINE d == LoadDht([cinfo EXCEPT !.c.color = "YCbCr", !.ret = "done"])
<1>1. pc = "tables" /\ Library(d, "start") /\ y' = y
  BY DEF Parameters
<1>2. Held(d, In)
  BY <1>1, TablesLoaded DEF CallsInv, Calling
<1> HIDE DEF d
<1>3. Leads(d, "start")
  BY <1>2 DEF Leads
<1> QED
  BY <1>1, <1>3, LibraryLeads

LEMMA StartLeads ==
  ASSUME CallsInv, Start
  PROVE  CallsInv'
<1> DEFINE d == StartDecompress(cinfo, In, Have)
           next == IF d.ret = "done" THEN "start" ELSE "buffers"
<1>1. pc = "start" /\ Library(d, next) /\ y' = y
  BY DEF Start
<1>2. Held(cinfo, In) /\ Formed(In)
  BY <1>1, InIsFormed DEF CallsInv, Calling
<1>3. Begun(cinfo, In, d)
  BY <1>2, DecompressStarted DEF Have
<1>4. next \in {"start", "buffers"}
  OBVIOUS
<1> HIDE DEF d, next
<1>5. Leads(d, next)
  BY <1>3, <1>4 DEF Leads, Begun
<1> QED
  BY <1>1, <1>5, LibraryLeads

LEMMA FinishLeads ==
  ASSUME CallsInv, Finish
  PROVE  CallsInv'
<1> DEFINE d == FinishDecompress(cinfo, In, Have)
           next == IF d.ret = "done" THEN "finish" ELSE "destroy"
<1>1. pc = "finish" /\ Library(d, next) /\ y' = y
  BY DEF Finish
<1>2. Held(cinfo, In) /\ Formed(In)
  BY <1>1, InIsFormed DEF CallsInv, Calling
<1>3. Failed(d) \/ d.ret = "ok" \/ Held(d, In)
  BY <1>2, DecompressFinished DEF Have
<1>4. (next = "finish" /\ d.ret = "done") \/ next = "destroy"
  OBVIOUS
<1> HIDE DEF d, next
<1>5. Leads(d, next)
  BY <1>3, <1>4 DEF Leads, Calling
<1> QED
  BY <1>1, <1>5, LibraryLeads

LEMMA BuffersLead ==
  ASSUME CallsInv, Buffers
  PROVE  CallsInv'
<1>1. /\ pc = "buffers" /\ pc' \in {"row", "error"} /\ past' = past /\ fault' = fault
      /\ In' = In /\ y' = 0
      /\ pc' = "row" => cinfo' = Alloc(cinfo, "image", {"jpegbuffer"})
  BY DEF Buffers, In, Picture
<1>2. /\ Held(cinfo, In) /\ cinfo.c.sof /\ Fields \subseteq DOMAIN cinfo
      /\ cinfo.c.width \in Nat \ {0} /\ cinfo.c.height \in Nat \ {0}
  BY <1>1 DEF CallsInv, Calling, Held, Core, Sound
<1>3. rgb' # NULL /\ Sized'
  <2>1. CASE rgb = NULL
    <3> DEFINE last == cinfo.c.width * cinfo.c.height - 1
    <3>1. img'.w = cinfo.c.width /\ img'.h = cinfo.c.height /\ rgb' = [k \in 0 .. last |-> Junk]
      BY <2>1 DEF Buffers
    <3>2. last \in Nat
      <4>1. \A a, b \in Nat \ {0} : a * b \in Nat \ {0}
        OBVIOUS
      <4> QED
        BY <1>2, <4>1
    <3>3. DOMAIN rgb' = 0 .. last /\ 0 \in DOMAIN rgb'
      BY <3>1, <3>2
    <3>4. rgb' # NULL
      <4>1. DOMAIN NULL = {}
        BY DEF NULL
      <4> HIDE DEF last
      <4> QED
        BY <3>3, <4>1
    <3> QED
      BY <1>2, <3>1, <3>3, <3>4 DEF Sized
  <2>2. CASE rgb # NULL
    BY <2>2 DEF Buffers, CallsInv, Sized, NULL
  <2> QED
    BY <2>1, <2>2
<1>4. ASSUME pc' = "row"
      PROVE  /\ Held(cinfo', In) /\ cinfo'.c = cinfo.c
             /\ cinfo'.state = "SCANNING" => cinfo'.scanline = 0
  <2> DEFINE e == Alloc(cinfo, "image", {"jpegbuffer"})
  <2>1. cinfo' = e
    BY <1>1, <1>4
  <2>2. Core(e, In) /\ Apart(cinfo, e) /\ \A f \in DOMAIN cinfo \ {"pool"} : e[f] = cinfo[f]
    BY <1>2, Allocated DEF Held
  <2> HIDE DEF e
  <2>3. /\ e.c = cinfo.c /\ e.at = cinfo.at /\ e.state = cinfo.state
        /\ e.inheaders = cinfo.inheaders /\ e.consume = cinfo.consume
        /\ e.scanline = cinfo.scanline
    BY <1>2, <2>2 DEF Fields
  <2>4. Held(e, In)
    BY <1>2, <2>2, <2>3 DEF Held
  <2> QED
    BY <1>1, <2>1, <2>3, <2>4 DEF CallsInv
<1>5. fault' # "written outside"
  BY <1>1 DEF CallsInv
<1>6. pc' = "row" /\ cinfo'.state = "SCANNING" => cinfo'.scanline * img'.w <= y'
  BY <1>1, <1>3, <1>4 DEF Sized
<1>7. /\ past' \in Seq(DOMAIN Pictures) /\ past' # <<>> /\ y' \in Nat
      /\ pc' \in Calling => Held(cinfo', In')
  BY <1>1, <1>4 DEF CallsInv, Calling
<1>8. pc' = "row" => cinfo'.c.sof
  BY <1>2, <1>4
<1> QED
  BY <1>1, <1>3, <1>5, <1>6, <1>7, <1>8 DEF CallsInv, WritesInside, NULL

LEMMA Stripes ==
  ASSUME NEW a \in Nat, NEW b \in Nat, NEW w \in Nat, a + 1 <= b
  PROVE  a * w + w <= b * w
<1>1. PICK k \in Nat : b = (a + 1) + k
  <2>1. b - (a + 1) \in Nat
    OBVIOUS
  <2> QED
    BY <2>1
<1>2. b * w = (a * w + w) + k * w
  BY <1>1
<1>3. k * w \in Nat /\ a * w \in Nat
  OBVIOUS
<1> QED
  BY <1>2, <1>3

LEMMA ColumnsBound ==
  ASSUME img.w \in Nat, cinfo.c.width \in Nat
  PROVE  Columns \in Nat /\ Columns <= img.w
<1>1. ASSUME NEW a \in Nat, NEW b \in Nat PROVE Min({a, b}) \in Nat /\ Min({a, b}) <= a
  <2>1. \E m \in {a, b} : \A k \in {a, b} : m <= k
    OBVIOUS
  <2>2. Min({a, b}) \in {a, b} /\ \A k \in {a, b} : Min({a, b}) <= k
    BY <2>1 DEF Min
  <2> QED
    BY <2>2
<1> QED
  BY <1>1 DEF Columns

\* A round of the loop over rows that is no error.
LEMMA RowLeads ==
  ASSUME CallsInv, pc = "row", cinfo.scanline < cinfo.c.height,
         NEW d, d = ReadScanlines(cinfo, In, Have), ~Failed(d), ReadRow(d)
  PROVE  CallsInv'
<1>1. Held(cinfo, In) /\ Formed(In) /\ cinfo.c.sof /\ Sized /\ rgb # NULL
  BY InIsFormed DEF CallsInv, Calling
<1>2. cinfo.state = "SCANNING"
  <2>1. CASE cinfo.state # "SCANNING"
    <3>1. d = BadState(cinfo)
      BY <2>1 DEF ReadScanlines
    <3> QED
      BY <1>1, <3>1, StateBad DEF Held
  <2> QED
    BY <2>1
<1>3. Shown(cinfo, In, d)
  BY <1>1, ScanlineRead DEF Have
<1>4. /\ cinfo.scanline \in Nat /\ y \in Nat /\ cinfo.scanline * img.w <= y
      /\ cinfo.c.width \in Nat /\ cinfo.c.height \in Nat
      /\ img.w \in Nat \ {0} /\ img.h \in Nat \ {0} /\ DOMAIN rgb = 0 .. img.w * img.h - 1
  BY <1>1, <1>2 DEF CallsInv, Held, Core, Sound, Sized
<1>5. /\ Held(d, In) /\ d.c.height = cinfo.c.height /\ d.c.sof
      /\ d.scanline = cinfo.scanline \/ d.scanline = cinfo.scanline + 1
  BY <1>1, <1>3 DEF Shown, SameHeader
<1>6. /\ cinfo' = d /\ past' = past /\ img' = img /\ y' = y + img.w /\ In' = In
  BY DEF ReadRow, In, Picture
<1>7. d.scanline * img.w <= y + img.w
  <2>1. (cinfo.scanline + 1) * img.w = cinfo.scanline * img.w + img.w
    BY <1>4
  <2>2. cinfo.scanline * img.w \in Nat
    BY <1>4
  <2> QED
    BY <1>4, <1>5, <2>1, <2>2
<1>8. y' \in Nat
  BY <1>4, <1>6
<1> DEFINE places == y .. y + Columns - 1
<1>9. CASE places \subseteq DOMAIN rgb
  <2>1. pc' = "row" /\ fault' = fault /\ DOMAIN rgb' = DOMAIN rgb
    BY <1>9 DEF ReadRow
  <2>2. rgb' # NULL
    <3>1. DOMAIN NULL = {}
      BY DEF NULL
    <3>2. 0 \in DOMAIN rgb
      <4>1. \A a, b \in Nat \ {0} : 0 \in 0 .. a * b - 1
        OBVIOUS
      <4> QED
        BY <1>4, <4>1
    <3> QED
      BY <2>1, <3>1, <3>2
  <2>3. Sized'
    BY <1>4, <1>6, <2>1 DEF Sized
  <2>4. fault' # "written outside"
    BY <2>1 DEF CallsInv
  <2>5. past' \in Seq(DOMAIN Pictures) /\ past' # <<>>
    BY <1>6 DEF CallsInv
  <2>6. Held(cinfo', In') /\ cinfo'.c.sof /\ cinfo'.scanline * img'.w <= y'
    BY <1>5, <1>6, <1>7
  <2> QED
    BY <1>8, <2>1, <2>2, <2>3, <2>4, <2>5, <2>6 DEF CallsInv, WritesInside
<1>10. CASE ~ (places \subseteq DOMAIN rgb)
  <2>1. pc' = "undefined" /\ rgb' = rgb
    BY <1>10 DEF ReadRow
  <2>2. cinfo'.c.height > img'.h \/ cinfo'.scanline * img'.w < y'
    <3> SUFFICES ASSUME cinfo.c.height <= img.h, y + img.w <= d.scanline * img.w
                 PROVE  FALSE
      <4>1. d.scanline * img.w \in Nat
        BY <1>4, <1>5
      <4> QED
        BY <1>4, <1>5, <1>6, <4>1
    <3> DEFINE a == cinfo.scanline * img.w
    <3>1. a \in Nat
      BY <1>4
    <3>2. (cinfo.scanline + 1) * img.w = a + img.w
      BY <1>4
    <3>3. d.scanline * img.w = a \/ d.scanline * img.w = a + img.w
      BY <1>5, <3>2
    <3>4. a + img.w <= img.h * img.w
      <4>1. cinfo.scanline + 1 <= img.h
        BY <1>4
      <4> QED
        BY <1>4, <4>1, Stripes
    <3>5. img.h * img.w = img.w * img.h
      BY <1>4
    <3>6. a <= y
      BY <1>4
    <3> HIDE DEF a
    <3>7. y = a
      BY <1>4, <3>1, <3>3, <3>6
    <3>8. Columns \in Nat /\ Columns <= img.w
      BY <1>4, ColumnsBound
    <3>9. a + img.w <= img.w * img.h
      BY <3>4, <3>5
    <3> DEFINE size == img.w * img.h
    <3>10. size \in Nat /\ a + img.w <= size /\ DOMAIN rgb = 0 .. size - 1
      BY <1>4, <3>9
    <3> HIDE DEF size
    <3>11. places \subseteq 0 .. size - 1
      BY <1>4, <3>1, <3>7, <3>8, <3>10
    <3> QED
      BY <1>10, <3>10, <3>11
  <2>3. rgb' # NULL => Sized'
    BY <1>4, <1>6, <2>1 DEF Sized
  <2>4. past' \in Seq(DOMAIN Pictures) /\ past' # <<>>
    BY <1>6 DEF CallsInv
  <2> QED
    BY <1>8, <2>1, <2>2, <2>3, <2>4 DEF CallsInv, WritesInside, Calling
<1> QED
  BY <1>9, <1>10

LEMMA DecodeLeads ==
  ASSUME CallsInv, Decode
  PROVE  CallsInv'
<1>1. CASE CreateDecompress
  <2> DEFINE d == AddSource(Create)
  <2>1. pc = "create" /\ Library(d, "header") /\ y' = y
    BY <1>1 DEF CreateDecompress
  <2>2. Held(d, In)
    BY Created
  <2> HIDE DEF d
  <2>3. Leads(d, "header")
    BY <2>2 DEF Leads
  <2> QED
    BY <2>1, <2>3, LibraryLeads
<1>2. CASE Header
  BY <1>2, HeaderLeads
<1>3. CASE Parameters
  BY <1>3, ParametersLead
<1>4. CASE Start
  BY <1>4, StartLeads
<1>5. CASE Buffers
  BY <1>5, BuffersLead
<1>6. CASE Row
  <2> DEFINE d == ReadScanlines(cinfo, In, Have)
  <2>1. /\ pc = "row" /\ cinfo.scanline < cinfo.c.height
        /\ IF Failed(d) THEN Library(d, "row") /\ y' = y ELSE ReadRow(d)
    BY <1>6 DEF Row
  <2>2. CASE Failed(d)
    <3>1. Library(d, "row") /\ y' = y /\ Leads(d, "row")
      BY <2>1, <2>2 DEF Leads
    <3> QED
      BY <2>1, <3>1, LibraryLeads
  <2>3. CASE ~Failed(d)
    BY <2>1, <2>3, RowLeads
  <2> QED
    BY <2>2, <2>3
<1>7. CASE Rows
  <2>1. /\ pc = "row" /\ pc' = "finish" /\ past' = past /\ cinfo' = cinfo /\ rgb' = rgb
        /\ img' = img /\ y' = y /\ fault' = fault /\ In' = In
    BY <1>7 DEF Rows, In, Picture
  <2>2. rgb' # NULL => Sized'
    BY <2>1 DEF CallsInv, Sized, NULL
  <2>3. fault' # "written outside"
    BY <2>1 DEF CallsInv
  <2> QED
    BY <2>1, <2>2, <2>3 DEF CallsInv, WritesInside, Calling
<1>8. CASE Finish
  BY <1>8, FinishLeads
<1>9. CASE DestroyDecompress
  <2>1. /\ pc \in {"destroy", "error"} /\ pc' = "copy" /\ past' = past /\ rgb' = rgb
        /\ img' = img /\ y' = y /\ fault' = fault
    BY <1>9 DEF DestroyDecompress
  <2>2. rgb' # NULL => Sized'
    BY <2>1 DEF CallsInv, Sized, NULL
  <2>3. fault' # "written outside"
    BY <2>1 DEF CallsInv
  <2> QED
    BY <2>1, <2>2, <2>3 DEF CallsInv, WritesInside, Calling
<1>10. CASE Copy
  <2>1. /\ pc = "copy" /\ pc' \in {"idle", "undefined"} /\ past' = past /\ rgb' = rgb
        /\ img' = img /\ y' = 0
        /\ fault' = fault \/ fault' = "read from NULL"
    BY <1>10 DEF Copy
  <2>2. rgb' # NULL => Sized'
    BY <2>1 DEF CallsInv, Sized, NULL
  <2>3. fault' # "written outside"
    BY <2>1 DEF CallsInv
  <2> QED
    BY <2>1, <2>2, <2>3 DEF CallsInv, WritesInside, Calling
<1> QED
  BY <1>1, <1>2, <1>3, <1>4, <1>5, <1>6, <1>7, <1>8, <1>9, <1>10 DEF Decode

LEMMA CallsInvNext == CallsInv /\ [Next]_vars => CallsInv'
<1> SUFFICES ASSUME CallsInv, [Next]_vars PROVE CallsInv'
  OBVIOUS
<1>1. ASSUME NEW p \in DOMAIN Pictures, PixelToBmp(p)
      PROVE  CallsInv'
  <2>1. /\ pc = "idle" /\ pc' = "create" /\ past' = Append(past, p) /\ rgb' = rgb
        /\ img' = img /\ y' = y /\ fault' = fault
    BY <1>1 DEF PixelToBmp
  <2>2. past' \in Seq(DOMAIN Pictures) /\ past' # <<>>
    <3> DEFINE S == DOMAIN Pictures
    <3>1. past \in Seq(S) /\ p \in S
      BY DEF CallsInv
    <3> HIDE DEF S
    <3>2. Append(past, p) \in Seq(S) /\ Append(past, p) # <<>>
      BY <3>1
    <3> QED
      BY <2>1, <3>2 DEF S
  <2>3. rgb' # NULL => Sized'
    BY <2>1 DEF CallsInv, Sized, NULL
  <2>4. fault' # "written outside"
    BY <2>1 DEF CallsInv
  <2> QED
    BY <2>1, <2>2, <2>3, <2>4 DEF CallsInv, WritesInside, Calling
<1>2. CASE Decode
  BY <1>2, DecodeLeads
<1>3. CASE OutOfMemory
  <2>1. /\ pc \in Allocating /\ pc' = "error" /\ past' = past /\ rgb' = rgb
        /\ img' = img /\ y' = y /\ fault' = fault
    BY <1>3 DEF OutOfMemory
  <2>2. rgb' # NULL => Sized'
    BY <2>1 DEF CallsInv, Sized, NULL
  <2>3. fault' # "written outside"
    BY <2>1 DEF CallsInv, Allocating
  <2> QED
    BY <2>1, <2>2, <2>3 DEF CallsInv, WritesInside, Calling, Allocating
<1>4. CASE FreeCameraMemory
  <2>1. /\ pc = "idle" /\ pc' = pc /\ past' = past /\ rgb' = NULL /\ y' = y /\ fault' = fault
    BY <1>4 DEF FreeCameraMemory
  <2>2. fault' # "written outside"
    BY <2>1 DEF CallsInv
  <2> QED
    BY <2>1, <2>2 DEF CallsInv, WritesInside, Calling, NULL
<1>5. CASE UNCHANGED vars
  <2>1. /\ pc' = pc /\ past' = past /\ cinfo' = cinfo /\ rgb' = rgb /\ img' = img /\ y' = y
        /\ fault' = fault /\ In' = In
    BY <1>5 DEF vars, In, Picture
  <2> QED
    BY <2>1 DEF CallsInv, WritesInside, Sized, NULL
<1> QED
  BY <1>1, <1>2, <1>3, <1>4, <1>5 DEF Next

\* Of a round that has made progress, less is left.
LEMMA LessIsLeft ==
  ASSUME NEW d, Core(d, In), Core(cinfo, In), Progress(cinfo, d, In)
  PROVE  Less(Left(d), Left(cinfo))
<1>1. Left(d) = <<Rest(d, In), RowsLeft(d)>> /\ Left(cinfo) = <<Rest(cinfo, In), RowsLeft(cinfo)>>
  BY DEF Left, Rest, Weight, RowsLeft, Have
<1>2. CASE Rest(d, In) < Rest(cinfo, In)
  <2>1. 1 \in DOMAIN Left(d) /\ Left(d)[1] < Left(cinfo)[1]
    BY <1>1, <1>2
  <2>2. \A j \in 1 .. 1 - 1 : Left(d)[j] = Left(cinfo)[j]
    OBVIOUS
  <2> QED
    BY <2>1, <2>2 DEF Less
<1>3. CASE Rest(d, In) = Rest(cinfo, In) /\ RowsLeft(d) < RowsLeft(cinfo)
  <2>1. 2 \in DOMAIN Left(d) /\ Left(d)[2] < Left(cinfo)[2]
    BY <1>1, <1>3
  <2>2. \A j \in 1 .. 2 - 1 : Left(d)[j] = Left(cinfo)[j]
    BY <1>1, <1>3
  <2> QED
    BY <2>1, <2>2 DEF Less
<1> QED
  BY <1>2, <1>3 DEF Progress

LEMMA CallsInvReturns == CallsInv => CallsReturn
<1> SUFFICES ASSUME CallsInv PROVE CallsReturn
  OBVIOUS
<1>1. ASSUME pc \in {"header", "start", "finish"}
      PROVE  Held(cinfo, In) /\ Formed(In)
  BY <1>1, InIsFormed DEF CallsInv, Calling
<1>2. ASSUME NEW d, Held(cinfo, In),
             \/ Failed(d) \/ d.ret = "ok"
             \/ /\ Held(d, In) /\ d.ret \in {"done", "suspended", "ok"}
                /\ d.ret = "done" => Progress(cinfo, d, In)
      PROVE  UsesUp(d, {"ok", "suspended"})
  BY <1>2, LessIsLeft DEF UsesUp, Held
<1>3. pc = "header" => UsesUp(ReadHeader(cinfo, In, Have), {"ok", "suspended"})
  BY <1>1, <1>2, HeaderRead DEF Have
<1>4. pc = "start" => UsesUp(StartDecompress(cinfo, In, Have), {"ok", "suspended"})
  BY <1>1, <1>2, DecompressStarted DEF Have, Begun
<1>5. pc = "finish" => UsesUp(FinishDecompress(cinfo, In, Have), {"ok", "suspended"})
  BY <1>1, <1>2, DecompressFinished DEF Have
<1> QED
  BY <1>3, <1>4, <1>5 DEF CallsReturn

\* CallsInv is an invariant of native decoding, whatever units the frames hold.
THEOREM CallsInvariant == Spec => []CallsInv
<1>1. Init => CallsInv
  BY CallsInvInit
<1>2. CallsInv /\ [Next]_vars => CallsInv'
  BY CallsInvNext
<1> QED
  BY <1>1, <1>2, PTL DEF Spec

\* The loops in jpeg_read_header, jpeg_start_decompress and jpeg_finish_decompress
\* never go round in place: each round that is followed by another has used up
\* units of the frame, a marker that was found, or one of the rows of the scan,
\* whatever the frame holds, wherever it is cut off and whatever memory fails.
THEOREM LoopsReturn == Spec => []CallsReturn
<1>1. CallsInv => CallsReturn
  BY CallsInvReturns
<1> QED
  BY <1>1, CallsInvariant, PTL

\* processimage writes outside of rgb only with a picture of more rows than the
\* buffer, or after a round of its loop over rows that has brought none: for any
\* frames and bitmaps, and any number of them.
THEOREM WrittenInside == Spec => []WritesInside
<1>1. CallsInv => WritesInside
  BY DEF CallsInv
<1> QED
  BY <1>1, CallsInvariant, PTL
=============================================================================
