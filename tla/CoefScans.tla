------------------------------- MODULE CoefScans -------------------------------
(***************************************************************************)
(* The coefficients of a small picture through the entropy coder, scan by  *)
(* scan: for Huffman codes each scan is counted and its tables are made;   *)
(* it is written, its bytes reach the decoder and are read into the        *)
(* decoder's coefficients (as jctrans.c, jdtrans.c and consume_data of     *)
(* jdcoefct.c do it; tables travel in DHT markers, the conditioning of the *)
(* arithmetic coder in DAC markers).  On the way bytes of an interval may  *)
(* be lost, or the source may give out in the middle of an MCU.            *)
(***************************************************************************)
EXTENDS HuffmanEncoder, HuffmanDecoder, ArithEncoder, ArithDecoder

CONSTANTS CoefJobs,     \* pictures: components, blocks, scans, restart interval
          MaxFaults     \* bound: MCUs begun twice and intervals damaged

VARIABLES job,
          scan,        \* the scan being coded
          pass,        \* what is done with it
          mcu,         \* the next MCU
          enc,         \* the encoder
          huff,        \* the tables, <<kind, number>> to JHUFF_TBL
          data,        \* the bytes of the scan, by restart interval
          dec,         \* the decoder
          coefs,       \* the decoder's coefficients
          coef_bits,   \* how exact they are: cinfo->coef_bits
          damaged,     \* MCUs of which data were lost
          faults

scanVars == <<job, scan, pass, mcu, enc, huff, data, dec, coefs, coef_bits, damaged, faults>>

Comps == DOMAIN job.comps
Mcus == DOMAIN job.blocks
Places == 0 .. job.block_size * job.block_size - 1
sc == [comps |-> job.scans[scan].comps, Ss |-> job.scans[scan].Ss, Se |-> job.scans[scan].Se,
       Ah |-> job.scans[scan].Ah, Al |-> job.scans[scan].Al, progressive |-> job.progressive,
       interval |-> job.interval, block_size |-> job.block_size, cond |-> job.cond,
       tbl |-> [c \in Comps |-> job.comps[c].tbl],
       limit |-> [c \in Comps |-> coef_limit(job.block_size, job.comps[c])]]
InScan == {sc.comps[i] : i \in DOMAIN sc.comps}

\* The tables a scan uses.
DcTables == IF sc.Ss = 0 /\ sc.Ah = 0 THEN {<<"dc", sc.tbl[c]>> : c \in InScan} ELSE {}
AcTables == IF sc.Se > 0 THEN {<<"ac", sc.tbl[c]>> : c \in InScan} ELSE {}
TablesUsed == DcTables \cup AcTables

NoBlocks == [m \in Mcus |-> [c \in Comps |-> [p \in 0 .. 63 |-> 0]]]
AtRest == Encoder(FALSE, <<>>, {}, 0)
NoDecoder == [tbls |-> <<>>]

ScanInit ==
  /\ job \in CoefJobs
  /\ scan = 1
  /\ pass = "begin"
  /\ mcu = 1
  /\ enc = AtRest
  /\ huff = [t \in {} |-> 0]
  /\ data = <<>>
  /\ dec = NoDecoder
  /\ coefs = NoBlocks
  /\ coef_bits = [c \in Comps |-> [k \in 0 .. 63 |-> -1]]
  /\ damaged = {}
  /\ faults = 0

\* prepare_for_pass (jcmaster.c): refining DC values needs no table and is not
\* counted; the arithmetic coder never counts (optimize_coding is not set).
StartGather ==
  /\ pass = "begin"
  /\ IF job.arith \/ (sc.Ss = 0 /\ sc.Ah > 0)
     THEN pass' = "tables" /\ UNCHANGED enc
     ELSE pass' = "gather" /\ enc' = Encoder(TRUE, <<>>, InScan, sc.interval)
  /\ mcu' = 1
  /\ UNCHANGED <<job, scan, huff, data, dec, coefs, coef_bits, damaged, faults>>

EncodeMcu ==
  /\ pass \in {"gather", "output"}
  /\ mcu \in Mcus
  /\ enc' = IF job.arith THEN arith_encode_mcu(enc, sc, job.blocks[mcu])
            ELSE encode_mcu(enc, sc, job.blocks[mcu])
  /\ mcu' = mcu + 1
  /\ UNCHANGED <<job, scan, pass, huff, data, dec, coefs, coef_bits, damaged, faults>>

\* finish_pass_gather.  The blocks of the picture that are not modelled count too.
FinishGather ==
  /\ pass = "gather"
  /\ mcu \notin Mcus
  /\ LET e == finish_pass(enc, sc)
     IN  huff' = [t \in DOMAIN huff \cup TablesUsed |->
                    IF t \in TablesUsed
                    THEN jpeg_gen_optimal_table(Frequencies(e, t) (+) job.others[t[1]])
                    ELSE huff[t]]
  /\ pass' = "tables"
  /\ UNCHANGED <<job, scan, mcu, enc, data, dec, coefs, coef_bits, damaged, faults>>

StartOutput ==
  /\ pass = "tables"
  /\ enc' = IF job.arith THEN ArithEncoderOf(sc)
            ELSE Encoder(FALSE, [t \in TablesUsed |-> jpeg_make_c_derived_tbl(huff[t])],
                         InScan, sc.interval)
  /\ pass' = "output"
  /\ mcu' = 1
  /\ UNCHANGED <<job, scan, huff, data, dec, coefs, coef_bits, damaged, faults>>

FinishOutput ==
  /\ pass = "output"
  /\ mcu \notin Mcus
  /\ IF job.arith THEN data' = ArithFinish(enc).data /\ enc' = AtRest
     ELSE LET e == finish_pass(enc, sc)
          IN  data' = e.data /\ enc' = [AtRest EXCEPT !.error = e.error]
  /\ pass' = "transit"
  /\ UNCHANGED <<job, scan, mcu, huff, dec, coefs, coef_bits, damaged, faults>>

\* Bytes of an interval are lost on the way, from one of them on.
IntervalOf(m) == IF sc.interval = 0 THEN 1 ELSE 1 + (m - 1) \div sc.interval
LoseData ==
  /\ pass = "transit"
  /\ faults < MaxFaults
  /\ \E i \in DOMAIN data :
       /\ \E j \in 0 .. Len(data[i]) - 1 : data' = [data EXCEPT ![i] = SubSeq(@, 1, j)]
       /\ damaged' = damaged \cup {m \in Mcus : IntervalOf(m) = i}
  /\ faults' = faults + 1
  /\ UNCHANGED <<job, scan, pass, mcu, enc, huff, dec, coefs, coef_bits>>

\* start_pass_huff_decoder, or start_pass of the arithmetic decoder
NewPrecision(c, k) ==
  IF job.progressive /\ c \in InScan /\ k \in sc.Ss .. sc.Se THEN sc.Al ELSE coef_bits[c][k]
HuffmanDecoderOf ==
  [tbls |-> [t \in TablesUsed |-> jpeg_make_d_derived_tbl(huff[t])], interval |-> 1,
   bits |-> ToBits(DataBytes(data[1])), at |-> 0, insufficient_data |-> FALSE,
   last_dc_val |-> [c \in InScan |-> 0], EOBRUN |-> 0, restarts_to_go |-> sc.interval]
StartInput ==
  /\ pass = "transit"
  /\ dec' = IF job.arith THEN ArithDecoderOf(sc, 1, data[1]) ELSE HuffmanDecoderOf
  /\ coef_bits' = [c \in Comps |-> [k \in 0 .. 63 |-> NewPrecision(c, k)]]
  /\ pass' = "input"
  /\ mcu' = 1
  /\ UNCHANGED <<job, scan, enc, huff, data, coefs, damaged, faults>>

\* process_restart: on to the data after the next marker.
process_restart(d) ==
  [d EXCEPT !.interval = @ + 1, !.bits = ToBits(DataBytes(data[d.interval + 1])), !.at = 0,
            !.insufficient_data = FALSE, !.last_dc_val = [c \in DOMAIN @ |-> 0],
            !.EOBRUN = 0, !.restarts_to_go = sc.interval]
Ready == IF sc.interval > 0 /\ dec.restarts_to_go = 0 THEN process_restart(dec) ELSE dec
WorkingCopy(d, cut) ==
  [bits |-> d.bits, at |-> d.at, cut |-> cut, stop |-> FALSE,
   insufficient_data |-> d.insufficient_data, symbol |-> 0, value |-> 0,
   last_dc_val |-> d.last_dc_val, EOBRUN |-> d.EOBRUN, blocks |-> coefs[mcu],
   newnz_pos |-> {}]
Saved(d, w) ==
  [d EXCEPT !.at = w.at, !.insufficient_data = w.insufficient_data,
            !.last_dc_val = w.last_dc_val, !.EOBRUN = w.EOBRUN, !.restarts_to_go = @ - 1]

\* The whole MCU is read, or the source has no more data before it is.
Decoded(d, w) ==
  /\ coefs' = [coefs EXCEPT ![mcu] = w.blocks]
  /\ IF w.stop
     THEN dec' = d /\ faults' = faults + 1 /\ UNCHANGED mcu
     ELSE dec' = Saved(d, w) /\ mcu' = mcu + 1 /\ UNCHANGED faults
DecodeMcu ==
  /\ pass = "input" /\ ~ job.arith
  /\ mcu \in Mcus
  /\ \/ Decoded(Ready, DecodeData(WorkingCopy(Ready, NoCut), sc, dec.tbls))
     \/ /\ faults < MaxFaults
        /\ \E cut \in Ready.at .. Len(Ready.bits) - 1 :
             LET w == DecodeData(WorkingCopy(Ready, cut), sc, dec.tbls)
             IN  w.stop /\ Decoded(Ready, w)
  /\ UNCHANGED <<job, scan, pass, enc, huff, data, coef_bits, damaged>>

\* The arithmetic decoder works on its state itself.  It cannot be suspended: a
\* source that gives out in an MCU is an error (JERR_CANT_SUSPEND), and the
\* decoder is given up.
ArithReady ==
  IF sc.interval > 0 /\ dec.restarts_to_go = 0
  THEN ArithDecoderOf(sc, dec.interval + 1, data[dec.interval + 1])
  ELSE dec
AfterArith(d) ==
  [d EXCEPT !.blocks = <<>>, !.bit = 0, !.st = 0, !.m = 0, !.v = 0,
            !.restarts_to_go = IF sc.interval = 0 THEN @ ELSE @ - 1]
ArithDecodeMcu ==
  /\ pass = "input" /\ job.arith
  /\ mcu \in Mcus
  /\ \E d \in {arith_decode_mcu([ArithReady EXCEPT !.blocks = coefs[mcu]], sc)} :
       \/ /\ coefs' = [coefs EXCEPT ![mcu] = d.blocks]
          /\ dec' = AfterArith(d)
          /\ mcu' = mcu + 1
          /\ UNCHANGED <<pass, faults>>
       \/ /\ faults < MaxFaults
          /\ ArithReady.at < d.at /\ ArithReady.at <= Len(d.bytes)
          /\ pass' = "failed"
          /\ faults' = faults + 1
          /\ UNCHANGED <<coefs, dec, mcu>>
  /\ UNCHANGED <<job, scan, enc, huff, data, coef_bits, damaged>>

FinishInput ==
  /\ pass = "input"
  /\ mcu \notin Mcus
  /\ scan' = scan + 1
  /\ pass' = IF scan < Len(job.scans) THEN "begin" ELSE "done"
  /\ dec' = NoDecoder
  /\ data' = <<>>
  /\ UNCHANGED <<job, mcu, enc, huff, coefs, coef_bits, damaged, faults>>

ScanNext ==
  StartGather \/ EncodeMcu \/ FinishGather \/ StartOutput \/ FinishOutput \/ LoseData
    \/ StartInput \/ DecodeMcu \/ ArithDecodeMcu \/ FinishInput
ScanSpec == ScanInit /\ [][ScanNext]_scanVars

-----------------------------------------------------------------------------
\* After every scan the decoder has, of each MCU whose data arrived, just what
\* the scans so far say of it: every coefficient to the bits that coef_bits
\* promises, and of a picture drawn smaller those of the corner that is drawn.
\* The two coders keep their runs, predictions and histories in step through
\* restarts, MCUs that are begun twice and intervals that are lost, whatever the
\* symbols' counts make of the tables; and the correction bits that are put off
\* fit into the encoder's buffer.
Precision(c, k) ==
  CASE job.progressive -> coef_bits[c][k]
    [] ~ job.progressive /\ (\E i \in 1 .. scan - 1, n \in Comps :
         n \in DOMAIN job.scans[i].comps /\ job.scans[i].comps[n] = c) -> 0
    [] OTHER -> -1
Promised(x, k, bits) ==
  CASE bits < 0 -> 0
    [] bits >= 0 /\ k = 0 -> (x \div 2^bits) * 2^bits
    [] OTHER -> Truncated(x, bits) * 2^bits
Drawn(c, place) ==
  job.progressive \/ job.arith \/
    /\ job.comps[c].needed
    /\ place \div 8 < Clamped(job.block_size, job.comps[c].v)
    /\ place % 8 < Clamped(job.block_size, job.comps[c].h)
ByHuffman(e) == "bit_buffer" \in DOMAIN e
ScansAddUp ==
  /\ ByHuffman(enc) => ~ enc.error /\ Len(enc.bit_buffer) <= MAX_CORR_BITS
  /\ pass \in {"begin", "done"} =>
       \A m \in Mcus \ damaged, c \in Comps, k \in Places :
         LET place == natural_order(job.block_size, k)
         IN  Drawn(c, place) =>
               coefs[m][c][place] = Promised(job.blocks[m][c][place], k, Precision(c, k))
=============================================================================
