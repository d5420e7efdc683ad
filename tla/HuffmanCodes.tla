----------------------------- MODULE HuffmanCodes -----------------------------
(***************************************************************************)
(* What the Huffman encoder and decoder of the JPEG library share: bits    *)
(* and the bytes they travel in, the order of a block's coefficients       *)
(* (jutils.c), and code tables: made from the counts of symbols (jchuff.c) *)
(* and turned into what each side looks up (jchuff.c, jdhuff.c).           *)
(***************************************************************************)
EXTENDS Integers, Sequences, FiniteSets, Bags, SequencesExt, FiniteSetsExt

\* The n low bits of a number, the highest first; of a negative one too.
BitsOf(x, n) == [i \in 1 .. n |-> (x \div 2^(n - i)) % 2]
RECURSIVE NumberFrom(_, _, _)
NumberFrom(bits, i, x) ==
  IF i > Len(bits) THEN x ELSE NumberFrom(bits, i + 1, 2 * x + bits[i])
NBits(x) == CHOOSE n \in 0 .. 16 : x < 2^n /\ (n > 0 => x >= 2^(n - 1))
Magnitude(x) == IF x < 0 THEN -x ELSE x

\* flush_bits: ones fill the last byte.  A byte of ones is followed by a zero
\* (emit_bits), which jpeg_fill_bit_buffer takes away again; one that a marker
\* follows is a fill byte.
Filled(bits) == SubSeq(bits \o BitsOf(127, 7), 1, 8 * ((Len(bits) + 7) \div 8))
Stuffed(byte) == IF byte = 255 THEN <<255, 0>> ELSE <<byte>>
ToBytes(bits) ==
  FlattenSeq([i \in 1 .. Len(bits) \div 8 |->
                Stuffed(NumberFrom(SubSeq(bits, 8 * i - 7, 8 * i), 1, 0))])
IsData(bytes, i) ==
  IF i > 1 /\ bytes[i - 1] = 255 THEN FALSE
  ELSE bytes[i] = 255 => i < Len(bytes)
DataBytes(bytes) ==
  SelectSeq([i \in DOMAIN bytes |-> IF IsData(bytes, i) THEN bytes[i] ELSE -1],
            LAMBDA byte : byte >= 0)
ToBits(bytes) == FlattenSeq([i \in DOMAIN bytes |-> BitsOf(bytes[i], 8)])

-----------------------------------------------------------------------------
(* The places of a block's coefficients in the order they are coded in.     *)
jpeg_natural_order ==
  << 0, 1, 8, 16, 9, 2, 3, 10, 17, 24, 32, 25, 18, 11, 4, 5, 12, 19, 26, 33, 40, 48,
     41, 34, 27, 20, 13, 6, 7, 14, 21, 28, 35, 42, 49, 56, 57, 50, 43, 36, 29, 22, 15,
     23, 30, 37, 44, 51, 58, 59, 52, 45, 38, 31, 39, 46, 53, 60, 61, 54, 47, 55, 62, 63 >>
jpeg_natural_order7 ==
  << 0, 1, 8, 16, 9, 2, 3, 10, 17, 24, 32, 25, 18, 11, 4, 5, 12, 19, 26, 33, 40, 48,
     41, 34, 27, 20, 13, 6, 14, 21, 28, 35, 42, 49, 50, 43, 36, 29, 22, 30, 37, 44, 51,
     52, 45, 38, 46, 53, 54 >>
jpeg_natural_order6 ==
  << 0, 1, 8, 16, 9, 2, 3, 10, 17, 24, 32, 25, 18, 11, 4, 5, 12, 19, 26, 33, 40, 41,
     34, 27, 20, 13, 21, 28, 35, 42, 43, 36, 29, 37, 44, 45 >>
jpeg_natural_order5 ==
  << 0, 1, 8, 16, 9, 2, 3, 10, 17, 24, 32, 25, 18, 11, 4, 12, 19, 26, 33, 34, 27, 20,
     28, 35, 36 >>
jpeg_natural_order4 == << 0, 1, 8, 16, 9, 2, 3, 10, 17, 24, 25, 18, 11, 19, 26, 27 >>
jpeg_natural_order3 == << 0, 1, 8, 16, 9, 2, 10, 17, 18 >>
jpeg_natural_order2 == << 0, 1, 8, 9 >>

\* natural_order of a block size; past its end each has 16 entries more, for
\* runs of damaged data.
OrderOf(block_size) ==
  CASE block_size = 2 -> jpeg_natural_order2
    [] block_size = 3 -> jpeg_natural_order3
    [] block_size = 4 -> jpeg_natural_order4
    [] block_size = 5 -> jpeg_natural_order5
    [] block_size = 6 -> jpeg_natural_order6
    [] block_size = 7 -> jpeg_natural_order7
    [] OTHER -> jpeg_natural_order
natural_order(block_size, k) ==
  IF k < Len(OrderOf(block_size)) THEN OrderOf(block_size)[k + 1] ELSE 63

-----------------------------------------------------------------------------
(* A JHUFF_TBL: how many codes there are of each length, and the symbols in *)
(* the order of their codes.                                                *)
MAX_CLEN == 32
ReservedCode == 256   \* keeps the code of all ones free

\* The two lightest trees, of equals those with the higher roots, are joined
\* until one is left; the codes of the symbols in both grow by a bit.
Lightest(trees) ==
  CHOOSE t \in trees : \A u \in trees :
    t.weight < u.weight \/ (t.weight = u.weight /\ t.root >= u.root)
Joined(c1, c2) ==
  [root |-> c1.root, weight |-> c1.weight + c2.weight,
   codes |-> {[symbol |-> c.symbol, size |-> c.size + 1] : c \in c1.codes \cup c2.codes}]
RECURSIVE CodesOf(_), JoinInto(_, _), JoinTwo(_, _, _)
CodesOf(trees) ==
  IF Cardinality(trees) = 1 THEN Lightest(trees).codes ELSE JoinInto(trees, Lightest(trees))
JoinInto(trees, c1) == JoinTwo(trees, c1, Lightest(trees \ {c1}))
JoinTwo(trees, c1, c2) == CodesOf((trees \ {c1, c2}) \cup {Joined(c1, c2)})

\* Codes longer than 16 bits are shortened: two of them move up together, one
\* to the place above and the other below a code of the next shorter length.
RECURSIVE Shortened(_, _)
Shortened(bits, i) ==
  CASE i = 16 -> bits
    [] i > 16 /\ bits[i] = 0 -> Shortened(bits, i - 1)
    [] OTHER ->
       Shortened([bits EXCEPT ![i] = @ - 2, ![i - 1] = @ + 1,
                    ![Max({j \in 1 .. i - 2 : bits[j] > 0}) + 1] = @ + 2,
                    ![Max({j \in 1 .. i - 2 : bits[j] > 0})] = @ - 1], i)
Longest(bits) == Max({l \in 1 .. 16 : bits[l] > 0})
WithoutReserved(bits) ==
  [l \in 1 .. 16 |-> IF l = Longest(bits) THEN bits[l] - 1 ELSE bits[l]]
Lengths(codes) == [l \in 1 .. MAX_CLEN |-> Cardinality({c \in codes : c.size = l})]
Before(codes, c) ==
  {d \in codes : d.size < c.size \/ (d.size = c.size /\ d.symbol < c.symbol)}
InOrder(codes) ==
  [p \in 1 .. Cardinality(codes) |->
     (CHOOSE c \in codes : Cardinality(Before(codes, c)) = p - 1).symbol]
TableOf(codes) ==
  [bits |-> WithoutReserved(Shortened(Lengths(codes), MAX_CLEN)),
   huffval |-> InOrder({c \in codes : c.symbol # ReservedCode})]
\* freq: the bag of a table's symbols.
jpeg_gen_optimal_table(freq) ==
  TableOf(CodesOf({[root |-> s, weight |-> CopiesIn(s, freq),
                    codes |-> {[symbol |-> s, size |-> 0]}] : s \in BagToSet(freq)}
                  \cup {[root |-> ReservedCode, weight |-> 1,
                         codes |-> {[symbol |-> ReservedCode, size |-> 0]}]}))

\* The size and the code of the p'th symbol of a table (both sides).
CodesUpTo(tbl, l) == SumFunctionOnSet(tbl.bits, 1 .. l)
HuffSize(tbl) == FlattenSeq([l \in 1 .. 16 |-> [i \in 1 .. tbl.bits[l] |-> l]])
HuffCode(huffsize) ==
  LET code[p \in DOMAIN huffsize] ==
        IF p = 1 THEN 0 ELSE (code[p - 1] + 1) * 2^(huffsize[p] - huffsize[p - 1])
  IN  code

\* jpeg_make_c_derived_tbl: each symbol's code.
EncoderTable(tbl, huffsize, huffcode) ==
  [s \in Range(tbl.huffval) |->
     LET p == CHOOSE q \in DOMAIN tbl.huffval : tbl.huffval[q] = s
     IN  BitsOf(huffcode[p], huffsize[p])]
jpeg_make_c_derived_tbl(tbl) == EncoderTable(tbl, HuffSize(tbl), HuffCode(HuffSize(tbl)))

\* jpeg_make_d_derived_tbl: for each length its highest code and where its
\* symbols are.
DecoderTable(tbl, huffcode) ==
  [huffval |-> tbl.huffval,
   maxcode |-> [l \in 1 .. 16 |-> IF tbl.bits[l] = 0 THEN -1 ELSE huffcode[CodesUpTo(tbl, l)]],
   valoffset |-> [l \in 1 .. 16 |->
                    IF tbl.bits[l] = 0 THEN 0
                    ELSE CodesUpTo(tbl, l - 1) - huffcode[CodesUpTo(tbl, l - 1) + 1]]]
jpeg_make_d_derived_tbl(tbl) == DecoderTable(tbl, HuffCode(HuffSize(tbl)))
=============================================================================
