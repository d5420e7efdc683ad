---------------------------- MODULE MCJpegLibrary ----------------------------
(***************************************************************************)
(* The native decoder with the pictures of MCImageProc, and the parts of   *)
(* the JPEG library that work on blocks, each on jobs of its own: one part *)
(* at work in a behaviour, the others at rest.                             *)
(***************************************************************************)
EXTENDS MCImageProc, DctBlock, CoefScans, Transupp

VARIABLE part
libraryVars == <<vars, blockVars, scanVars, turnVars, part>>

-----------------------------------------------------------------------------
(* Blocks: at every size that has its own transform, but for the four whose *)
(* forward transform weighs wrongly (MCScaledDct).                          *)
Sizes == {<<n, n>> : n \in 1 .. 16} \cup {<<2 * n, n>> : n \in 1 .. 8}
           \cup {<<n, 2 * n>> : n \in 1 .. 8}
WrongSizes == {<<12, 12>>, <<12, 6>>, <<14, 14>>, <<14, 7>>}
MCBlockScales == Sizes \ WrongSizes
MCLevels == {11}
MCQuantTable == [v \in 1 .. BLOCK |-> [u \in 1 .. BLOCK |-> 10 + v + 2 * u]]

-----------------------------------------------------------------------------
(* Scans: pictures of a few MCUs, their coefficients by place in the        *)
(* zigzag order.                                                            *)
At(k, x) == [i \in {k} |-> x]
CoefBlock(n, f) ==
  [p \in 0 .. 63 |-> IF \E k \in DOMAIN f : natural_order(n, k) = p
                     THEN f[CHOOSE k \in DOMAIN f : natural_order(n, k) = p] ELSE 0]
C(f) == CoefBlock(8, f)
A1 == C(At(0, 37) @@ At(1, -5) @@ At(20, 3) @@ At(63, 1))
A2 == C(At(0, 5) @@ At(2, 1) @@ At(40, -1))
A3 == C(At(0, -9))
B1 == C(At(0, -6) @@ At(1, 6) @@ At(2, 3) @@ At(3, -1) @@ At(5, -7) @@ At(30, 1) @@ At(31, -2))
B2 == C(At(0, 7) @@ At(1, 4) @@ At(3, 2))
B3 == C(At(0, 1) @@ At(1, -3) @@ At(4, 1) @@ At(6, 5))
Ramp(n) == CoefBlock(n, [k \in 0 .. n * n - 1 |-> k + 1])
Full == [p \in 0 .. 63 |-> IF p = 0 THEN 0 ELSE 2 + (p % 2)]

\* Blocks that are not modelled, by the symbols they count for: none, or so
\* many of some that codes grow longer than 16 bits.
NoOthers == [t \in {"dc", "ac"} |-> EmptyBag]
Fib[i \in 0 .. 30] == IF i < 2 THEN 1 ELSE Fib[i - 1] + Fib[i - 2]
ManyOthers ==
  [dc |-> [s \in 0 .. 10 |-> Fib[s + 1]],
   ac |-> [s \in {16 * r + b : r \in 4 .. 8, b \in 1 .. 5} |->
             Fib[(s \div 16 - 4) * 5 + (s % 16) - 1]]]

Table(tbl, v, h, needed) == [tbl |-> tbl, v |-> v, h |-> h, needed |-> needed]
Whole8 == Table(0, 8, 8, TRUE)
Scan(comps, ss, se, ah, al) == [comps |-> comps, Ss |-> ss, Se |-> se, Ah |-> ah, Al |-> al]
Coding(n, progressive, comps, blocks, scans, interval, others) ==
  [block_size |-> n, progressive |-> progressive, comps |-> comps, blocks |-> blocks,
   scans |-> scans, interval |-> interval, others |-> others, arith |-> FALSE,
   cond |-> <<>>]
\* The same by arithmetic coding, with the conditioning of tables 0 and 1.
Cond(l, u, k) == [L |-> l, U |-> u, K |-> k]
ByArith(coding) ==
  [coding EXCEPT !.arith = TRUE, !.cond = [t \in {0, 1} |-> IF t = 0 THEN Cond(0, 1, 5)
                                                           ELSE Cond(1, 3, 1)]]
OneBand ==
  << Scan(<<1>>, 0, 0, 0, 1), Scan(<<1>>, 1, 5, 0, 2), Scan(<<1>>, 6, 63, 0, 2),
     Scan(<<1>>, 1, 63, 2, 1), Scan(<<1>>, 0, 0, 1, 0), Scan(<<1>>, 1, 63, 1, 0) >>
TwoComponents ==
  << Scan(<<1, 2>>, 0, 0, 0, 1), Scan(<<2>>, 1, 63, 0, 1), Scan(<<1>>, 1, 63, 0, 1),
     Scan(<<1, 2>>, 0, 0, 1, 0), Scan(<<1>>, 1, 63, 1, 0), Scan(<<2>>, 1, 63, 1, 0) >>
\* Blocks whose bytes have carries over FF bytes, in the middle and at the end, and
\* zeroes that are kept back.
Carries(p, q) ==
  << <<C(At(0, 50 * p - 500) @@ At(1, q - 100))>>,
     <<C(At(1, 3 * q - 300) @@ At(2, p - 10))>> >>
OneScan == << Scan(<<1>>, 0, 63, 0, 0) >>
ArithJobs ==
  { ByArith(Coding(8, FALSE, << Whole8 >>, Carries(j[1], j[2]), OneScan, 0, NoOthers))
    : j \in {<<4, 194>>, <<7, 123>>, <<2, 11>>} }
  \cup
  { ByArith(Coding(8, FALSE, << Whole8, Table(1, 8, 8, TRUE) >>, << <<A2, B2>>, <<A3, B3>> >>,
                   << Scan(<<1, 2>>, 0, 63, 0, 0) >>, 1, NoOthers)) }
  \cup
  { ByArith(Coding(n, FALSE, << Table(1, n, n, TRUE) >>, << <<Ramp(n)>> >>,
                   << Scan(<<1>>, 0, n * n - 1, 0, 0) >>, 0, NoOthers)) : n \in {1, 3} }
  \cup
  { ByArith(Coding(8, TRUE, << Table(1, 8, 8, TRUE) >>, << <<B1>>, <<B2>>, <<B3>> >>,
                   OneBand, 2, NoOthers)) }
  \cup
  { ByArith(Coding(8, TRUE, << Whole8, Table(1, 8, 8, TRUE) >>,
                   << <<B1, A1>>, <<A3, B2>>, <<A2, B3>> >>, TwoComponents, i, NoOthers))
    : i \in {0, 1} }
MCCoefJobs ==
  { Coding(8, FALSE, << Whole8, Table(1, 8, 8, TRUE) >>,
           << <<A1, A2>>, <<A3, A1>>, <<A2, A2>> >>, << Scan(<<1, 2>>, 0, 63, 0, 0) >>, i, o)
    : i \in {0, 2}, o \in {NoOthers, ManyOthers} }
  \cup
  { Coding(8, FALSE, << Table(0, 2, 1, TRUE), Table(0, 4, 8, FALSE) >>,
           << <<B1, B2>>, <<B3, B1>> >>,
           << Scan(<<1>>, 0, 63, 0, 0), Scan(<<2>>, 0, 63, 0, 0) >>, 1, NoOthers) }
  \cup
  { Coding(n, FALSE, << Table(0, v, n, TRUE) >>, << <<Ramp(n)>>, <<Ramp(n)>> >>,
           << Scan(<<1>>, 0, n * n - 1, 0, 0) >>, 0, NoOthers)
    : n \in 2 .. 8, v \in {1, 2} }
  \cup
  { Coding(8, TRUE, << Whole8 >>, << <<B1>>, <<B2>>, <<A3>>, <<B3>> >>, OneBand, 2, o)
    : o \in {NoOthers, ManyOthers} }
  \cup
  { Coding(8, TRUE, << Whole8, Whole8 >>, << <<B1, A1>>, <<A3, B2>>, <<A2, B3>> >>,
           TwoComponents, i, NoOthers) : i \in {0, 1} }
  \cup
  { Coding(8, TRUE, << Whole8 >>, << <<Full>>, <<Full>> >>,
           << Scan(<<1>>, 1, 63, 0, 1), Scan(<<1>>, 1, 63, 1, 0) >>, 0, NoOthers) }
  \cup ArithJobs

-----------------------------------------------------------------------------
(* Turns: pictures of whole and of partial iMCUs, no two coefficients alike.*)
PaddedRows(h, factors, c) ==
  Padded(h, factors[c][2], Max({factors[d][2] : d \in DOMAIN factors}))
PaddedColumns(w, factors, c) ==
  Padded(w, factors[c][1], Max({factors[d][1] : d \in DOMAIN factors}))
Frames(w, h, factors, space) ==
  [width |-> w, height |-> h, space |-> space,
   comps |-> [c \in DOMAIN factors |->
     [h |-> factors[c][1], v |-> factors[c][2],
      quant |-> [p \in Coefs |-> 1 + p[1] + 2 * p[2]],
      blocks |-> [at \in (0 .. PaddedRows(h, factors, c) - 1)
                           \X (0 .. PaddedColumns(w, factors, c) - 1) |->
        [p \in Coefs |-> 1000 * c + 100 * at[1] + 10 * at[2] + 2 * p[1] + p[2] + 1]]]]]
TurnedPictures ==
  { Frames(5, 7, << <<2, 1>>, <<1, 1>>, <<1, 1>> >>, "YCbCr"),
    Frames(9, 4, << <<2, 2>>, <<1, 2>> >>, "RGB"),
    Frames(4, 6, << <<1, 1>> >>, "GRAYSCALE"),
    Frames(3, 3, << <<2, 2>>, <<1, 1>>, <<1, 1>> >>, "YCbCr"),
    Frames(8, 8, << <<1, 2>>, <<1, 1>>, <<1, 1>> >>, "YCbCr") }
Region(ss, s, os, o) == [size_set |-> ss, size |-> s, offset_set |-> os, offset |-> o]
Crops ==
  { NoCrop,
    [asked |-> TRUE, x |-> Region("UNSET", 0, "POS", 3), y |-> Region("POS", 2, "POS", 1)],
    [asked |-> TRUE, x |-> Region("POS", 3, "NEG", 1), y |-> Region("FORCE", 2, "NEG", 0)],
    [asked |-> TRUE, x |-> Region("POS", 2, "POS", 2), y |-> Region("UNSET", 2, "POS", 2)] }
Asks ==
  [transform : {"NONE", "FLIP_H", "FLIP_V"} \cup Turning \cup {"ROT_180"},
   perfect : BOOLEAN, trim : BOOLEAN, force_grayscale : BOOLEAN, crop : Crops]
MCTurnJobs == [picture : TurnedPictures, ask : Asks]

-----------------------------------------------------------------------------
BlockRests == block = NotYet /\ drawn = NotYet /\ coded = NotYet
ScanRests ==
  /\ pass = "rest" /\ enc = AtRest /\ dec = NoDecoder
  /\ job = <<>> /\ scan = 0 /\ mcu = 0 /\ huff = <<>> /\ data = <<>>
  /\ coefs = <<>> /\ coef_bits = <<>> /\ damaged = {} /\ faults = 0
TurnRests == turn = "rest" /\ picture = <<>> /\ info = <<>> /\ turned = NotYetTurned

MCInit ==
  /\ Init
  /\ \/ part = "pictures" /\ BlockRests /\ ScanRests /\ TurnRests
     \/ part = "block" /\ BlockInit /\ ScanRests /\ TurnRests
     \/ part = "scans" /\ BlockRests /\ ScanInit /\ TurnRests
     \/ part = "turn" /\ BlockRests /\ ScanRests /\ TurnInit
MCNext ==
  \/ part = "pictures" /\ Next /\ UNCHANGED <<blockVars, scanVars, turnVars, part>>
  \/ part = "block" /\ BlockNext /\ UNCHANGED <<vars, scanVars, turnVars, part>>
  \/ part = "scans" /\ ScanNext /\ UNCHANGED <<vars, blockVars, turnVars, part>>
  \/ part = "turn" /\ TurnNext /\ UNCHANGED <<vars, blockVars, scanVars, part>>
MCSpec == MCInit /\ [][MCNext]_libraryVars
=============================================================================
