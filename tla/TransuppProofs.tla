--------------------------- MODULE TransuppProofs ---------------------------
(***************************************************************************)
(* Proofs about Transupp, for pictures of any size, components of any      *)
(* sampling factors, and any request.                                      *)
(***************************************************************************)
EXTENDS Transupp, TLAPS

-----------------------------------------------------------------------------
(* Inside a block. *)

LEMMA EdgeIsTwo == Edge = 2 /\ Coefs = (0..1) \X (0..1)
  BY DEF Edge, Coefs

\* What a block is drawn as, coefficient by coefficient.
LEMMA WavesOfBlock ==
  ASSUME NEW q \in [Coefs -> Int], NEW b \in [Coefs -> Int],
         NEW i \in 0..1, NEW j \in 0..1
  PROVE  /\ CoefWave(q, b, <<0, 0>>, i, j) = q[<<0, 0>>] * b[<<0, 0>>]
         /\ CoefWave(q, b, <<0, 1>>, i, j)
              = IF j = 1 THEN -(q[<<0, 1>>] * b[<<0, 1>>]) ELSE q[<<0, 1>>] * b[<<0, 1>>]
         /\ CoefWave(q, b, <<1, 0>>, i, j)
              = IF i = 1 THEN -(q[<<1, 0>>] * b[<<1, 0>>]) ELSE q[<<1, 0>>] * b[<<1, 0>>]
         /\ CoefWave(q, b, <<1, 1>>, i, j)
              = IF i # j THEN -(q[<<1, 1>>] * b[<<1, 1>>]) ELSE q[<<1, 1>>] * b[<<1, 1>>]
<1>1. \A p \in Coefs : q[p] \in Int /\ b[p] \in Int /\ q[p] * b[p] \in Int
  OBVIOUS
<1>2. /\ <<0, 0>> \in Coefs /\ <<0, 1>> \in Coefs
      /\ <<1, 0>> \in Coefs /\ <<1, 1>> \in Coefs
  BY EdgeIsTwo
<1>3. \A a \in Int : a * (1 * 1) = a /\ a * (1 * (-1)) = -a /\ a * ((-1) * 1) = -a /\ a * ((-1) * (-1)) = a
  OBVIOUS
<1>4. /\ Ripple(0, i) = 1 /\ Ripple(0, j) = 1
      /\ Ripple(1, i) = IF i = 1 THEN -1 ELSE 1
      /\ Ripple(1, j) = IF j = 1 THEN -1 ELSE 1
  BY DEF Ripple
<1> QED
  BY <1>1, <1>2, <1>3, <1>4 DEF CoefWave

Block == [Coefs -> Int]

\* The four coefficients of a block, weighted and with their signs.
LEMMA DrawnIs ==
  ASSUME NEW q \in Block, NEW b \in Block, NEW i \in 0..1, NEW j \in 0..1
  PROVE  LET w(r, c) == q[<<r, c>>] * b[<<r, c>>]
         IN  /\ \A r, c \in 0..1 : w(r, c) \in Int /\ b[<<r, c>>] \in Int /\ q[<<r, c>>] \in Int
             /\ BlockSample(q, b, i, j) = w(0, 0) + (IF j = 1 THEN -w(0, 1) ELSE w(0, 1))
                                    + (IF i = 1 THEN -w(1, 0) ELSE w(1, 0))
                                    + (IF i # j THEN -w(1, 1) ELSE w(1, 1))
<1>1. \A r, c \in 0..1 : <<r, c>> \in Coefs
  BY EdgeIsTwo
<1>2. \A p \in Coefs : q[p] \in Int /\ b[p] \in Int /\ q[p] * b[p] \in Int
  BY DEF Block
<1> QED
  BY <1>1, <1>2, WavesOfBlock DEF BlockSample, Block

\* A block mirrored in one direction, or transposed, is drawn as the block is, in
\* the mirrored or transposed places.
LEMMA DrawnFlippedH ==
  ASSUME NEW q \in Block, NEW b \in Block, NEW i \in 0..1, NEW j \in 0..1
  PROVE  FlippedH(b) \in Block /\ BlockSample(q, FlippedH(b), i, j) = BlockSample(q, b, i, 1 - j)
<1> DEFINE f == FlippedH(b)
<1>1. f \in Block
  BY EdgeIsTwo DEF FlippedH, Block
<1>2. /\ f[<<0, 0>>] = b[<<0, 0>>] /\ f[<<1, 0>>] = b[<<1, 0>>]
      /\ f[<<0, 1>>] = -b[<<0, 1>>] /\ f[<<1, 1>>] = -b[<<1, 1>>]
  BY EdgeIsTwo DEF FlippedH
<1> QED
  BY <1>1, <1>2, DrawnIs

LEMMA DrawnFlippedV ==
  ASSUME NEW q \in Block, NEW b \in Block, NEW i \in 0..1, NEW j \in 0..1
  PROVE  FlippedV(b) \in Block /\ BlockSample(q, FlippedV(b), i, j) = BlockSample(q, b, 1 - i, j)
<1> DEFINE f == FlippedV(b)
<1>1. f \in Block
  BY EdgeIsTwo DEF FlippedV, Block
<1>2. /\ f[<<0, 0>>] = b[<<0, 0>>] /\ f[<<0, 1>>] = b[<<0, 1>>]
      /\ f[<<1, 0>>] = -b[<<1, 0>>] /\ f[<<1, 1>>] = -b[<<1, 1>>]
  BY EdgeIsTwo DEF FlippedV
<1> QED
  BY <1>1, <1>2, DrawnIs

LEMMA DrawnTransposed ==
  ASSUME NEW q \in Block, NEW b \in Block, NEW i \in 0..1, NEW j \in 0..1
  PROVE  /\ Transposed(b) \in Block /\ Transposed(q) \in Block
         /\ BlockSample(Transposed(q), Transposed(b), i, j) = BlockSample(q, b, j, i)
<1> DEFINE s == Transposed(q)
           t == Transposed(b)
<1>1. s \in Block /\ t \in Block
  BY EdgeIsTwo DEF Transposed, Block
<1>2. \A r, c \in 0..1 : s[<<r, c>>] = q[<<c, r>>] /\ t[<<r, c>>] = b[<<c, r>>]
  BY EdgeIsTwo DEF Transposed
<1> QED
  BY <1>1, <1>2, DrawnIs

-----------------------------------------------------------------------------
(* Sampling factors. *)

LEMMA MaxOfFactors ==
  ASSUME NEW S, S # {}, S \subseteq 1..4
  PROVE  Max(S) \in S /\ \A x \in S : x <= Max(S)
<1>1. \E m \in S : \A x \in S : m >= x
  <2>1. CASE 4 \in S
    BY <2>1
  <2>2. CASE 4 \notin S /\ 3 \in S
    BY <2>2
  <2>3. CASE 4 \notin S /\ 3 \notin S /\ 2 \in S
    BY <2>3
  <2>4. CASE 4 \notin S /\ 3 \notin S /\ 2 \notin S
    <3>1. \A x \in S : x = 1
      BY <2>4
    <3>2. PICK x \in S : TRUE
      OBVIOUS
    <3> QED
      BY <3>1, <3>2
  <2> QED
    BY <2>1, <2>2, <2>3, <2>4
<1>2. Max(S) \in S /\ \A x \in S : Max(S) >= x
  BY <1>1 DEF Max
<1> QED
  BY <1>2

\* The factors of components in one direction.
LEMMA MaxOfComponents ==
  ASSUME NEW I, I # {}, NEW f \in [I -> 1..4], NEW m, m = Max({f[c] : c \in I})
  PROVE  /\ m \in 1..4
         /\ \A c \in I : f[c] <= m
         /\ \A c \in I : I = {c} => m = f[c]
<1> DEFINE S == {f[c] : c \in I}
<1>1. S # {} /\ S \subseteq 1..4
  OBVIOUS
<1>2. m \in S /\ \A x \in S : x <= m
  BY <1>1, MaxOfFactors
<1> QED
  BY <1>1, <1>2

LEMMA Factors ==
  ASSUME NEW p, IsPicture(p)
  PROVE  /\ HMax(p) \in 1..4 /\ VMax(p) \in 1..4
         /\ 1 \in DOMAIN p.comps /\ DOMAIN p.comps = 1..Len(p.comps) /\ Len(p.comps) \in Nat \ {0}
         /\ \A c \in DOMAIN p.comps :
              /\ p.comps[c].h \in 1..4 /\ p.comps[c].h <= HMax(p)
              /\ p.comps[c].v \in 1..4 /\ p.comps[c].v <= VMax(p)
         /\ Len(p.comps) = 1 => HMax(p) = p.comps[1].h /\ VMax(p) = p.comps[1].v
<1> DEFINE I == DOMAIN p.comps
           h == [c \in I |-> p.comps[c].h]
           v == [c \in I |-> p.comps[c].v]
<1>1. I = 1..Len(p.comps) /\ Len(p.comps) \in Nat \ {0}
  BY DEF IsPicture
<1>2. 1 \in I /\ I # {} /\ (Len(p.comps) = 1 => I = {1})
  <2>1. \A n \in Nat \ {0} : 1 \in 1..n /\ (n = 1 => 1..n = {1})
    OBVIOUS
  <2> HIDE DEF I
  <2> QED
    BY <1>1, <2>1
<1>3. h \in [I -> 1..4] /\ v \in [I -> 1..4]
  BY DEF IsPicture, MAX_SAMP
<1>4. {h[c] : c \in I} = {p.comps[c].h : c \in I} /\ {v[c] : c \in I} = {p.comps[c].v : c \in I}
  BY Zenon
<1>5. HMax(p) = Max({h[c] : c \in I}) /\ VMax(p) = Max({v[c] : c \in I})
  BY <1>4 DEF HMax, VMax
<1>6. \A c \in I : p.comps[c].h = h[c] /\ p.comps[c].v = v[c]
  OBVIOUS
<1> HIDE DEF I, h, v
<1>7. /\ HMax(p) \in 1..4
      /\ \A c \in I : h[c] <= HMax(p)
      /\ \A c \in I : I = {c} => HMax(p) = h[c]
  BY <1>2, <1>3, <1>5, MaxOfComponents
<1>8. /\ VMax(p) \in 1..4
      /\ \A c \in I : v[c] <= VMax(p)
      /\ \A c \in I : I = {c} => VMax(p) = v[c]
  BY <1>2, <1>3, <1>5, MaxOfComponents
<1>9. \A c \in I : /\ p.comps[c].h \in 1..4 /\ p.comps[c].h <= HMax(p)
                   /\ p.comps[c].v \in 1..4 /\ p.comps[c].v <= VMax(p)
  BY <1>3, <1>6, <1>7, <1>8
<1>10. Len(p.comps) = 1 => HMax(p) = p.comps[1].h /\ VMax(p) = p.comps[1].v
  BY <1>2, <1>6, <1>7, <1>8
<1> QED
  BY <1>1, <1>2, <1>7, <1>8, <1>9, <1>10 DEF I

\* A component's header with new factors and a new table.
LEMMA NewHeader ==
  ASSUME NEW h, NEW v, NEW q, NEW a, NEW b, NEW e, NEW comp, comp = [h |-> h, v |-> v, quant |-> q]
  PROVE  [comp EXCEPT !.h = a, !.v = b, !.quant = e] = [h |-> a, v |-> b, quant |-> e]
<1>1. [comp EXCEPT !.h = a] = [h |-> a, v |-> v, quant |-> q]
  OBVIOUS
<1>2. [[h |-> a, v |-> v, quant |-> q] EXCEPT !.v = b] = [h |-> a, v |-> b, quant |-> q]
  OBVIOUS
<1>3. [[h |-> a, v |-> b, quant |-> q] EXCEPT !.quant = e] = [h |-> a, v |-> b, quant |-> e]
  OBVIOUS
<1>4. [comp EXCEPT !.h = a, !.v = b, !.quant = e]
        = [[[comp EXCEPT !.h = a] EXCEPT !.v = b] EXCEPT !.quant = e]
  BY Zenon
<1> QED
  BY <1>1, <1>2, <1>3, <1>4, Zenon

\* The components of the destination: one, without subsampling, or those of the
\* source, with factors and table transposed where the picture is.
LEMMA Adjusted ==
  ASSUME NEW p, IsPicture(p), NEW ask, ask.force_grayscale => CanBeGray(p)
  PROVE  LET cs == AdjustedComps(p, ask)
             K == NumComponents(p, ask)
             T == ask.transform \in Turning
         IN  /\ DOMAIN cs = 1..K /\ K \in 1..Len(p.comps)
             /\ \A c \in 1..K :
                  cs[c].quant = IF T THEN Transposed(p.comps[c].quant) ELSE p.comps[c].quant
             /\ K = 1 => /\ cs[1].h = 1 /\ cs[1].v = 1
                         /\ p.comps[1].h = HMax(p) /\ p.comps[1].v = VMax(p)
             /\ K # 1 => /\ K = Len(p.comps)
                         /\ \A c \in 1..K :
                              /\ cs[c].h = IF T THEN p.comps[c].v ELSE p.comps[c].h
                              /\ cs[c].v = IF T THEN p.comps[c].h ELSE p.comps[c].v
<1> DEFINE cs == AdjustedComps(p, ask)
           K == NumComponents(p, ask)
           N == Len(p.comps)
           T == ask.transform \in Turning
           head == Headers(p.comps)
           plain == IF K = 1 THEN OneComponent(head) ELSE head
<1>1. N \in Nat \ {0} /\ DOMAIN p.comps = 1..N
  BY DEF IsPicture
<1>2. K \in 1..N /\ (K # 1 => K = N) /\ (K = 1 => N = 1 \/ ask.force_grayscale)
  BY <1>1 DEF NumComponents
<1>3. /\ DOMAIN head = 1..N
      /\ \A c \in 1..N : head[c] = [h |-> p.comps[c].h, v |-> p.comps[c].v, quant |-> p.comps[c].quant]
  BY <1>1 DEF Headers
<1> DEFINE factor(n) == IF K = 1 THEN 1 ELSE n
           PlainIs == /\ DOMAIN plain = 1..K
                      /\ \A c \in 1..K :
                           plain[c] = [h |-> factor(p.comps[c].h), v |-> factor(p.comps[c].v),
                                       quant |-> p.comps[c].quant]
<1>4. ASSUME K = 1 PROVE PlainIs
  <2> DEFINE one == [head[1] EXCEPT !.h = 1, !.v = 1]
  <2>1. 1 \in 1..N
    BY <1>1
  <2>2. head[1] = [h |-> p.comps[1].h, v |-> p.comps[1].v, quant |-> p.comps[1].quant]
    BY <1>3, <2>1
  <2> HIDE DEF head
  <2>3. one = [h |-> 1, v |-> 1, quant |-> p.comps[1].quant]
    <3> DEFINE first == head[1]
    <3>1. first = [h |-> p.comps[1].h, v |-> p.comps[1].v, quant |-> p.comps[1].quant]
      BY <2>2
    <3> HIDE DEF first
    <3>2. [first EXCEPT !.h = 1] = [h |-> 1, v |-> p.comps[1].v, quant |-> p.comps[1].quant]
      BY <3>1
    <3>3. [[h |-> 1, v |-> p.comps[1].v, quant |-> p.comps[1].quant] EXCEPT !.v = 1]
            = [h |-> 1, v |-> 1, quant |-> p.comps[1].quant]
      OBVIOUS
    <3>4. one = [[first EXCEPT !.h = 1] EXCEPT !.v = 1]
      BY Zenon DEF first
    <3> QED
      BY <3>2, <3>3, <3>4, Zenon
  <2> HIDE DEF one
  <2>4. plain = << one >>
    BY <1>4 DEF OneComponent, one
  <2> HIDE DEF plain
  <2>5. DOMAIN plain = {1} /\ plain[1] = one /\ 1..K = {1}
    BY <1>4, <2>4
  <2> QED
    BY <1>4, <2>3, <2>5
<1>5. ASSUME K # 1 PROVE PlainIs
  <2>1. plain = head /\ K = N
    BY <1>2, <1>5
  <2> HIDE DEF plain, head
  <2> QED
    BY <1>3, <1>5, <2>1
<1>6. PlainIs
  BY <1>4, <1>5
<1> HIDE DEF plain
<1>7. /\ DOMAIN cs = 1..K
      /\ \A c \in 1..K : cs[c] = IF T THEN transpose_critical_parameters(plain[c]) ELSE plain[c]
  <2>1. cs = [c \in DOMAIN plain |-> IF T THEN transpose_critical_parameters(plain[c]) ELSE plain[c]]
    BY DEF AdjustedComps, plain
  <2> HIDE DEF cs
  <2> QED
    BY <1>6, <2>1
<1> HIDE DEF plain, cs, K, head
<1>8. \A c \in 1..K :
        /\ cs[c].quant = IF T THEN Transposed(p.comps[c].quant) ELSE p.comps[c].quant
        /\ cs[c].h = IF K = 1 THEN 1 ELSE IF T THEN p.comps[c].v ELSE p.comps[c].h
        /\ cs[c].v = IF K = 1 THEN 1 ELSE IF T THEN p.comps[c].h ELSE p.comps[c].v
  <2> SUFFICES ASSUME NEW c \in 1..K
               PROVE  /\ cs[c].quant = IF T THEN Transposed(p.comps[c].quant) ELSE p.comps[c].quant
                      /\ cs[c].h = IF K = 1 THEN 1 ELSE IF T THEN p.comps[c].v ELSE p.comps[c].h
                      /\ cs[c].v = IF K = 1 THEN 1 ELSE IF T THEN p.comps[c].h ELSE p.comps[c].v
    OBVIOUS
  <2> DEFINE h == IF K = 1 THEN 1 ELSE p.comps[c].h
             v == IF K = 1 THEN 1 ELSE p.comps[c].v
             q == p.comps[c].quant
             t == Transposed(q)
  <2>1. plain[c] = [h |-> h, v |-> v, quant |-> q]
    BY <1>6
  <2>2. cs[c] = IF T THEN [plain[c] EXCEPT !.h = plain[c].v, !.v = plain[c].h, !.quant = Transposed(@)]
                ELSE plain[c]
    BY <1>7 DEF transpose_critical_parameters, TurnedQuant
  <2> HIDE DEF h, v, q
  <2>3. CASE T
    <3>1. cs[c] = [plain[c] EXCEPT !.h = plain[c].v, !.v = plain[c].h, !.quant = Transposed(plain[c].quant)]
      BY <2>2, <2>3
    <3>2. plain[c].h = h /\ plain[c].v = v /\ plain[c].quant = q
      BY <2>1
    <3>3. cs[c] = [h |-> v, v |-> h, quant |-> Transposed(q)]
      BY <2>1, <3>1, <3>2, NewHeader
    <3> QED
      BY <2>3, <3>3 DEF h, v, q
  <2>4. CASE ~ T
    BY <2>1, <2>2, <2>4 DEF h, v, q
  <2> QED
    BY <2>3, <2>4
<1>9. K = 1 => p.comps[1].h = HMax(p) /\ p.comps[1].v = VMax(p)
  BY <1>2, Factors DEF CanBeGray
<1>10. K = 1 => 1 \in 1..K
  OBVIOUS
<1> QED
  BY <1>2, <1>7, <1>8, <1>9, <1>10 DEF K, cs

\* A component's factor and the largest one, in the destination and in the source.
Fits(hd, HD, hs, HS) ==
    /\ hd \in 1..4 /\ HD \in 1..4 /\ hd <= HD
    /\ hs \in 1..4 /\ HS \in 1..4 /\ hs <= HS
    /\ \/ hd = hs /\ HD = HS
       \/ hd = 1 /\ HD = 1 /\ hs = HS

\* A picture with the destination's factors.
HasFactors(d, cs) ==
    /\ DOMAIN d.comps = DOMAIN cs
    /\ \A c \in DOMAIN cs : d.comps[c].h = cs[c].h /\ d.comps[c].v = cs[c].v

LEMMA MaxOfDestination ==
  ASSUME NEW p, IsPicture(p), NEW ask, ask.force_grayscale => CanBeGray(p),
         NEW d, HasFactors(d, AdjustedComps(p, ask))
  PROVE  LET K == NumComponents(p, ask)
             T == ask.transform \in Turning
         IN  /\ HMax(d) = IF K = 1 THEN 1 ELSE IF T THEN VMax(p) ELSE HMax(p)
             /\ VMax(d) = IF K = 1 THEN 1 ELSE IF T THEN HMax(p) ELSE VMax(p)
<1> DEFINE cs == AdjustedComps(p, ask)
           K == NumComponents(p, ask)
           T == ask.transform \in Turning
           H == {d.comps[c].h : c \in DOMAIN d.comps}
           V == {d.comps[c].v : c \in DOMAIN d.comps}
<1>1. /\ DOMAIN d.comps = 1..K /\ DOMAIN p.comps = 1..Len(p.comps)
      /\ \A c \in 1..K : d.comps[c].h = cs[c].h /\ d.comps[c].v = cs[c].v
      /\ K = 1 => cs[1].h = 1 /\ cs[1].v = 1
      /\ K # 1 => K = Len(p.comps)
      /\ K # 1 => \A c \in 1..K : /\ cs[c].h = IF T THEN p.comps[c].v ELSE p.comps[c].h
                                  /\ cs[c].v = IF T THEN p.comps[c].h ELSE p.comps[c].v
  BY Adjusted, Factors DEF HasFactors
<1>2. HMax(d) = Max(H) /\ VMax(d) = Max(V)
  BY DEF HMax, VMax
<1> HIDE DEF cs, K, T
<1>3. CASE K = 1
  <2>1. 1..K = {1}
    BY <1>3
  <2>2. H = {1} /\ V = {1}
    BY <1>1, <1>3, <2>1
  <2>3. Max({1}) = 1
    BY MaxOfFactors
  <2> QED
    BY <1>2, <1>3, <2>2, <2>3 DEF K
<1>4. CASE K # 1
  <2> DEFINE I == DOMAIN p.comps
             dh == [c \in I |-> d.comps[c].h]
             dv == [c \in I |-> d.comps[c].v]
             ph == [c \in I |-> p.comps[c].h]
             pv == [c \in I |-> p.comps[c].v]
  <2>1. I = 1..K /\ DOMAIN d.comps = I
    BY <1>1, <1>4
  <2>2. \A c \in I : /\ dh[c] = IF T THEN pv[c] ELSE ph[c]
                     /\ dv[c] = IF T THEN ph[c] ELSE pv[c]
    <3> SUFFICES ASSUME NEW c \in I
                 PROVE  /\ dh[c] = IF T THEN pv[c] ELSE ph[c]
                        /\ dv[c] = IF T THEN ph[c] ELSE pv[c]
      OBVIOUS
    <3>1. /\ d.comps[c].h = cs[c].h /\ d.comps[c].v = cs[c].v
          /\ cs[c].h = IF T THEN p.comps[c].v ELSE p.comps[c].h
          /\ cs[c].v = IF T THEN p.comps[c].h ELSE p.comps[c].v
      BY <1>1, <1>4, <2>1
    <3> QED
      BY <3>1
  <2>3. /\ {dh[c] : c \in I} = {d.comps[c].h : c \in I}
        /\ {dv[c] : c \in I} = {d.comps[c].v : c \in I}
        /\ {ph[c] : c \in I} = {p.comps[c].h : c \in I}
        /\ {pv[c] : c \in I} = {p.comps[c].v : c \in I}
    BY Zenon
  <2>4. /\ HMax(d) = Max({dh[c] : c \in I}) /\ VMax(d) = Max({dv[c] : c \in I})
        /\ HMax(p) = Max({ph[c] : c \in I}) /\ VMax(p) = Max({pv[c] : c \in I})
    BY <2>1, <2>3, Zenon DEF HMax, VMax
  <2>5. /\ T => dh = pv /\ dv = ph
        /\ ~ T => dh = ph /\ dv = pv
    BY <2>2
  <2> HIDE DEF dh, dv, ph, pv
  <2> QED
    BY <1>4, <2>4, <2>5 DEF K, T
<1> QED
  BY <1>3, <1>4

LEMMA DestinationFits ==
  ASSUME NEW p, IsPicture(p), NEW ask, ask.force_grayscale => CanBeGray(p),
         NEW d, HasFactors(d, AdjustedComps(p, ask)), NEW c \in DOMAIN d.comps
  PROVE  LET T == ask.transform \in Turning
         IN  /\ c \in DOMAIN p.comps
             /\ T => /\ Fits(d.comps[c].h, HMax(d), p.comps[c].v, VMax(p))
                     /\ Fits(d.comps[c].v, VMax(d), p.comps[c].h, HMax(p))
             /\ ~ T => /\ Fits(d.comps[c].h, HMax(d), p.comps[c].h, HMax(p))
                       /\ Fits(d.comps[c].v, VMax(d), p.comps[c].v, VMax(p))
<1> DEFINE cs == AdjustedComps(p, ask)
           K == NumComponents(p, ask)
           T == ask.transform \in Turning
<1>1. /\ DOMAIN d.comps = 1..K /\ c \in 1..K /\ K \in 1..Len(p.comps)
      /\ d.comps[c].h = cs[c].h /\ d.comps[c].v = cs[c].v
      /\ K = 1 => /\ cs[1].h = 1 /\ cs[1].v = 1
                  /\ p.comps[1].h = HMax(p) /\ p.comps[1].v = VMax(p)
      /\ K # 1 => /\ cs[c].h = IF T THEN p.comps[c].v ELSE p.comps[c].h
                  /\ cs[c].v = IF T THEN p.comps[c].h ELSE p.comps[c].v
  BY Adjusted DEF HasFactors
<1>2. /\ HMax(d) = IF K = 1 THEN 1 ELSE IF T THEN VMax(p) ELSE HMax(p)
      /\ VMax(d) = IF K = 1 THEN 1 ELSE IF T THEN HMax(p) ELSE VMax(p)
  BY MaxOfDestination
<1>3. DOMAIN p.comps = 1..Len(p.comps) /\ Len(p.comps) \in Nat
  BY Factors
<1> HIDE DEF cs, K
<1>4. c \in DOMAIN p.comps /\ (K = 1 => c = 1)
  BY <1>1, <1>3
<1>5. /\ HMax(p) \in 1..4 /\ VMax(p) \in 1..4
      /\ p.comps[c].h \in 1..4 /\ p.comps[c].h <= HMax(p)
      /\ p.comps[c].v \in 1..4 /\ p.comps[c].v <= VMax(p)
  BY <1>4, Factors
<1> QED
  BY <1>1, <1>2, <1>4, <1>5 DEF Fits

-----------------------------------------------------------------------------
(* One direction: places, blocks and iMCUs. *)

LEMMA Quotient ==
  ASSUME NEW n \in Nat, NEW m \in Nat \ {0}
  PROVE  /\ n \div m \in Nat /\ n % m = n - (n \div m) * m
         /\ (n \div m) * m <= n /\ n < (n \div m) * m + m
  OBVIOUS

LEMMA Halves ==
  ASSUME NEW n \in Nat
  PROVE  n \div 2 \in Nat /\ n % 2 \in 0..1 /\ n = 2 * (n \div 2) + (n % 2)
  OBVIOUS

LEMMA HalfIs ==
  ASSUME NEW b \in Nat, NEW r \in 0..1
  PROVE  (2 * b + r) \div 2 = b /\ (2 * b + r) % 2 = r
  OBVIOUS

LEMMA BelowRoundUp ==
  ASSUME NEW n \in Nat, NEW m \in Nat \ {0}
  PROVE  /\ RoundUp(n, m) \in Nat /\ n <= RoundUp(n, m) * m
         /\ \A k \in Nat : k < RoundUp(n, m) <=> k * m < n
  BY DEF RoundUp

LEMMA SameFactor ==
  ASSUME NEW a \in Nat, NEW b \in Nat, NEW m \in Nat \ {0}
  PROVE  a * m \in Nat /\ b * m \in Nat /\ (a * m < b * m <=> a < b) /\ (a * m <= b * m <=> a <= b)
  OBVIOUS

\* A sample that the destination's size admits, n, comes from one that the
\* source shows, and its block is there, padding included.
LEMMA Shown ==
  ASSUME NEW hd, NEW HD, NEW hs, NEW HS, Fits(hd, HD, hs, HS),
         NEW F \in Nat, NEW n \in Nat, n * HD < F * hd
  PROVE  /\ n < RoundUp(F * hs, HS)
         /\ n \div 2 < Padded(F, hs, HS) /\ Padded(F, hs, HS) \in Nat
<1>1. hs \in Nat \ {0} /\ HS \in Nat \ {0} /\ F * hs \in Nat
  BY DEF Fits
<1>2. n * HS < F * hs
  <2>1. CASE hd = hs /\ HD = HS
    BY <2>1
  <2>2. CASE hd = 1 /\ HD = 1 /\ hs = HS
    <3>1. n < F
      BY <2>2
    <3> QED
      BY <1>1, <2>2, <3>1, SameFactor
  <2> QED
    BY <2>1, <2>2 DEF Fits
<1>3. n < RoundUp(F * hs, HS)
  BY <1>1, <1>2, BelowRoundUp
<1> DEFINE q == RoundUp(F, 2 * HS)
           b == n \div 2
<1>4. q \in Nat /\ F <= q * (2 * HS)
  <2>1. 2 * HS \in Nat \ {0}
    BY <1>1
  <2> QED
    BY <2>1, BelowRoundUp
<1> HIDE DEF q
<1>5. b \in Nat /\ 2 * b <= n
  BY Halves
<1> HIDE DEF b
<1>6. (2 * b) * HS <= n * HS
  BY <1>1, <1>5
<1>7. F * hs <= (q * (2 * HS)) * hs
  BY <1>1, <1>4, SameFactor
<1>8. (2 * b) * HS < (q * (2 * HS)) * hs
  BY <1>1, <1>2, <1>4, <1>5, <1>6, <1>7
<1>9. (q * (2 * HS)) * hs = (2 * (hs * q)) * HS
  BY <1>1, <1>4
<1>10. b < hs * q /\ hs * q \in Nat
  <2>1. hs * q \in Nat
    BY <1>1, <1>4
  <2>2. 2 * b < 2 * (hs * q)
    BY <1>1, <1>5, <1>8, <1>9, <2>1, SameFactor
  <2> QED
    BY <1>5, <2>1, <2>2
<1> QED
  BY <1>3, <1>10, EdgeIsTwo DEF q, b, Padded

\* A place in the destination, x, at iMCU o of a picture of size F: the place
\* it comes from when it is not mirrored, and whether that is in whole iMCUs.
LEMMA Placed ==
  ASSUME NEW hd \in 1..4, NEW HD \in 1..4, hd <= HD,
         NEW F \in Nat, NEW w \in Nat, NEW o \in Nat, o * (HD * 2) + w <= F,
         NEW x \in Nat, x < RoundUp(w * hd, HD)
  PROVE  LET bx == x \div 2
             at == x + o * hd * 2
             u == F \div (HD * 2)
             columns == hd * u
             whole == u * hd * 2
         IN  /\ bx \in Nat /\ bx < RoundUp(w * hd, HD * 2) /\ RoundUp(w * hd, HD * 2) \in Nat
             /\ at \in Nat /\ at * HD < F * hd
             /\ at \div 2 = bx + o * hd /\ at % 2 = x % 2
             /\ columns \in Nat /\ whole = 2 * columns /\ whole * HD <= F * hd
             /\ o * hd \in Nat
             /\ (at < whole <=> o * hd + bx < columns)
             /\ (at < whole <=> o * hd + First(bx, hd) < columns)
<1> DEFINE bx == x \div 2
           u == F \div (HD * 2)
           e == o * hd
<1>1. e \in Nat /\ w * hd \in Nat /\ HD \in Nat \ {0} /\ HD * 2 \in Nat \ {0} /\ hd \in Nat \ {0}
  OBVIOUS
<1>2. x * HD < w * hd
  BY <1>1, BelowRoundUp
<1>3. bx \in Nat /\ 2 * bx <= x /\ x % 2 \in 0..1 /\ x = 2 * bx + (x % 2)
  BY Halves
<1>4. u \in Nat /\ u * (HD * 2) <= F
  BY <1>1, Quotient
<1> HIDE DEF bx, u
<1>5. bx < RoundUp(w * hd, HD * 2) /\ RoundUp(w * hd, HD * 2) \in Nat
  <2>1. (2 * bx) * HD <= x * HD
    BY <1>1, <1>3
  <2>2. bx * (HD * 2) < w * hd
    BY <1>1, <1>2, <1>3, <2>1
  <2> QED
    BY <1>1, <1>3, <2>2, BelowRoundUp
<1>6. (x + e * 2) * HD < F * hd
  <2>1. (o * (HD * 2) + w) * hd <= F * hd
    BY <1>1, SameFactor
  <2>2. (o * (HD * 2) + w) * hd = (e * 2) * HD + w * hd
    BY <1>1
  <2>3. (x + e * 2) * HD = x * HD + (e * 2) * HD
    BY <1>1
  <2> QED
    BY <1>1, <1>2, <2>1, <2>2, <2>3
<1>7. /\ (x + e * 2) \div 2 = bx + e /\ (x + e * 2) % 2 = x % 2
  <2>1. x + e * 2 = 2 * (bx + e) + (x % 2)
    BY <1>1, <1>3
  <2> QED
    BY <1>1, <1>3, <2>1, HalfIs
<1>8. hd * u \in Nat /\ u * hd * 2 = 2 * (hd * u) /\ (u * hd * 2) * HD <= F * hd
  <2>1. (u * (HD * 2)) * hd <= F * hd
    BY <1>1, <1>4, SameFactor
  <2>2. (u * (HD * 2)) * hd = (u * hd * 2) * HD
    BY <1>1, <1>4
  <2> QED
    BY <1>1, <1>4, <2>1, <2>2
<1>9. x + e * 2 < u * hd * 2 <=> e + bx < hd * u
  BY <1>1, <1>3, <1>8
<1>10. e + bx < hd * u <=> e + First(bx, hd) < hd * u
  <2> DEFINE k == bx \div hd
  <2>1. k \in Nat /\ First(bx, hd) = k * hd /\ k * hd <= bx /\ bx < k * hd + hd
    <3>1. /\ k \in Nat /\ bx % hd = bx - k * hd
          /\ k * hd <= bx /\ bx < k * hd + hd
      BY <1>1, <1>3, Quotient
    <3>2. k * hd \in Int
      BY <1>1, <3>1
    <3> HIDE DEF k
    <3> QED
      BY <1>3, <3>1, <3>2 DEF First
  <2> HIDE DEF k
  <2>2. e + First(bx, hd) = (o + k) * hd
    BY <1>1, <2>1
  <2>3. e + First(bx, hd) < hd * u <=> o + k < u
    BY <1>1, <1>4, <2>1, <2>2, SameFactor
  <2>4. o + k < u => (o + k + 1) * hd <= u * hd
    BY <1>1, <1>4, <2>1, SameFactor
  <2>5. (o + k + 1) * hd = e + k * hd + hd
    BY <1>1, <2>1
  <2> QED
    BY <1>1, <1>3, <1>4, <2>1, <2>3, <2>4, <2>5
<1> QED
  BY <1>1, <1>3, <1>4, <1>5, <1>6, <1>7, <1>8, <1>9, <1>10 DEF bx, u

\* Where a mirrored place comes from: in the block mirrored, in its column
\* mirrored.
LEMMA Mirrored ==
  ASSUME NEW columns \in Nat, NEW at \in Nat, at < 2 * columns
  PROVE  LET n == 2 * columns - 1 - at
         IN  /\ n \in Nat /\ n < 2 * columns
             /\ n \div 2 = columns - at \div 2 - 1 /\ n % 2 = 1 - (at % 2)
<1>1. at \div 2 \in Nat /\ at % 2 \in 0..1 /\ at = 2 * (at \div 2) + (at % 2)
  BY Halves
<1>2. /\ columns - at \div 2 - 1 \in Nat /\ 1 - (at % 2) \in 0..1
      /\ 2 * columns - 1 - at = 2 * (columns - at \div 2 - 1) + (1 - (at % 2))
  BY <1>1
<1> QED
  BY <1>1, <1>2, HalfIs

-----------------------------------------------------------------------------
(* Sizes. *)

\* A region that is asked for, cut out along iMCUs.
LEMMA RegionCut ==
  ASSUME NEW region, IsRegion(region), NEW size \in Nat, NEW mcu \in Nat \ {0},
         ~ BadRegion(region, size)
  PROVE  LET o == OffsetAsked(region, size) \div mcu
             w == SizeCut(region, size, mcu)
         IN  /\ o \in Nat /\ w \in Nat /\ o * mcu + w <= size
             /\ Covers(region, size, o, mcu, w)
<1> DEFINE a == SizeAsked(region, size)
           at == OffsetAsked(region, size)
           o == at \div mcu
           w == SizeCut(region, size, mcu)
<1>1. /\ region.size \in Nat /\ region.offset \in Nat
      /\ region.size_set \in {"UNSET", "POS", "FORCE"} /\ region.offset_set \in {"POS", "NEG"}
  BY DEF IsRegion
<1>2. a \in 1..size /\ region.offset <= size - a
  BY <1>1 DEF BadRegion, SizeAsked
<1>3. at \in Nat /\ at + a <= size
  BY <1>1, <1>2 DEF OffsetAsked
<1>4. w = IF region.size_set = "FORCE" THEN a ELSE a + (at % mcu)
  BY DEF SizeCut
<1> HIDE DEF a, at, w
<1>5. o \in Nat /\ at % mcu = at - o * mcu /\ o * mcu <= at
  BY <1>3, Quotient
<1> HIDE DEF o
<1>6. o * mcu \in Int
  BY <1>5
<1>7. w \in Nat /\ o * mcu + w <= size
  BY <1>2, <1>3, <1>4, <1>5, <1>6
<1>8. o * mcu <= at /\ (region.size_set # "FORCE" => o * mcu + w >= at + a)
  BY <1>2, <1>3, <1>4, <1>5, <1>6
<1> QED
  BY <1>5, <1>7, <1>8 DEF Covers, a, at, o, w

\* A size that is trimmed.
LEMMA Trim ==
  ASSUME NEW size \in Nat, NEW mcu \in Nat \ {0}, NEW o \in Nat, NEW full \in Nat,
         o * mcu + size <= full
  PROVE  LET w == WithoutPartial(size, mcu, o, full)
         IN  /\ w \in Nat /\ o * mcu + w <= full
             /\ o = 0 /\ size = full /\ full >= mcu => o * mcu + w <= (full \div mcu) * mcu
<1> DEFINE k == size \div mcu
           w == WithoutPartial(size, mcu, o, full)
<1>1. k \in Nat /\ k * mcu <= size /\ size < k * mcu + mcu
  BY Quotient
<1>2. w = IF k > 0 /\ o + k = full \div mcu THEN k * mcu ELSE size
  BY DEF WithoutPartial
<1> HIDE DEF w
<1>3. w \in Nat /\ w <= size /\ o * mcu \in Nat
  BY <1>1, <1>2
<1>4. ASSUME o = 0, size = full, full >= mcu
      PROVE  o * mcu + w <= (full \div mcu) * mcu
  <2>1. k = full \div mcu
    BY <1>4
  <2> HIDE DEF k
  <2>2. k > 0
    BY <1>1, <1>4
  <2>3. w = k * mcu /\ o * mcu = 0
    BY <1>1, <1>2, <1>4, <2>1, <2>2
  <2> QED
    BY <1>1, <2>1, <2>3
<1> QED
  BY <1>3, <1>4 DEF w

\* jpeg_transform_info's sizes, field by field.
Sizes(w, h, mw, mh, x, y) ==
    [output_width |-> w, output_height |-> h, iMCU_width |-> mw, iMCU_height |-> mh,
     x_crop_offset |-> x, y_crop_offset |-> y]

LEMMA CroppedSizes ==
  ASSUME NEW w, NEW h, NEW mw, NEW mh, NEW crop, crop.asked
  PROVE  Cropped(Sizes(w, h, mw, mh, 0, 0), crop)
           = Sizes(SizeCut(crop.x, w, mw), SizeCut(crop.y, h, mh), mw, mh,
                   OffsetAsked(crop.x, w) \div mw, OffsetAsked(crop.y, h) \div mh)
<1> DEFINE s == Sizes(w, h, mw, mh, 0, 0)
<1>1. /\ s.output_width = w /\ s.output_height = h
      /\ s.iMCU_width = mw /\ s.iMCU_height = mh
  BY DEF Sizes
<1> HIDE DEF s
<1> DEFINE a == SizeCut(crop.x, w, mw)
           b == SizeCut(crop.y, h, mh)
           c == OffsetAsked(crop.x, w) \div mw
           d == OffsetAsked(crop.y, h) \div mh
<1>2. Cropped(s, crop) = [s EXCEPT !.output_width = a, !.output_height = b,
                                   !.x_crop_offset = c, !.y_crop_offset = d]
  BY <1>1, Zenon DEF Cropped
<1> HIDE DEF a, b, c, d
<1>3. Cropped(s, crop) = [[[[s EXCEPT !.output_width = a] EXCEPT !.output_height = b]
                             EXCEPT !.x_crop_offset = c] EXCEPT !.y_crop_offset = d]
  BY <1>2, Zenon
<1>4. [s EXCEPT !.output_width = a] = Sizes(a, h, mw, mh, 0, 0)
  BY DEF s, Sizes
<1>5. [Sizes(a, h, mw, mh, 0, 0) EXCEPT !.output_height = b] = Sizes(a, b, mw, mh, 0, 0)
  BY DEF Sizes
<1>6. [Sizes(a, b, mw, mh, 0, 0) EXCEPT !.x_crop_offset = c] = Sizes(a, b, mw, mh, c, 0)
  BY DEF Sizes
<1>7. [Sizes(a, b, mw, mh, c, 0) EXCEPT !.y_crop_offset = d] = Sizes(a, b, mw, mh, c, d)
  BY DEF Sizes
<1>8. Cropped(s, crop) = Sizes(a, b, mw, mh, c, d)
  BY <1>3, <1>4, <1>5, <1>6, <1>7, Zenon
<1> QED
  BY <1>8 DEF s, a, b, c, d

LEMMA TrimmedSizes ==
  ASSUME NEW w, NEW h, NEW mw, NEW mh, NEW x, NEW y, NEW full
  PROVE  /\ trim_right_edge(Sizes(w, h, mw, mh, x, y), full)
              = Sizes(WithoutPartial(w, mw, x, full), h, mw, mh, x, y)
         /\ trim_bottom_edge(Sizes(w, h, mw, mh, x, y), full)
              = Sizes(w, WithoutPartial(h, mh, y, full), mw, mh, x, y)
<1> DEFINE s == Sizes(w, h, mw, mh, x, y)
<1>1. /\ s.output_width = w /\ s.output_height = h
      /\ s.iMCU_width = mw /\ s.iMCU_height = mh
      /\ s.x_crop_offset = x /\ s.y_crop_offset = y
  BY DEF Sizes
<1>2. \A a : /\ [s EXCEPT !.output_width = a] = Sizes(a, h, mw, mh, x, y)
             /\ [s EXCEPT !.output_height = a] = Sizes(w, a, mw, mh, x, y)
  BY DEF Sizes
<1> HIDE DEF s
<1>3. trim_right_edge(s, full) = [s EXCEPT !.output_width = WithoutPartial(w, mw, x, full)]
  BY <1>1, Zenon DEF trim_right_edge
<1>4. trim_bottom_edge(s, full) = [s EXCEPT !.output_height = WithoutPartial(h, mh, y, full)]
  BY <1>1, Zenon DEF trim_bottom_edge
<1> QED
  BY <1>2, <1>3, <1>4, Zenon DEF s

\* What is asked for in one direction: a region or the whole, trimmed or not.
CutAt(asked, region, size, mcu) ==
    IF asked THEN OffsetAsked(region, size) \div mcu ELSE 0
CutTo(asked, region, size, mcu, trim) ==
    LET w == IF asked THEN SizeCut(region, size, mcu) ELSE size
    IN  IF trim THEN WithoutPartial(w, mcu, CutAt(asked, region, size, mcu), size) ELSE w

LEMMA Cut ==
  ASSUME NEW asked \in BOOLEAN, NEW region, NEW size \in Nat, NEW mcu \in Nat \ {0},
         NEW trim \in BOOLEAN,
         asked => IsRegion(region) /\ ~ BadRegion(region, size)
  PROVE  LET o == CutAt(asked, region, size, mcu)
             w == CutTo(asked, region, size, mcu, trim)
         IN  /\ o \in Nat /\ w \in Nat /\ o * mcu + w <= size
             /\ (trim /\ ~ asked /\ size >= mcu) \/ size % mcu = 0 =>
                  o * mcu + w <= (size \div mcu) * mcu
             /\ asked /\ ~ trim => Covers(region, size, o, mcu, w)
<1> DEFINE o == CutAt(asked, region, size, mcu)
           w0 == IF asked THEN SizeCut(region, size, mcu) ELSE size
           w == CutTo(asked, region, size, mcu, trim)
<1>1. /\ o \in Nat /\ w0 \in Nat /\ o * mcu + w0 <= size
      /\ asked => Covers(region, size, o, mcu, w0)
      /\ ~ asked => o = 0 /\ w0 = size
  <2>1. CASE asked
    BY <2>1, RegionCut DEF CutAt
  <2>2. CASE ~ asked
    BY <2>2 DEF CutAt
  <2> QED
    BY <2>1, <2>2
<1>2. w = IF trim THEN WithoutPartial(w0, mcu, o, size) ELSE w0
  BY DEF CutTo
<1> HIDE DEF o, w0, w
<1>3. o \in Nat /\ w \in Nat /\ o * mcu + w <= size
  BY <1>1, <1>2, Trim
<1>4. trim /\ ~ asked /\ size >= mcu => o * mcu + w <= (size \div mcu) * mcu
  BY <1>1, <1>2, Trim
<1>5. size % mcu = 0 => o * mcu + w <= (size \div mcu) * mcu
  <2>1. size \div mcu \in Nat /\ size % mcu = size - (size \div mcu) * mcu
    BY Quotient
  <2>2. (size \div mcu) * mcu \in Nat
    BY <2>1
  <2>3. size % mcu = 0 => (size \div mcu) * mcu = size
    BY <2>1, <2>2
  <2> QED
    BY <1>3, <2>3
<1>6. asked /\ ~ trim => Covers(region, size, o, mcu, w)
  BY <1>1, <1>2
<1> QED
  BY <1>3, <1>4, <1>5, <1>6 DEF o, w

\* A request that is granted, and the sizes it gets.
Granted(p, ask) ==
    /\ ask.perfect => perfect_transform(p.width, p.height, MCUWidth(p, ask), MCUHeight(p, ask),
                                        ask.transform)
    /\ ~ BadCrop(TurnedSize(p, ask), ask.crop)
Sized(p, ask) == Trimmed(Cropped(TurnedSize(p, ask), ask.crop), p, ask)

LEMMA SizedIs ==
  ASSUME NEW p, IsPicture(p), NEW ask, IsAsk(ask)
  PROVE  LET T == ask.transform \in Turning
             fw == IF T THEN p.height ELSE p.width
             fh == IF T THEN p.width ELSE p.height
             mw == IF T THEN MCUHeight(p, ask) ELSE MCUWidth(p, ask)
             mh == IF T THEN MCUWidth(p, ask) ELSE MCUHeight(p, ask)
         IN  Sized(p, ask)
               = Sizes(CutTo(ask.crop.asked, ask.crop.x, fw, mw, ask.trim /\ ask.transform \in MirroredX),
                       CutTo(ask.crop.asked, ask.crop.y, fh, mh, ask.trim /\ ask.transform \in MirroredY),
                       mw, mh,
                       CutAt(ask.crop.asked, ask.crop.x, fw, mw),
                       CutAt(ask.crop.asked, ask.crop.y, fh, mh))
<1> DEFINE T == ask.transform \in Turning
           fw == IF T THEN p.height ELSE p.width
           fh == IF T THEN p.width ELSE p.height
           mw == IF T THEN MCUHeight(p, ask) ELSE MCUWidth(p, ask)
           mh == IF T THEN MCUWidth(p, ask) ELSE MCUHeight(p, ask)
           x == CutAt(ask.crop.asked, ask.crop.x, fw, mw)
           y == CutAt(ask.crop.asked, ask.crop.y, fh, mh)
           w == IF ask.crop.asked THEN SizeCut(ask.crop.x, fw, mw) ELSE fw
           h == IF ask.crop.asked THEN SizeCut(ask.crop.y, fh, mh) ELSE fh
           X == ask.transform \in MirroredX
           Y == ask.transform \in MirroredY
           s == Sizes(w, h, mw, mh, x, y)
           W == WithoutPartial(w, mw, x, fw)
           H == WithoutPartial(h, mh, y, fh)
<1>1. TurnedSize(p, ask) = Sizes(fw, fh, mw, mh, 0, 0)
  BY DEF TurnedSize, Sizes
<1>2. ask.trim \in BOOLEAN /\ ask.crop.asked \in BOOLEAN
  BY DEF IsAsk
<1>3. Cropped(TurnedSize(p, ask), ask.crop) = s
  <2>1. CASE ask.crop.asked
    <3> HIDE DEF fw, fh, mw, mh
    <3> QED
      BY <1>1, <2>1, CroppedSizes DEF CutAt
  <2>2. CASE ~ ask.crop.asked
    <3> HIDE DEF fw, fh, mw, mh
    <3> QED
      BY <1>1, <2>2 DEF CutAt, Cropped
  <2> QED
    BY <1>2, <2>1, <2>2
<1>4. /\ CutTo(ask.crop.asked, ask.crop.x, fw, mw, ask.trim /\ X) = IF ask.trim /\ X THEN W ELSE w
      /\ CutTo(ask.crop.asked, ask.crop.y, fh, mh, ask.trim /\ Y) = IF ask.trim /\ Y THEN H ELSE h
  BY DEF CutTo
<1> DEFINE t == ask.transform
<1>5. t \in {"NONE", "FLIP_H", "FLIP_V", "ROT_180", "TRANSPOSE", "TRANSVERSE", "ROT_90", "ROT_270"}
  BY DEF IsAsk, Turning
<1>6. /\ t \in {"NONE", "FLIP_H", "FLIP_V", "ROT_180"} => fw = p.width /\ fh = p.height
      /\ t \in {"TRANSPOSE", "TRANSVERSE", "ROT_90", "ROT_270"} => fw = p.height /\ fh = p.width
  BY DEF Turning
<1> HIDE DEF fw, fh, mw, mh, x, y, w, h
<1>7. /\ trim_right_edge(s, fw) = Sizes(W, h, mw, mh, x, y)
      /\ trim_bottom_edge(s, fh) = Sizes(w, H, mw, mh, x, y)
      /\ trim_bottom_edge(trim_right_edge(s, fw), fh) = Sizes(W, H, mw, mh, x, y)
  BY TrimmedSizes
<1> HIDE DEF s, W, H
<1>8. Trimmed(s, p, ask) = Sizes(IF ask.trim /\ X THEN W ELSE w, IF ask.trim /\ Y THEN H ELSE h,
                                 mw, mh, x, y)
  <2>1. CASE ~ ask.trim \/ t \in {"NONE", "TRANSPOSE"}
    <3>1. Trimmed(s, p, ask) = s
      BY <2>1 DEF Trimmed
    <3>2. ~ (ask.trim /\ X) /\ ~ (ask.trim /\ Y)
      BY <2>1 DEF MirroredX, MirroredY
    <3> QED
      BY <3>1, <3>2 DEF s
  <2>2. CASE ask.trim /\ t = "FLIP_H"
    <3>1. X /\ ~ Y /\ Trimmed(s, p, ask) = trim_right_edge(s, fw)
      BY <1>6, <2>2 DEF Trimmed, MirroredX, MirroredY
    <3> QED
      BY <1>7, <2>2, <3>1
  <2>3. CASE ask.trim /\ t = "FLIP_V"
    <3>1. ~ X /\ Y /\ Trimmed(s, p, ask) = trim_bottom_edge(s, fh)
      BY <1>6, <2>3 DEF Trimmed, MirroredX, MirroredY
    <3> QED
      BY <1>7, <2>3, <3>1
  <2>4. CASE ask.trim /\ t = "TRANSVERSE"
    <3>1. X /\ Y /\ Trimmed(s, p, ask) = trim_bottom_edge(trim_right_edge(s, fw), fh)
      BY <1>6, <2>4 DEF Trimmed, MirroredX, MirroredY
    <3> QED
      BY <1>7, <2>4, <3>1
  <2>5. CASE ask.trim /\ t = "ROT_90"
    <3>1. X /\ ~ Y /\ Trimmed(s, p, ask) = trim_right_edge(s, fw)
      BY <1>6, <2>5 DEF Trimmed, MirroredX, MirroredY
    <3> QED
      BY <1>7, <2>5, <3>1
  <2>6. CASE ask.trim /\ t = "ROT_180"
    <3>1. X /\ Y /\ Trimmed(s, p, ask) = trim_bottom_edge(trim_right_edge(s, fw), fh)
      BY <1>6, <2>6 DEF Trimmed, MirroredX, MirroredY
    <3> QED
      BY <1>7, <2>6, <3>1
  <2>7. CASE ask.trim /\ t = "ROT_270"
    <3>1. ~ X /\ Y /\ Trimmed(s, p, ask) = trim_bottom_edge(s, fh)
      BY <1>6, <2>7 DEF Trimmed, MirroredX, MirroredY
    <3> QED
      BY <1>7, <2>7, <3>1
  <2> QED
    BY <1>2, <1>5, <2>1, <2>2, <2>3, <2>4, <2>5, <2>6, <2>7
<1>9. Sized(p, ask) = Trimmed(s, p, ask)
  BY <1>3 DEF Sized
<1> QED
  BY <1>4, <1>8, <1>9 DEF x, y, fw, fh, mw, mh

LEMMA MCUIs ==
  ASSUME NEW p, IsPicture(p), NEW ask
  PROVE  LET K == NumComponents(p, ask)
         IN  /\ MCUWidth(p, ask) = (IF K = 1 THEN 1 ELSE HMax(p)) * 2
             /\ MCUHeight(p, ask) = (IF K = 1 THEN 1 ELSE VMax(p)) * 2
             /\ MCUWidth(p, ask) \in Nat \ {0} /\ MCUHeight(p, ask) \in Nat \ {0}
<1> DEFINE K == NumComponents(p, ask)
           H == HMax(p)
           V == VMax(p)
<1>1. H \in 1..4 /\ V \in 1..4
  BY Factors
<1>2. /\ MCUWidth(p, ask) = 2 * (IF K = 1 THEN 1 ELSE H)
      /\ MCUHeight(p, ask) = 2 * (IF K = 1 THEN 1 ELSE V)
  BY EdgeIsTwo DEF MCUWidth, MCUHeight
<1> HIDE DEF K, H, V
<1>3. /\ MCUWidth(p, ask) = (IF K = 1 THEN 1 ELSE H) * 2
      /\ MCUHeight(p, ask) = (IF K = 1 THEN 1 ELSE V) * 2
      /\ MCUWidth(p, ask) \in Nat \ {0} /\ MCUHeight(p, ask) \in Nat \ {0}
  BY <1>1, <1>2
<1> QED
  BY <1>3 DEF K, H, V

\* The sizes of a request that is granted.
LEMMA GrantedSizes ==
  ASSUME NEW p, IsPicture(p), NEW ask, IsAsk(ask), Granted(p, ask)
  PROVE  LET s == Sized(p, ask)
             T == ask.transform \in Turning
             fw == IF T THEN p.height ELSE p.width
             fh == IF T THEN p.width ELSE p.height
         IN  /\ s.iMCU_width = IF T THEN MCUHeight(p, ask) ELSE MCUWidth(p, ask)
             /\ s.iMCU_height = IF T THEN MCUWidth(p, ask) ELSE MCUHeight(p, ask)
             /\ s.output_width \in Nat /\ s.x_crop_offset \in Nat
             /\ s.output_height \in Nat /\ s.y_crop_offset \in Nat
             /\ s.x_crop_offset * s.iMCU_width + s.output_width <= fw
             /\ s.y_crop_offset * s.iMCU_height + s.output_height <= fh
             /\ ask.perfect \/ (ask.trim /\ ~ ask.crop.asked) =>
                  /\ ask.transform \in MirroredX /\ fw >= s.iMCU_width =>
                       s.x_crop_offset * s.iMCU_width + s.output_width
                         <= (fw \div s.iMCU_width) * s.iMCU_width
                  /\ ask.transform \in MirroredY /\ fh >= s.iMCU_height =>
                       s.y_crop_offset * s.iMCU_height + s.output_height
                         <= (fh \div s.iMCU_height) * s.iMCU_height
             /\ ask.crop.asked /\ ~ ask.trim =>
                  /\ Covers(ask.crop.x, fw, s.x_crop_offset, s.iMCU_width, s.output_width)
                  /\ Covers(ask.crop.y, fh, s.y_crop_offset, s.iMCU_height, s.output_height)
<1> DEFINE s == Sized(p, ask)
           T == ask.transform \in Turning
           X == ask.transform \in MirroredX
           Y == ask.transform \in MirroredY
           fw == IF T THEN p.height ELSE p.width
           fh == IF T THEN p.width ELSE p.height
           mw == IF T THEN MCUHeight(p, ask) ELSE MCUWidth(p, ask)
           mh == IF T THEN MCUWidth(p, ask) ELSE MCUHeight(p, ask)
           asked == ask.crop.asked
           trimX == ask.trim /\ X
           trimY == ask.trim /\ Y
           x == CutAt(asked, ask.crop.x, fw, mw)
           y == CutAt(asked, ask.crop.y, fh, mh)
           w == CutTo(asked, ask.crop.x, fw, mw, trimX)
           h == CutTo(asked, ask.crop.y, fh, mh, trimY)
<1>1. s = Sizes(w, h, mw, mh, x, y)
  BY SizedIs
<1>2. ask.trim \in BOOLEAN /\ asked \in BOOLEAN /\ ask.perfect \in BOOLEAN
  BY DEF IsAsk
<1>3. fw \in Nat /\ fh \in Nat /\ mw \in Nat \ {0} /\ mh \in Nat \ {0}
  <2>1. p.width \in Nat /\ p.height \in Nat
    BY DEF IsPicture
  <2>2. MCUWidth(p, ask) \in Nat \ {0} /\ MCUHeight(p, ask) \in Nat \ {0}
    BY MCUIs
  <2> QED
    BY <2>1, <2>2
<1>4. asked => /\ IsRegion(ask.crop.x) /\ ~ BadRegion(ask.crop.x, fw)
               /\ IsRegion(ask.crop.y) /\ ~ BadRegion(ask.crop.y, fh)
  BY DEF IsAsk, Granted, BadCrop, TurnedSize
<1>5. ask.perfect => /\ X => fw % mw = 0
                     /\ Y => fh % mh = 0
  BY DEF Granted, perfect_transform, MirroredX, MirroredY, Turning
<1> HIDE DEF s, fw, fh, mw, mh, asked, X, Y
<1>6. /\ x \in Nat /\ w \in Nat /\ x * mw + w <= fw
      /\ (trimX /\ ~ asked /\ fw >= mw) \/ fw % mw = 0 => x * mw + w <= (fw \div mw) * mw
      /\ asked /\ ~ trimX => Covers(ask.crop.x, fw, x, mw, w)
  <2>1. trimX \in BOOLEAN /\ asked \in BOOLEAN
    BY <1>2 DEF X
  <2> HIDE DEF trimX
  <2> QED
    BY <1>3, <1>4, <2>1, Cut
<1>7. /\ y \in Nat /\ h \in Nat /\ y * mh + h <= fh
      /\ (trimY /\ ~ asked /\ fh >= mh) \/ fh % mh = 0 => y * mh + h <= (fh \div mh) * mh
      /\ asked /\ ~ trimY => Covers(ask.crop.y, fh, y, mh, h)
  <2>1. trimY \in BOOLEAN /\ asked \in BOOLEAN
    BY <1>2 DEF Y
  <2> HIDE DEF trimY
  <2> QED
    BY <1>3, <1>4, <2>1, Cut
<1> HIDE DEF x, y, w, h
<1>8. /\ s.output_width = w /\ s.output_height = h
      /\ s.iMCU_width = mw /\ s.iMCU_height = mh
      /\ s.x_crop_offset = x /\ s.y_crop_offset = y
  BY <1>1 DEF Sizes
<1>9. ask.perfect \/ (ask.trim /\ ~ asked) =>
        /\ X /\ fw >= mw => x * mw + w <= (fw \div mw) * mw
        /\ Y /\ fh >= mh => y * mh + h <= (fh \div mh) * mh
  <2>1. ask.perfect /\ X => x * mw + w <= (fw \div mw) * mw
    BY <1>5, <1>6
  <2>2. ask.perfect /\ Y => y * mh + h <= (fh \div mh) * mh
    BY <1>5, <1>7
  <2>3. ask.trim /\ ~ asked /\ X /\ fw >= mw => x * mw + w <= (fw \div mw) * mw
    BY <1>6
  <2>4. ask.trim /\ ~ asked /\ Y /\ fh >= mh => y * mh + h <= (fh \div mh) * mh
    BY <1>7
  <2> QED
    BY <2>1, <2>2, <2>3, <2>4
<1>10. asked /\ ~ ask.trim => /\ Covers(ask.crop.x, fw, x, mw, w)
                              /\ Covers(ask.crop.y, fh, y, mh, h)
  BY <1>6, <1>7
<1>11. /\ mw = IF T THEN MCUHeight(p, ask) ELSE MCUWidth(p, ask)
       /\ mh = IF T THEN MCUWidth(p, ask) ELSE MCUHeight(p, ask)
  BY DEF mw, mh
<1> DEFINE Right(ow, oh, iw, ih, cx, cy) ==
             /\ iw = IF T THEN MCUHeight(p, ask) ELSE MCUWidth(p, ask)
             /\ ih = IF T THEN MCUWidth(p, ask) ELSE MCUHeight(p, ask)
             /\ ow \in Nat /\ cx \in Nat
             /\ oh \in Nat /\ cy \in Nat
             /\ cx * iw + ow <= fw
             /\ cy * ih + oh <= fh
             /\ ask.perfect \/ (ask.trim /\ ~ ask.crop.asked) =>
                  /\ ask.transform \in MirroredX /\ fw >= iw => cx * iw + ow <= (fw \div iw) * iw
                  /\ ask.transform \in MirroredY /\ fh >= ih => cy * ih + oh <= (fh \div ih) * ih
             /\ ask.crop.asked /\ ~ ask.trim =>
                  /\ Covers(ask.crop.x, fw, cx, iw, ow)
                  /\ Covers(ask.crop.y, fh, cy, ih, oh)
<1>12. Right(w, h, mw, mh, x, y)
  BY <1>6, <1>7, <1>9, <1>10, <1>11 DEF X, Y, asked
<1>13. Right(s.output_width, s.output_height, s.iMCU_width, s.iMCU_height,
             s.x_crop_offset, s.y_crop_offset)
  BY <1>8, <1>12, Zenon
<1> QED
  BY <1>13 DEF s, fw, fh

-----------------------------------------------------------------------------
(* The transforms. *)

\* A block mirrored across, up and down, or both.
FlippedFrom(across, down, block, result) ==
    /\ ~ across /\ ~ down => result = block
    /\ across /\ ~ down => result = FlippedH(block)
    /\ ~ across /\ down => result = FlippedV(block)
    /\ across /\ down => result \in {FlippedV(FlippedH(block)), FlippedH(FlippedV(block))}

LEMMA DrawnFlipped ==
  ASSUME NEW across \in BOOLEAN, NEW down \in BOOLEAN, NEW block \in Block, NEW result,
         FlippedFrom(across, down, block, result),
         NEW q \in Block, NEW i \in 0..1, NEW j \in 0..1
  PROVE  BlockSample(q, result, i, j)
           = BlockSample(q, block, IF down THEN 1 - i ELSE i, IF across THEN 1 - j ELSE j)
<1>1. 1 - i \in 0..1 /\ 1 - j \in 0..1
  OBVIOUS
<1>2. CASE ~ across
  BY <1>2, DrawnFlippedV DEF FlippedFrom
<1>3. CASE across /\ ~ down
  BY <1>3, DrawnFlippedH DEF FlippedFrom
<1>4. CASE across /\ down
  <2>1. FlippedH(block) \in Block /\ FlippedV(block) \in Block
    BY DrawnFlippedH, DrawnFlippedV
  <2>2. BlockSample(q, FlippedV(FlippedH(block)), i, j) = BlockSample(q, block, 1 - i, 1 - j)
    <3>1. BlockSample(q, FlippedV(FlippedH(block)), i, j) = BlockSample(q, FlippedH(block), 1 - i, j)
      BY <2>1, DrawnFlippedV
    <3> QED
      BY <1>1, <3>1, DrawnFlippedH
  <2>3. BlockSample(q, FlippedH(FlippedV(block)), i, j) = BlockSample(q, block, 1 - i, 1 - j)
    <3>1. BlockSample(q, FlippedH(FlippedV(block)), i, j) = BlockSample(q, FlippedV(block), i, 1 - j)
      BY <2>1, DrawnFlippedH
    <3> QED
      BY <1>1, <3>1, DrawnFlippedV
  <2> QED
    BY <1>4, <2>2, <2>3 DEF FlippedFrom
<1> QED
  BY <1>2, <1>3, <1>4

\* Each transform puts in a place the block that comes from there: mirrored as
\* far as whole iMCUs go, and turned.
LEMMA BlockFrom ==
  ASSUME NEW b, NEW f, NEW y \in Nat, NEW x \in Nat, NEW ask, IsAsk(ask),
         f.x \in Nat, f.y \in Nat, f.columns \in Nat, f.rows \in Nat,
         f.h \in Nat \ {0}, f.v \in Nat \ {0},
         f.x + x < f.columns <=> f.x + First(x, f.h) < f.columns,
         f.y + y < f.rows <=> f.y + First(y, f.v) < f.rows
  PROVE  LET t == ask.transform
             across == t \in MirroredX /\ f.x + x < f.columns
             down == t \in MirroredY /\ f.y + y < f.rows
             kx == IF across THEN MirrorX(f, x) ELSE x + f.x
             ky == IF down THEN MirrorY(f, y) ELSE y + f.y
         IN  FlippedFrom(across, down,
                         IF t \in Turning THEN Transposed(b[<<kx, ky>>]) ELSE b[<<ky, kx>>],
                         BlockAt(b, f, y, x, t))
<1> DEFINE t == ask.transform
           inX == f.x + x < f.columns
           inY == f.y + y < f.rows
           across == t \in MirroredX /\ inX
           down == t \in MirroredY /\ inY
           kx == IF across THEN MirrorX(f, x) ELSE x + f.x
           ky == IF down THEN MirrorY(f, y) ELSE y + f.y
           r == BlockAt(b, f, y, x, t)
           from == IF t \in Turning THEN Transposed(b[<<kx, ky>>]) ELSE b[<<ky, kx>>]
<1> SUFFICES FlippedFrom(across, down, from, r)
  OBVIOUS
<1>1. t \in {"NONE", "FLIP_H", "FLIP_V", "ROT_180", "TRANSPOSE", "TRANSVERSE", "ROT_90", "ROT_270"}
  BY DEF IsAsk, Turning
<1>2. First(x, f.h) \in Int /\ First(y, f.v) \in Int
  <2>1. \A n \in Nat, m \in Nat \ {0} : n % m \in Int
    BY Quotient
  <2> QED
    BY <2>1 DEF First
<1>3. /\ f.x + First(x, f.h) < f.columns <=> inX
      /\ f.y + First(y, f.v) < f.rows <=> inY
      /\ f.x + First(x, f.h) >= f.columns <=> ~ inX
      /\ f.y + First(y, f.v) >= f.rows <=> ~ inY
      /\ f.x + x >= f.columns <=> ~ inX
      /\ x + f.x < f.columns <=> inX
      /\ f.columns - (x + f.x) - 1 = MirrorX(f, x)
  BY <1>2 DEF MirrorX
<1> HIDE DEF inX, inY
<1>4. inX \in BOOLEAN /\ inY \in BOOLEAN
  BY DEF inX, inY
<1> HIDE DEF across, down, kx, ky, from, r
<1>5. CASE t = "NONE"
  <2>1. r = b[<<y + f.y, x + f.x>>]
    BY <1>5 DEF r, BlockAt, do_crop
  <2>2. ~ across /\ ~ down
    BY <1>5 DEF across, down, MirroredX, MirroredY
  <2>3. /\ kx = x + f.x
        /\ ky = y + f.y
        /\ from = b[<<ky, kx>>]
    BY <1>5, <2>2 DEF kx, ky, from, Turning
  <2> QED
    BY <1>4, <2>1, <2>2, <2>3 DEF FlippedFrom
<1>6. CASE t = "FLIP_H"
  <2>1. f.y = 0 => r = do_flip_h_no_crop(b, f, y, x)
    BY <1>6 DEF r, BlockAt
  <2>2. f.y # 0 => r = do_flip_h(b, f, y, x)
    BY <1>6 DEF r, BlockAt
  <2>3. f.y = 0 => y = y + f.y
    OBVIOUS
  <2>4. r = IF inX THEN FlippedH(b[<<y + f.y, MirrorX(f, x)>>]) ELSE b[<<y + f.y, x + f.x>>]
    <3>1. CASE f.y = 0
      BY <1>3, <2>1, <2>3, <3>1 DEF do_flip_h_no_crop, InPlace
    <3>2. CASE f.y # 0
      BY <1>3, <2>2, <3>2 DEF do_flip_h, inX
    <3> QED
      BY <3>1, <3>2
  <2>5. (across <=> inX) /\ ~ down
    BY <1>6 DEF across, down, MirroredX, MirroredY
  <2>6. /\ kx = IF inX THEN MirrorX(f, x) ELSE x + f.x
        /\ ky = y + f.y
        /\ from = b[<<ky, kx>>]
    BY <1>6, <2>5 DEF kx, ky, from, Turning
  <2> QED
    BY <1>4, <2>4, <2>5, <2>6 DEF FlippedFrom
<1>7. CASE t = "FLIP_V"
  <2>1. r = IF inY THEN FlippedV(b[<<MirrorY(f, y), x + f.x>>]) ELSE b[<<y + f.y, x + f.x>>]
    BY <1>3, <1>7 DEF r, BlockAt, do_flip_v
  <2>2. ~ across /\ (down <=> inY)
    BY <1>7 DEF across, down, MirroredX, MirroredY
  <2>3. /\ kx = x + f.x
        /\ ky = IF inY THEN MirrorY(f, y) ELSE y + f.y
        /\ from = b[<<ky, kx>>]
    BY <1>7, <2>2 DEF kx, ky, from, Turning
  <2> QED
    BY <1>4, <2>1, <2>2, <2>3 DEF FlippedFrom
<1>8. CASE t = "TRANSPOSE"
  <2>1. r = Transposed(b[<<x + f.x, y + f.y>>])
    BY <1>8 DEF r, BlockAt, do_transpose
  <2>2. ~ across /\ ~ down
    BY <1>8 DEF across, down, MirroredX, MirroredY
  <2>3. /\ kx = x + f.x
        /\ ky = y + f.y
        /\ from = Transposed(b[<<kx, ky>>])
    BY <1>8, <2>2 DEF kx, ky, from, Turning
  <2> QED
    BY <1>4, <2>1, <2>2, <2>3 DEF FlippedFrom
<1>9. CASE t = "TRANSVERSE"
  <2>1. r = do_transverse(b, f, y, x)
    BY <1>9 DEF r, BlockAt
  <2>2. /\ inY /\ inX => r = FlippedH(FlippedV(Transposed(b[<<MirrorX(f, x), MirrorY(f, y)>>])))
        /\ inY /\ ~ inX => r = FlippedV(Transposed(b[<<x + f.x, MirrorY(f, y)>>]))
        /\ ~ inY /\ inX => r = FlippedH(Transposed(b[<<MirrorX(f, x), y + f.y>>]))
        /\ ~ inY /\ ~ inX => r = Transposed(b[<<x + f.x, y + f.y>>])
    BY <1>3, <1>4, <2>1 DEF do_transverse
  <2>3. (across <=> inX) /\ (down <=> inY)
    BY <1>9 DEF across, down, MirroredX, MirroredY
  <2>4. /\ kx = IF inX THEN MirrorX(f, x) ELSE x + f.x
        /\ ky = IF inY THEN MirrorY(f, y) ELSE y + f.y
        /\ from = Transposed(b[<<kx, ky>>])
    BY <1>9, <2>3 DEF kx, ky, from, Turning
  <2> QED
    BY <1>4, <2>2, <2>3, <2>4 DEF FlippedFrom
<1>10. CASE t = "ROT_90"
  <2>1. r = IF inX THEN FlippedH(Transposed(b[<<MirrorX(f, x), y + f.y>>]))
            ELSE Transposed(b[<<x + f.x, y + f.y>>])
    BY <1>3, <1>10 DEF r, BlockAt, do_rot_90
  <2>2. (across <=> inX) /\ ~ down
    BY <1>10 DEF across, down, MirroredX, MirroredY
  <2>3. /\ kx = IF inX THEN MirrorX(f, x) ELSE x + f.x
        /\ ky = y + f.y
        /\ from = Transposed(b[<<kx, ky>>])
    BY <1>10, <2>2 DEF kx, ky, from, Turning
  <2> QED
    BY <1>4, <2>1, <2>2, <2>3 DEF FlippedFrom
<1>11. CASE t = "ROT_270"
  <2>1. r = IF inY THEN FlippedV(Transposed(b[<<x + f.x, MirrorY(f, y)>>]))
            ELSE Transposed(b[<<x + f.x, y + f.y>>])
    BY <1>3, <1>11 DEF r, BlockAt, do_rot_270
  <2>2. ~ across /\ (down <=> inY)
    BY <1>11 DEF across, down, MirroredX, MirroredY
  <2>3. /\ kx = x + f.x
        /\ ky = IF inY THEN MirrorY(f, y) ELSE y + f.y
        /\ from = Transposed(b[<<kx, ky>>])
    BY <1>11, <2>2 DEF kx, ky, from, Turning
  <2> QED
    BY <1>4, <2>1, <2>2, <2>3 DEF FlippedFrom
<1>12. CASE t = "ROT_180"
  <2>1. r = do_rot_180(b, f, y, x)
    BY <1>12 DEF r, BlockAt
  <2>2. /\ inY /\ inX => r = FlippedV(FlippedH(b[<<MirrorY(f, y), MirrorX(f, x)>>]))
        /\ inY /\ ~ inX => r = FlippedV(b[<<MirrorY(f, y), x + f.x>>])
        /\ ~ inY /\ inX => r = FlippedH(b[<<y + f.y, MirrorX(f, x)>>])
        /\ ~ inY /\ ~ inX => r = b[<<y + f.y, x + f.x>>]
    BY <1>3, <1>4, <2>1 DEF do_rot_180, inX
  <2>3. (across <=> inX) /\ (down <=> inY)
    BY <1>12 DEF across, down, MirroredX, MirroredY
  <2>4. /\ kx = IF inX THEN MirrorX(f, x) ELSE x + f.x
        /\ ky = IF inY THEN MirrorY(f, y) ELSE y + f.y
        /\ from = b[<<ky, kx>>]
    BY <1>12, <2>3 DEF kx, ky, from, Turning
  <2> QED
    BY <1>4, <2>2, <2>3, <2>4 DEF FlippedFrom
<1> QED
  BY <1>1, <1>5, <1>6, <1>7, <1>8, <1>9, <1>10, <1>11, <1>12

\* In one direction, where a place of the destination comes from: a place that
\* the source shows, in the block that the transforms take, in its column or in
\* the one mirrored.
LEMMA Reached ==
  ASSUME NEW hd, NEW HD, NEW hs, NEW HS, Fits(hd, HD, hs, HS),
         NEW F \in Nat, NEW w \in Nat, NEW o \in Nat, o * (HD * 2) + w <= F,
         NEW x \in Nat, x < RoundUp(w * hd, HD), NEW mirrored \in BOOLEAN
  PROVE  LET bx == x \div 2
             e == o * hd
             u == F \div (HD * 2)
             columns == hd * u
             n == Mirrored1(x + o * hd * 2, u * hd * 2, mirrored)
             across == mirrored /\ e + bx < columns
         IN  /\ bx \in Nat /\ bx < RoundUp(w * hd, HD * 2) /\ x % 2 \in 0..1
             /\ RoundUp(w * hd, HD * 2) \in Nat /\ Padded(F, hs, HS) \in Nat
             /\ e \in Nat /\ columns \in Nat
             /\ (e + bx < columns <=> e + First(bx, hd) < columns)
             /\ n \in Nat /\ n < RoundUp(F * hs, HS)
             /\ n \div 2 \in Nat /\ n \div 2 < Padded(F, hs, HS)
             /\ n \div 2 = IF across THEN columns - e - bx - 1 ELSE bx + e
             /\ n % 2 = IF across THEN 1 - (x % 2) ELSE x % 2
<1> DEFINE bx == x \div 2
           e == o * hd
           u == F \div (HD * 2)
           at == x + o * hd * 2
           columns == hd * u
           whole == u * hd * 2
           n == Mirrored1(at, whole, mirrored)
           across == mirrored /\ e + bx < columns
<1>1. hd \in 1..4 /\ HD \in 1..4 /\ hd <= HD
  BY DEF Fits
<1>2. /\ bx \in Nat /\ bx < RoundUp(w * hd, HD * 2) /\ RoundUp(w * hd, HD * 2) \in Nat
      /\ at \in Nat /\ at * HD < F * hd
      /\ at \div 2 = bx + e /\ at % 2 = x % 2
      /\ columns \in Nat /\ whole = 2 * columns /\ whole * HD <= F * hd
      /\ e \in Nat
      /\ (at < whole <=> e + bx < columns)
      /\ (at < whole <=> e + First(bx, hd) < columns)
  BY <1>1, Placed
<1>3. x % 2 \in 0..1
  BY Halves
<1>4. n = IF mirrored /\ at < whole THEN whole - 1 - at ELSE at
  BY DEF Mirrored1
<1> HIDE DEF bx, e, u, at, columns, whole, n
<1>5. n \in Nat /\ n * HD < F * hd
  <2>1. CASE mirrored /\ at < whole
    <3>1. n \in Nat /\ n <= whole
      BY <1>2, <1>4, <2>1
    <3>2. n < whole
      BY <1>2, <1>4, <2>1
    <3>3. n * HD < whole * HD
      BY <1>1, <1>2, <3>1, <3>2, SameFactor
    <3>4. n * HD \in Int /\ whole * HD \in Int /\ F * hd \in Int
      BY <1>1, <1>2, <3>1
    <3> QED
      BY <1>2, <3>1, <3>3, <3>4
  <2>2. CASE ~ (mirrored /\ at < whole)
    BY <1>2, <1>4, <2>2
  <2> QED
    BY <2>1, <2>2
<1>6. n < RoundUp(F * hs, HS) /\ n \div 2 < Padded(F, hs, HS) /\ Padded(F, hs, HS) \in Nat
  BY <1>5, Shown
<1>7. /\ n \div 2 = IF across THEN columns - e - bx - 1 ELSE bx + e
      /\ n % 2 = IF across THEN 1 - (x % 2) ELSE x % 2
  <2>1. CASE across
    <3>1. at < 2 * columns /\ n = 2 * columns - 1 - at
      BY <1>2, <1>4, <2>1
    <3>2. n \div 2 = columns - at \div 2 - 1 /\ n % 2 = 1 - (at % 2)
      BY <1>2, <3>1, Mirrored
    <3> QED
      BY <1>2, <2>1, <3>2
  <2>2. CASE ~ across
    BY <1>2, <1>4, <2>2
  <2> QED
    BY <2>1, <2>2
<1>8. n \div 2 \in Nat
  BY <1>5, Halves
<1> QED
  BY <1>2, <1>3, <1>5, <1>6, <1>7, <1>8 DEF bx, e, u, at, columns, whole, n

\* The destination as its headers describe it, of a request that is granted.
Destination(p, ask, d) ==
    /\ IsPicture(p) /\ IsAsk(ask) /\ Granted(p, ask)
    /\ ask.force_grayscale => CanBeGray(p)
    /\ HasFactors(d, AdjustedComps(p, ask))
    /\ d.width = Sized(p, ask).output_width
    /\ d.height = Sized(p, ask).output_height

LEMMA DestinationMCU ==
  ASSUME NEW p, NEW ask, NEW d, Destination(p, ask, d)
  PROVE  /\ Sized(p, ask).iMCU_width = HMax(d) * 2
         /\ Sized(p, ask).iMCU_height = VMax(d) * 2
<1> DEFINE K == NumComponents(p, ask)
           T == ask.transform \in Turning
           s == Sized(p, ask)
<1>1. /\ s.iMCU_width = IF T THEN MCUHeight(p, ask) ELSE MCUWidth(p, ask)
      /\ s.iMCU_height = IF T THEN MCUWidth(p, ask) ELSE MCUHeight(p, ask)
  BY GrantedSizes DEF Destination
<1>2. /\ MCUWidth(p, ask) = (IF K = 1 THEN 1 ELSE HMax(p)) * 2
      /\ MCUHeight(p, ask) = (IF K = 1 THEN 1 ELSE VMax(p)) * 2
  BY MCUIs DEF Destination
<1>3. /\ HMax(d) = IF K = 1 THEN 1 ELSE IF T THEN VMax(p) ELSE HMax(p)
      /\ VMax(d) = IF K = 1 THEN 1 ELSE IF T THEN HMax(p) ELSE VMax(p)
  BY MaxOfDestination DEF Destination
<1> HIDE DEF s, K, T
<1>4. s.iMCU_width = HMax(d) * 2 /\ s.iMCU_height = VMax(d) * 2
  BY <1>1, <1>2, <1>3
<1> QED
  BY <1>4 DEF s

\* Where a sample of the destination comes from, across and down.
PlaceX(p, ask, d, c, x) ==
    Mirrored1(x + Sized(p, ask).x_crop_offset * d.comps[c].h * 2,
              ((IF ask.transform \in Turning THEN p.height ELSE p.width)
                 \div Sized(p, ask).iMCU_width) * d.comps[c].h * 2,
              ask.transform \in MirroredX)
PlaceY(p, ask, d, c, y) ==
    Mirrored1(y + Sized(p, ask).y_crop_offset * d.comps[c].v * 2,
              ((IF ask.transform \in Turning THEN p.width ELSE p.height)
                 \div Sized(p, ask).iMCU_height) * d.comps[c].v * 2,
              ask.transform \in MirroredY)

\* One direction of the destination, in the source that it comes from.
LEMMA PlacedX ==
  ASSUME NEW p, NEW ask, NEW d, Destination(p, ask, d), NEW c \in DOMAIN d.comps,
         NEW x \in Nat, x < ComponentWidth(d, c)
  PROVE  LET T == ask.transform \in Turning
             f == Frame(p, d, c, ask, Sized(p, ask))
             bx == x \div 2
             n == PlaceX(p, ask, d, c, x)
             across == ask.transform \in MirroredX /\ f.x + bx < f.columns
         IN  /\ bx \in Nat /\ bx < WidthInBlocks(d, c) /\ x % 2 \in 0..1
             /\ f.x \in Nat /\ f.columns \in Nat /\ f.h \in Nat \ {0}
             /\ (f.x + bx < f.columns <=> f.x + First(bx, f.h) < f.columns)
             /\ n \in Nat /\ n < IF T THEN ComponentHeight(p, c) ELSE ComponentWidth(p, c)
             /\ n \div 2 \in Nat
             /\ n \div 2 < IF T THEN Padded(p.height, p.comps[c].v, VMax(p))
                           ELSE Padded(p.width, p.comps[c].h, HMax(p))
             /\ WidthInBlocks(d, c) \in Nat
             /\ T => Padded(p.height, p.comps[c].v, VMax(p)) \in Nat
             /\ ~ T => Padded(p.width, p.comps[c].h, HMax(p)) \in Nat
             /\ n \div 2 = IF across THEN MirrorX(f, bx) ELSE bx + f.x
             /\ n % 2 = IF across THEN 1 - (x % 2) ELSE x % 2
<1> DEFINE T == ask.transform \in Turning
           f == Frame(p, d, c, ask, Sized(p, ask))
           hd == d.comps[c].h
           HD == HMax(d)
           hs == IF T THEN p.comps[c].v ELSE p.comps[c].h
           HS == IF T THEN VMax(p) ELSE HMax(p)
           F == IF T THEN p.height ELSE p.width
           w == Sized(p, ask).output_width
           o == Sized(p, ask).x_crop_offset
           m == Sized(p, ask).iMCU_width
           mirrored == ask.transform \in MirroredX
           n == PlaceX(p, ask, d, c, x)
<1>1. /\ w \in Nat /\ o \in Nat /\ o * m + w <= F
  BY GrantedSizes DEF Destination
<1>2. m = HD * 2
  BY DestinationMCU
<1>3. F \in Nat
  BY DEF Destination, IsPicture
<1>4. Fits(hd, HD, hs, HS)
  BY DestinationFits DEF Destination
<1>5. /\ f.columns = hd * (F \div (HD * 2)) /\ f.x = o * hd /\ f.h = hd
  BY EdgeIsTwo DEF Frame
<1>6. n = Mirrored1(x + o * hd * 2, (F \div m) * hd * 2, mirrored)
  BY DEF PlaceX
<1>7. /\ ComponentWidth(d, c) = RoundUp(w * hd, HD)
      /\ WidthInBlocks(d, c) = RoundUp(w * hd, HD * 2)
  BY EdgeIsTwo DEF ComponentWidth, WidthInBlocks, Destination
<1>8. /\ RoundUp(F * hs, HS) = IF T THEN ComponentHeight(p, c) ELSE ComponentWidth(p, c)
      /\ Padded(F, hs, HS) = IF T THEN Padded(p.height, p.comps[c].v, VMax(p))
                             ELSE Padded(p.width, p.comps[c].h, HMax(p))
  BY DEF ComponentHeight, ComponentWidth
<1>9. mirrored \in BOOLEAN
  OBVIOUS
<1> HIDE DEF f, hd, HD, hs, HS, F, w, o, m, mirrored, n, T
<1> DEFINE bx == x \div 2
           across == mirrored /\ f.x + bx < f.columns
<1>10. o * (HD * 2) + w <= F /\ x < RoundUp(w * hd, HD)
  BY <1>1, <1>2, <1>7
<1>11. n = Mirrored1(x + o * hd * 2, (F \div (HD * 2)) * hd * 2, mirrored)
  BY <1>2, <1>6
<1>12. /\ bx \in Nat /\ bx < RoundUp(w * hd, HD * 2) /\ x % 2 \in 0..1
       /\ f.x \in Nat /\ f.columns \in Nat
       /\ (f.x + bx < f.columns <=> f.x + First(bx, f.h) < f.columns)
       /\ n \in Nat /\ n < RoundUp(F * hs, HS)
       /\ n \div 2 \in Nat /\ n \div 2 < Padded(F, hs, HS)
       /\ RoundUp(w * hd, HD * 2) \in Nat /\ Padded(F, hs, HS) \in Nat
       /\ n \div 2 = IF across THEN f.columns - f.x - bx - 1 ELSE bx + f.x
       /\ n % 2 = IF across THEN 1 - (x % 2) ELSE x % 2
  <2> DEFINE e == o * hd
             columns == hd * (F \div (HD * 2))
             k == Mirrored1(x + o * hd * 2, (F \div (HD * 2)) * hd * 2, mirrored)
             over == mirrored /\ e + bx < columns
  <2>1. /\ bx \in Nat /\ bx < RoundUp(w * hd, HD * 2) /\ x % 2 \in 0..1
        /\ e \in Nat /\ columns \in Nat
        /\ (e + bx < columns <=> e + First(bx, hd) < columns)
        /\ k \in Nat /\ k < RoundUp(F * hs, HS)
        /\ k \div 2 \in Nat /\ k \div 2 < Padded(F, hs, HS)
        /\ RoundUp(w * hd, HD * 2) \in Nat /\ Padded(F, hs, HS) \in Nat
        /\ k \div 2 = IF over THEN columns - e - bx - 1 ELSE bx + e
        /\ k % 2 = IF over THEN 1 - (x % 2) ELSE x % 2
    BY <1>1, <1>3, <1>4, <1>9, <1>10, Reached
  <2>2. e = f.x /\ columns = f.columns /\ k = n /\ hd = f.h
    BY <1>5, <1>11
  <2> HIDE DEF e, columns, k, bx
  <2> QED
    BY <2>1, <2>2
<1>13. f.h \in Nat \ {0}
  BY <1>4, <1>5 DEF Fits
<1> HIDE DEF bx
<1>14. MirrorX(f, bx) = f.columns - f.x - bx - 1
  BY DEF MirrorX
<1> QED
  BY <1>7, <1>8, <1>12, <1>13, <1>14 DEF f, n, T, mirrored, bx

LEMMA PlacedY ==
  ASSUME NEW p, NEW ask, NEW d, Destination(p, ask, d), NEW c \in DOMAIN d.comps,
         NEW y \in Nat, y < ComponentHeight(d, c)
  PROVE  LET T == ask.transform \in Turning
             f == Frame(p, d, c, ask, Sized(p, ask))
             by == y \div 2
             n == PlaceY(p, ask, d, c, y)
             down == ask.transform \in MirroredY /\ f.y + by < f.rows
         IN  /\ by \in Nat /\ by < HeightInBlocks(d, c) /\ y % 2 \in 0..1
             /\ f.y \in Nat /\ f.rows \in Nat /\ f.v \in Nat \ {0}
             /\ (f.y + by < f.rows <=> f.y + First(by, f.v) < f.rows)
             /\ n \in Nat /\ n < IF T THEN ComponentWidth(p, c) ELSE ComponentHeight(p, c)
             /\ n \div 2 \in Nat
             /\ n \div 2 < IF T THEN Padded(p.width, p.comps[c].h, HMax(p))
                           ELSE Padded(p.height, p.comps[c].v, VMax(p))
             /\ HeightInBlocks(d, c) \in Nat
             /\ T => Padded(p.width, p.comps[c].h, HMax(p)) \in Nat
             /\ ~ T => Padded(p.height, p.comps[c].v, VMax(p)) \in Nat
             /\ n \div 2 = IF down THEN MirrorY(f, by) ELSE by + f.y
             /\ n % 2 = IF down THEN 1 - (y % 2) ELSE y % 2
<1> DEFINE T == ask.transform \in Turning
           f == Frame(p, d, c, ask, Sized(p, ask))
           vd == d.comps[c].v
           VD == VMax(d)
           vs == IF T THEN p.comps[c].h ELSE p.comps[c].v
           VS == IF T THEN HMax(p) ELSE VMax(p)
           F == IF T THEN p.width ELSE p.height
           w == Sized(p, ask).output_height
           o == Sized(p, ask).y_crop_offset
           m == Sized(p, ask).iMCU_height
           mirrored == ask.transform \in MirroredY
           n == PlaceY(p, ask, d, c, y)
<1>1. /\ w \in Nat /\ o \in Nat /\ o * m + w <= F
  BY GrantedSizes DEF Destination
<1>2. m = VD * 2
  BY DestinationMCU
<1>3. F \in Nat
  BY DEF Destination, IsPicture
<1>4. Fits(vd, VD, vs, VS)
  BY DestinationFits DEF Destination
<1>5. /\ f.rows = vd * (F \div (VD * 2)) /\ f.y = o * vd /\ f.v = vd
  BY EdgeIsTwo DEF Frame
<1>6. n = Mirrored1(y + o * vd * 2, (F \div m) * vd * 2, mirrored)
  BY DEF PlaceY
<1>7. /\ ComponentHeight(d, c) = RoundUp(w * vd, VD)
      /\ HeightInBlocks(d, c) = RoundUp(w * vd, VD * 2)
  BY EdgeIsTwo DEF ComponentHeight, HeightInBlocks, Destination
<1>8. /\ RoundUp(F * vs, VS) = IF T THEN ComponentWidth(p, c) ELSE ComponentHeight(p, c)
      /\ Padded(F, vs, VS) = IF T THEN Padded(p.width, p.comps[c].h, HMax(p))
                             ELSE Padded(p.height, p.comps[c].v, VMax(p))
  BY DEF ComponentWidth, ComponentHeight
<1>9. mirrored \in BOOLEAN
  OBVIOUS
<1> HIDE DEF f, vd, VD, vs, VS, F, w, o, m, mirrored, n, T
<1> DEFINE by == y \div 2
           down == mirrored /\ f.y + by < f.rows
<1>10. o * (VD * 2) + w <= F /\ y < RoundUp(w * vd, VD)
  BY <1>1, <1>2, <1>7
<1>11. n = Mirrored1(y + o * vd * 2, (F \div (VD * 2)) * vd * 2, mirrored)
  BY <1>2, <1>6
<1>12. /\ by \in Nat /\ by < RoundUp(w * vd, VD * 2) /\ y % 2 \in 0..1
       /\ f.y \in Nat /\ f.rows \in Nat
       /\ (f.y + by < f.rows <=> f.y + First(by, f.v) < f.rows)
       /\ n \in Nat /\ n < RoundUp(F * vs, VS)
       /\ n \div 2 \in Nat /\ n \div 2 < Padded(F, vs, VS)
       /\ RoundUp(w * vd, VD * 2) \in Nat /\ Padded(F, vs, VS) \in Nat
       /\ n \div 2 = IF down THEN f.rows - f.y - by - 1 ELSE by + f.y
       /\ n % 2 = IF down THEN 1 - (y % 2) ELSE y % 2
  <2> DEFINE e == o * vd
             rows == vd * (F \div (VD * 2))
             k == Mirrored1(y + o * vd * 2, (F \div (VD * 2)) * vd * 2, mirrored)
             over == mirrored /\ e + by < rows
  <2>1. /\ by \in Nat /\ by < RoundUp(w * vd, VD * 2) /\ y % 2 \in 0..1
        /\ e \in Nat /\ rows \in Nat
        /\ (e + by < rows <=> e + First(by, vd) < rows)
        /\ k \in Nat /\ k < RoundUp(F * vs, VS)
        /\ k \div 2 \in Nat /\ k \div 2 < Padded(F, vs, VS)
        /\ RoundUp(w * vd, VD * 2) \in Nat /\ Padded(F, vs, VS) \in Nat
        /\ k \div 2 = IF over THEN rows - e - by - 1 ELSE by + e
        /\ k % 2 = IF over THEN 1 - (y % 2) ELSE y % 2
    BY <1>1, <1>3, <1>4, <1>9, <1>10, Reached
  <2>2. e = f.y /\ rows = f.rows /\ k = n /\ vd = f.v
    BY <1>5, <1>11
  <2> HIDE DEF e, rows, k, by
  <2> QED
    BY <2>1, <2>2
<1>13. f.v \in Nat \ {0}
  BY <1>4, <1>5 DEF Fits
<1> HIDE DEF by
<1>14. MirrorY(f, by) = f.rows - f.y - by - 1
  BY DEF MirrorY
<1> QED
  BY <1>7, <1>8, <1>12, <1>13, <1>14 DEF f, n, T, mirrored, by

\* A sample of the destination is the sample of the source that the transform
\* puts there, and one that the source shows.
LEMMA SampleFrom ==
  ASSUME NEW p, NEW ask, NEW d, Destination(p, ask, d), NEW c \in DOMAIN d.comps,
         NEW x \in Nat, x < ComponentWidth(d, c), NEW y \in Nat, y < ComponentHeight(d, c)
  PROVE  LET T == ask.transform \in Turning
             px == PlaceX(p, ask, d, c, x)
             py == PlaceY(p, ask, d, c, y)
             sx == IF T THEN py ELSE px
             sy == IF T THEN px ELSE py
         IN  /\ sx < ComponentWidth(p, c) /\ sy < ComponentHeight(p, c)
             /\ BlockSample(AdjustedComps(p, ask)[c].quant,
                      Blocks(p, d, c, ask, Sized(p, ask))[<<y \div 2, x \div 2>>], y % 2, x % 2)
                  = Sample(p.comps[c], sx, sy)
<1> DEFINE T == ask.transform \in Turning
           f == Frame(p, d, c, ask, Sized(p, ask))
           bx == x \div 2
           by == y \div 2
           px == PlaceX(p, ask, d, c, x)
           py == PlaceY(p, ask, d, c, y)
           sx == IF T THEN py ELSE px
           sy == IF T THEN px ELSE py
           across == ask.transform \in MirroredX /\ f.x + bx < f.columns
           down == ask.transform \in MirroredY /\ f.y + by < f.rows
           b == p.comps[c].blocks
           q == p.comps[c].quant
           kx == px \div 2
           ky == py \div 2
           r == BlockAt(b, f, by, bx, ask.transform)
           from == IF T THEN Transposed(b[<<kx, ky>>]) ELSE b[<<ky, kx>>]
           cut == Blocks(p, d, c, ask, Sized(p, ask))
           quant == AdjustedComps(p, ask)[c].quant
<1>1. /\ bx \in Nat /\ bx < WidthInBlocks(d, c) /\ x % 2 \in 0..1
      /\ f.x \in Nat /\ f.columns \in Nat /\ f.h \in Nat \ {0}
      /\ (f.x + bx < f.columns <=> f.x + First(bx, f.h) < f.columns)
      /\ px \in Nat /\ px < IF T THEN ComponentHeight(p, c) ELSE ComponentWidth(p, c)
      /\ kx \in Nat
      /\ kx < IF T THEN Padded(p.height, p.comps[c].v, VMax(p))
              ELSE Padded(p.width, p.comps[c].h, HMax(p))
      /\ WidthInBlocks(d, c) \in Nat
      /\ T => Padded(p.height, p.comps[c].v, VMax(p)) \in Nat
      /\ ~ T => Padded(p.width, p.comps[c].h, HMax(p)) \in Nat
      /\ kx = IF across THEN MirrorX(f, bx) ELSE bx + f.x
      /\ px % 2 = IF across THEN 1 - (x % 2) ELSE x % 2
  BY PlacedX
<1>2. /\ by \in Nat /\ by < HeightInBlocks(d, c) /\ y % 2 \in 0..1
      /\ f.y \in Nat /\ f.rows \in Nat /\ f.v \in Nat \ {0}
      /\ (f.y + by < f.rows <=> f.y + First(by, f.v) < f.rows)
      /\ py \in Nat /\ py < IF T THEN ComponentWidth(p, c) ELSE ComponentHeight(p, c)
      /\ ky \in Nat
      /\ ky < IF T THEN Padded(p.width, p.comps[c].h, HMax(p))
              ELSE Padded(p.height, p.comps[c].v, VMax(p))
      /\ HeightInBlocks(d, c) \in Nat
      /\ T => Padded(p.width, p.comps[c].h, HMax(p)) \in Nat
      /\ ~ T => Padded(p.height, p.comps[c].v, VMax(p)) \in Nat
      /\ ky = IF down THEN MirrorY(f, by) ELSE by + f.y
      /\ py % 2 = IF down THEN 1 - (y % 2) ELSE y % 2
  BY PlacedY
<1>3. IsAsk(ask) /\ IsPicture(p)
  BY DEF Destination
<1>4. FlippedFrom(across, down, from, r)
  <2> HIDE DEF f, bx, by, b
  <2> QED
    BY <1>1, <1>2, <1>3, BlockFrom
<1>5. cut[<<by, bx>>] = r
  <2> DEFINE at == <<by, bx>>
             D == (0 .. HeightInBlocks(d, c) - 1) \X (0 .. WidthInBlocks(d, c) - 1)
  <2>1. WidthInBlocks(d, c) \in Nat /\ HeightInBlocks(d, c) \in Nat
    BY <1>1, <1>2
  <2>2. at \in D /\ at[1] = by /\ at[2] = bx
    BY <1>1, <1>2, <2>1
  <2>3. cut = [k \in D |-> BlockAt(b, f, k[1], k[2], ask.transform)]
    BY DEF Blocks
  <2> HIDE DEF at, D, cut, f, b
  <2> QED
    BY <2>2, <2>3 DEF at
<1>6. c \in DOMAIN p.comps
  BY DestinationFits DEF Destination
<1>7. /\ q \in Block
      /\ b \in [(0 .. Padded(p.height, p.comps[c].v, VMax(p)) - 1) \X
                (0 .. Padded(p.width, p.comps[c].h, HMax(p)) - 1) -> Block]
  BY <1>3, <1>6 DEF IsPicture, Block
<1>8. quant = IF T THEN Transposed(q) ELSE q
  BY Adjusted DEF Destination, HasFactors
<1>9. sx < ComponentWidth(p, c) /\ sy < ComponentHeight(p, c)
  BY <1>1, <1>2
<1>10. Sample(p.comps[c], sx, sy) = BlockSample(q, b[<<sy \div 2, sx \div 2>>], sy % 2, sx % 2)
  BY EdgeIsTwo DEF Sample
<1> HIDE DEF px, py, across, down, r, cut, quant, q, b, kx, ky, bx, by
<1>11. ASSUME T PROVE BlockSample(quant, cut[<<by, bx>>], y % 2, x % 2) = Sample(p.comps[c], sx, sy)
  <2> DEFINE B == b[<<kx, ky>>]
  <2>1. B \in Block
    BY <1>1, <1>2, <1>7, <1>11
  <2>2. Sample(p.comps[c], sx, sy) = BlockSample(q, B, px % 2, py % 2)
    BY <1>10, <1>11 DEF kx, ky
  <2>3. quant = Transposed(q) /\ from = Transposed(B)
    BY <1>8, <1>11
  <2>4. Transposed(q) \in Block /\ Transposed(B) \in Block
    BY <1>1, <1>7, <2>1, DrawnTransposed
  <2>5. BlockSample(quant, r, y % 2, x % 2) = BlockSample(Transposed(q), Transposed(B), py % 2, px % 2)
    <3>1. FlippedFrom(across, down, Transposed(B), r) /\ across \in BOOLEAN /\ down \in BOOLEAN
      BY <1>4, <2>3 DEF across, down
    <3> HIDE DEF B
    <3>2. BlockSample(Transposed(q), r, y % 2, x % 2)
            = BlockSample(Transposed(q), Transposed(B), IF down THEN 1 - (y % 2) ELSE y % 2,
                    IF across THEN 1 - (x % 2) ELSE x % 2)
      BY <1>1, <1>2, <2>4, <3>1, DrawnFlipped
    <3> QED
      BY <1>1, <1>2, <2>3, <3>2
  <2>6. px % 2 \in 0..1 /\ py % 2 \in 0..1
    BY <1>1, <1>2, Halves
  <2> HIDE DEF B
  <2>7. BlockSample(Transposed(q), Transposed(B), py % 2, px % 2) = BlockSample(q, B, px % 2, py % 2)
    BY <1>7, <2>1, <2>6, DrawnTransposed
  <2> QED
    BY <1>5, <2>2, <2>5, <2>7
<1>12. ASSUME ~ T PROVE BlockSample(quant, cut[<<by, bx>>], y % 2, x % 2) = Sample(p.comps[c], sx, sy)
  <2> DEFINE B == b[<<ky, kx>>]
  <2>1. B \in Block
    BY <1>1, <1>2, <1>7, <1>12
  <2>2. Sample(p.comps[c], sx, sy) = BlockSample(q, B, py % 2, px % 2)
    BY <1>10, <1>12 DEF kx, ky
  <2>3. quant = q /\ from = B
    BY <1>8, <1>12
  <2>4. FlippedFrom(across, down, B, r) /\ across \in BOOLEAN /\ down \in BOOLEAN
    BY <1>4, <2>3 DEF across, down
  <2> HIDE DEF B
  <2>5. BlockSample(q, r, y % 2, x % 2)
          = BlockSample(q, B, IF down THEN 1 - (y % 2) ELSE y % 2, IF across THEN 1 - (x % 2) ELSE x % 2)
    BY <1>1, <1>2, <1>7, <2>1, <2>4, DrawnFlipped
  <2> QED
    BY <1>1, <1>2, <1>5, <2>2, <2>3, <2>5
<1>13. BlockSample(quant, cut[<<by, bx>>], y % 2, x % 2) = Sample(p.comps[c], sx, sy)
  BY <1>11, <1>12
<1> QED
  BY <1>9, <1>13 DEF px, py, cut, quant, by, bx

-----------------------------------------------------------------------------
(* The request, step by step. *)

\* The destination before it has blocks.
Described(p, ask) ==
    [width |-> Sized(p, ask).output_width, height |-> Sized(p, ask).output_height,
     comps |-> AdjustedComps(p, ask)]

TurnInv ==
    /\ \E t \in TurnJobs : picture = t.picture /\ info.ask = t.ask
    /\ info = [ask |-> info.ask, size |-> info.size]
    /\ turn \in {"asked", "refused", "sized", "adjusted", "turned"}
    /\ turn \in {"sized", "adjusted", "turned"} =>
         Granted(picture, info.ask) /\ info.size = Sized(picture, info.ask)
    /\ turn \in {"adjusted", "turned"} => (info.ask.force_grayscale => CanBeGray(picture))
    /\ turn = "adjusted" => turned = Described(picture, info.ask)
    /\ turn = "turned" =>
         LET e == Described(picture, info.ask)
         IN  /\ turned.width = e.width /\ turned.height = e.height
             /\ DOMAIN turned.comps = DOMAIN e.comps
             /\ \A c \in DOMAIN e.comps :
                  turned.comps[c] = [h |-> e.comps[c].h, v |-> e.comps[c].v, quant |-> e.comps[c].quant,
                                     blocks |-> Blocks(picture, e, c, info.ask, info.size)]

LEMMA TurnInvInit == TurnInit => TurnInv
<1> SUFFICES ASSUME TurnInit PROVE TurnInv
  OBVIOUS
<1>1. PICK t \in TurnJobs : picture = t.picture /\ info = [ask |-> t.ask, size |-> NotYetSized]
  BY DEF TurnInit
<1>2. info.ask = t.ask /\ info.size = NotYetSized
  BY <1>1
<1>3. turn = "asked"
  BY DEF TurnInit
<1> QED
  BY <1>1, <1>2, <1>3 DEF TurnInv

LEMMA TurnInvNext == TurnInv /\ [TurnNext]_turnVars => TurnInv'
<1> SUFFICES ASSUME TurnInv, [TurnNext]_turnVars PROVE TurnInv'
  OBVIOUS
<1> DEFINE p == picture
           ask == info.ask
<1>1. PICK t \in TurnJobs : picture = t.picture /\ info.ask = t.ask
  BY DEF TurnInv
<1>2. IsPicture(picture) /\ IsAsk(info.ask)
  BY <1>1, TurnJobsAssumption
<1>3. CASE jtransform_request_workspace
  <2> DEFINE size == TurnedSize(picture, info.ask)
             cut == Cropped(size, info.ask.crop)
             bad == \/ info.ask.perfect /\ ~ perfect_transform(picture.width, picture.height,
                                               MCUWidth(picture, info.ask), MCUHeight(picture, info.ask),
                                               info.ask.transform)
                    \/ BadCrop(size, info.ask.crop)
             s == [info EXCEPT !.size = cut]
  <2>1. picture' = picture /\ turned' = turned
    BY <1>3 DEF jtransform_request_workspace
  <2>2. CASE bad
    <3>1. turn' = "refused" /\ info' = info
      BY <1>3, <2>2 DEF jtransform_request_workspace, Refused
    <3> QED
      BY <2>1, <3>1 DEF TurnInv
  <2>3. CASE ~ bad
    <3>1. turn' = "sized" /\ info' = [s EXCEPT !.size = Trimmed(s.size, picture, s.ask)]
      BY <1>3, <2>3 DEF jtransform_request_workspace, Accepted
    <3>2. info = [ask |-> info.ask, size |-> info.size]
      BY DEF TurnInv
    <3>3. s = [ask |-> info.ask, size |-> cut]
      <4> HIDE DEF cut
      <4> QED
        BY <3>2
    <3>4. s.size = cut /\ s.ask = info.ask
      BY <3>3
    <3>5. Trimmed(s.size, picture, s.ask) = Sized(picture, info.ask)
      BY <3>4 DEF Sized
    <3> HIDE DEF s
    <3>6. info' = [ask |-> info.ask, size |-> Sized(picture, info.ask)]
      BY <3>1, <3>3, <3>5
    <3>7. info'.ask = info.ask /\ info'.size = Sized(picture, info.ask)
      BY <3>6
    <3>8. Granted(picture, info.ask)
      BY <2>3 DEF Granted
    <3> QED
      BY <1>1, <2>1, <3>1, <3>6, <3>7, <3>8 DEF TurnInv
  <2> QED
    BY <2>2, <2>3
<1>4. CASE jtransform_adjust_parameters
  <2>1. picture' = picture /\ info' = info /\ turn = "sized"
    BY <1>4 DEF jtransform_adjust_parameters
  <2>2. Granted(picture, info.ask) /\ info.size = Sized(picture, info.ask)
    BY <2>1 DEF TurnInv
  <2>3. CASE info.ask.force_grayscale /\ ~ CanBeGray(picture)
    <3>1. turn' = "refused"
      BY <1>4, <2>3 DEF jtransform_adjust_parameters
    <3> QED
      BY <2>1, <3>1 DEF TurnInv
  <2>4. CASE ~ (info.ask.force_grayscale /\ ~ CanBeGray(picture))
    <3>1. /\ turn' = "adjusted"
          /\ turned' = [width |-> info.size.output_width, height |-> info.size.output_height,
                        comps |-> AdjustedComps(picture, info.ask)]
      BY <1>4, <2>4 DEF jtransform_adjust_parameters
    <3>2. turned' = Described(picture, info.ask)
      BY <2>2, <3>1 DEF Described
    <3>3. info.ask.force_grayscale => CanBeGray(picture)
      BY <2>4
    <3> QED
      BY <2>1, <2>2, <3>1, <3>2, <3>3 DEF TurnInv
  <2> QED
    BY <2>3, <2>4
<1>5. CASE jtransform_execute_transform
  <2> DEFINE e == Described(picture, info.ask)
             comps == [c \in DOMAIN turned.comps |->
                         [h |-> turned.comps[c].h, v |-> turned.comps[c].v, quant |-> turned.comps[c].quant,
                          blocks |-> Blocks(picture, turned, c, info.ask, info.size)]]
  <2>1. /\ picture' = picture /\ info' = info /\ turn = "adjusted" /\ turn' = "turned"
        /\ turned' = [turned EXCEPT !.comps = comps]
    BY <1>5 DEF jtransform_execute_transform
  <2>2. /\ turned = e
        /\ Granted(picture, info.ask) /\ info.size = Sized(picture, info.ask)
        /\ info.ask.force_grayscale => CanBeGray(picture)
    BY <2>1 DEF TurnInv
  <2> DEFINE w == Sized(picture, info.ask).output_width
             h == Sized(picture, info.ask).output_height
             cs == AdjustedComps(picture, info.ask)
  <2>3. e = [width |-> w, height |-> h, comps |-> cs]
    BY DEF Described
  <2> HIDE DEF w, h, cs, e
  <2>4. e.width = w /\ e.height = h /\ e.comps = cs
    BY <2>3
  <2>5. /\ DOMAIN comps = DOMAIN e.comps
        /\ \A c \in DOMAIN e.comps :
             comps[c] = [h |-> e.comps[c].h, v |-> e.comps[c].v, quant |-> e.comps[c].quant,
                         blocks |-> Blocks(picture, e, c, info.ask, info.size)]
    BY <2>2
  <2> HIDE DEF comps
  <2>6. turned'.width = w /\ turned'.height = h /\ turned'.comps = comps
    <3>1. turned' = [[width |-> w, height |-> h, comps |-> cs] EXCEPT !.comps = comps]
      BY <2>1, <2>2, <2>3
    <3> QED
      BY <3>1
  <2>7. /\ turned'.width = e.width /\ turned'.height = e.height
        /\ DOMAIN turned'.comps = DOMAIN e.comps
        /\ \A c \in DOMAIN e.comps :
             turned'.comps[c] = [h |-> e.comps[c].h, v |-> e.comps[c].v, quant |-> e.comps[c].quant,
                                 blocks |-> Blocks(picture, e, c, info.ask, info.size)]
    BY <2>4, <2>5, <2>6
  <2> QED
    BY <2>1, <2>2, <2>7 DEF TurnInv, e
<1>6. CASE UNCHANGED turnVars
  BY <1>6 DEF TurnInv, turnVars
<1> QED
  BY <1>3, <1>4, <1>5, <1>6 DEF TurnNext

\* The blocks hang on nothing of the destination but its headers.
LEMMA SameBlocks ==
  ASSUME NEW p, IsPicture(p), NEW ask, ask.force_grayscale => CanBeGray(p), NEW size,
         NEW d, NEW e, HasFactors(d, AdjustedComps(p, ask)), HasFactors(e, AdjustedComps(p, ask)),
         d.width = e.width, d.height = e.height, NEW c \in DOMAIN AdjustedComps(p, ask)
  PROVE  Blocks(p, d, c, ask, size) = Blocks(p, e, c, ask, size)
<1>1. HMax(d) = HMax(e) /\ VMax(d) = VMax(e)
  BY MaxOfDestination
<1>2. d.comps[c].h = e.comps[c].h /\ d.comps[c].v = e.comps[c].v
  BY DEF HasFactors
<1>3. Frame(p, d, c, ask, size) = Frame(p, e, c, ask, size)
  BY <1>1, <1>2 DEF Frame
<1>4. WidthInBlocks(d, c) = WidthInBlocks(e, c) /\ HeightInBlocks(d, c) = HeightInBlocks(e, c)
  BY <1>1, <1>2 DEF WidthInBlocks, HeightInBlocks
<1> QED
  BY <1>3, <1>4 DEF Blocks

LEMMA ComponentSizes ==
  ASSUME NEW p, NEW ask, NEW d, Destination(p, ask, d), NEW c \in DOMAIN d.comps
  PROVE  ComponentWidth(d, c) \in Nat /\ ComponentHeight(d, c) \in Nat
<1> DEFINE h == d.comps[c].h
           v == d.comps[c].v
           H == HMax(d)
           V == VMax(d)
<1>1. h \in 1..4 /\ v \in 1..4 /\ H \in 1..4 /\ V \in 1..4
  BY DestinationFits DEF Destination, Fits
<1>2. d.width \in Nat /\ d.height \in Nat
  BY GrantedSizes DEF Destination
<1>3. ComponentWidth(d, c) = RoundUp(d.width * h, H) /\ ComponentHeight(d, c) = RoundUp(d.height * v, V)
  BY DEF ComponentWidth, ComponentHeight
<1> HIDE DEF h, v, H, V
<1>4. d.width * h \in Nat /\ d.height * v \in Nat /\ H \in Nat \ {0} /\ V \in Nat \ {0}
  BY <1>1, <1>2
<1> QED
  BY <1>3, <1>4, BelowRoundUp

\* A request that is granted turns the picture, in every state.
LEMMA TurnInvIsEnough == TurnInv => PictureTurns
<1> SUFFICES ASSUME TurnInv, turn = "turned" PROVE PictureTurns
  BY DEF PictureTurns
<1> DEFINE p == picture
           ask == info.ask
           s == Sized(p, ask)
           e == Described(p, ask)
           cs == AdjustedComps(p, ask)
           d == turned
           T == ask.transform \in Turning
<1>1. PICK t \in TurnJobs : picture = t.picture /\ info.ask = t.ask
  BY DEF TurnInv
<1>2. IsPicture(p) /\ IsAsk(ask)
  BY <1>1, TurnJobsAssumption
<1>3. /\ Granted(p, ask) /\ info.size = s
      /\ ask.force_grayscale => CanBeGray(p)
      /\ d.width = e.width /\ d.height = e.height
      /\ DOMAIN d.comps = DOMAIN e.comps
      /\ \A c \in DOMAIN e.comps :
           d.comps[c] = [h |-> e.comps[c].h, v |-> e.comps[c].v, quant |-> e.comps[c].quant,
                         blocks |-> Blocks(p, e, c, ask, s)]
  BY DEF TurnInv
<1>4. e.width = s.output_width /\ e.height = s.output_height /\ e.comps = cs
  BY DEF Described
<1> HIDE DEF e, s, cs
<1>5. \A c \in DOMAIN cs : /\ d.comps[c].h = cs[c].h /\ d.comps[c].v = cs[c].v
                           /\ d.comps[c].quant = cs[c].quant
                           /\ d.comps[c].blocks = Blocks(p, e, c, ask, s)
  <2> SUFFICES ASSUME NEW c \in DOMAIN cs
               PROVE  /\ d.comps[c].h = cs[c].h /\ d.comps[c].v = cs[c].v
                      /\ d.comps[c].quant = cs[c].quant
                      /\ d.comps[c].blocks = Blocks(p, e, c, ask, s)
    OBVIOUS
  <2> DEFINE blocks == Blocks(p, e, c, ask, s)
             comp == d.comps[c]
  <2>1. comp = [h |-> cs[c].h, v |-> cs[c].v, quant |-> cs[c].quant, blocks |-> blocks]
    BY <1>3, <1>4
  <2> HIDE DEF blocks, comp
  <2>2. /\ comp.h = cs[c].h /\ comp.v = cs[c].v
        /\ comp.quant = cs[c].quant /\ comp.blocks = blocks
    BY <2>1
  <2> QED
    BY <2>2 DEF comp, blocks
<1>6. HasFactors(d, cs) /\ HasFactors(e, cs)
  BY <1>3, <1>4, <1>5 DEF HasFactors
<1>7. Destination(p, ask, d)
  BY <1>2, <1>3, <1>4, <1>6 DEF Destination, s, cs
<1>8. \A c \in DOMAIN cs : d.comps[c].blocks = Blocks(p, d, c, ask, s)
  BY <1>2, <1>3, <1>5, <1>6, SameBlocks DEF cs
<1>9. FullWidth = (IF T THEN p.height ELSE p.width) /\ FullHeight = (IF T THEN p.width ELSE p.height)
  BY DEF FullWidth, FullHeight
<1>10. ASSUME NEW c \in DOMAIN d.comps,
              NEW x \in 0 .. ComponentWidth(d, c) - 1, NEW y \in 0 .. ComponentHeight(d, c) - 1
       PROVE  /\ SourceX(c, x, y) < ComponentWidth(p, c)
              /\ SourceY(c, x, y) < ComponentHeight(p, c)
              /\ Sample(d.comps[c], x, y) = Sample(p.comps[c], SourceX(c, x, y), SourceY(c, x, y))
  <2>1. /\ FromX(c, x) = PlaceX(p, ask, d, c, x)
        /\ FromY(c, y) = PlaceY(p, ask, d, c, y)
    BY <1>3, <1>9, EdgeIsTwo DEF FromX, FromY, PlaceX, PlaceY, WholeX, WholeY, s
  <2>2. Sample(d.comps[c], x, y)
          = BlockSample(cs[c].quant, Blocks(p, d, c, ask, s)[<<y \div 2, x \div 2>>], y % 2, x % 2)
    BY <1>3, <1>4, <1>5, <1>8, EdgeIsTwo DEF Sample
  <2>3. x \in Nat /\ x < ComponentWidth(d, c) /\ y \in Nat /\ y < ComponentHeight(d, c)
    BY <1>7, ComponentSizes
  <2> QED
    BY <1>7, <2>1, <2>2, <2>3, SampleFrom DEF SourceX, SourceY, s, cs
<1>11. ask.perfect \/ (ask.trim /\ ~ ask.crop.asked) => AllMirrored
  BY <1>2, <1>3, <1>4, <1>9, GrantedSizes DEF AllMirrored, s
<1>12. ask.crop.asked /\ ~ ask.trim =>
         /\ Covers(ask.crop.x, FullWidth, info.size.x_crop_offset, info.size.iMCU_width, d.width)
         /\ Covers(ask.crop.y, FullHeight, info.size.y_crop_offset, info.size.iMCU_height, d.height)
  BY <1>2, <1>3, <1>4, <1>9, GrantedSizes DEF s
<1> QED
  BY <1>10, <1>11, <1>12 DEF PictureTurns

\* Whatever the picture and the request, a request that is granted turns the
\* picture and not only its blocks (do_flip_h and the others of transupp.c).
THEOREM PicturesTurn == TurnSpec => []PictureTurns
<1>1. TurnSpec => []TurnInv
  BY TurnInvInit, TurnInvNext, PTL DEF TurnSpec
<1> QED
  BY <1>1, TurnInvIsEnough, PTL
=============================================================================
