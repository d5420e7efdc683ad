---------------------------- MODULE FrameProofs ----------------------------
(***************************************************************************)
(* Proofs that the tablet's reader hands on whole pictures, and all of a   *)
(* steady stream's.                                                        *)
(***************************************************************************)
EXTENDS StreamProofs

-----------------------------------------------------------------------------
(***************************************************************************)
(* The order of the parts.                                                 *)
(***************************************************************************)

LEMMA PicturesInOrder ==
  ASSUME Laid, NEW j \in 1..Len(parts), NEW k \in 1..Len(parts), j < k
  PROVE  PictureAt(j) < PictureAt(k) /\ End(j) <= PictureAt(k) /\ End(j) <= End(k - 1)
<1>1. Len(parts) \in Nat
  BY DEF Laid
<1>2. j \in Nat /\ k \in Nat /\ Placed(j) /\ Placed(k) /\ j \in 0..Len(parts)
      /\ k - 1 \in 0..Len(parts) /\ j <= k - 1
  BY <1>1 DEF Laid
<1>3. End(j) <= End(k - 1)
  BY <1>2, EndsGrow
<1>4. /\ PictureAt(j) \in Nat /\ End(j) \in Nat /\ PictureAt(j) < End(j)
      /\ PictureAt(k) \in Nat /\ End(k - 1) \in Nat /\ End(k - 1) <= PictureAt(k)
  BY <1>2, PartGrows
<1> QED
  BY <1>3, <1>4

LEMMA HeadersGrow ==
  ASSUME Laid, \A k \in 2..Len(parts) : Len(parts[k].header) >= Len(parts[k - 1].header),
         NEW j \in 1..Len(parts), NEW k \in 1..Len(parts), j <= k
  PROVE  Len(parts[j].header) <= Len(parts[k].header)
<1> DEFINE N == Len(parts)
           h(i) == Len(parts[i].header)
           Longer == {i \in 0..N : j <= i => h(j) <= h(i)}
<1>1. N \in Nat /\ \A i \in 1..N : h(i) \in Nat
  BY DEF Laid, Placed
<1>2. \A i \in 2..N : h(i) >= h(i - 1)
  OBVIOUS
<1>3. j \in 1..N /\ k \in 1..N /\ j <= k
  OBVIOUS
<1> HIDE DEF N, h
<1>4. 0 \in Longer
  BY <1>1, <1>3
<1>5. ASSUME NEW i \in 0..N, i \in Longer, i < N PROVE i + 1 \in Longer
  <2>1. CASE j <= i
    <3>1. i + 1 \in 2..N /\ i + 1 - 1 = i /\ i \in 1..N /\ i + 1 \in 1..N
      BY <1>1, <1>3, <1>5, <2>1
    <3>2. h(i + 1) >= h(i)
      BY <1>2, <3>1
    <3>3. h(j) <= h(i)
      BY <1>5, <2>1
    <3>4. h(i + 1) \in Nat /\ h(i) \in Nat /\ h(j) \in Nat
      BY <1>1, <1>3, <3>1
    <3>5. h(j) <= h(i + 1)
      BY <3>2, <3>3, <3>4
    <3> QED
      BY <1>1, <3>1, <3>5
  <2>2. CASE j = i + 1
    <3>1. h(j) <= h(j)
      BY <1>1, <1>3
    <3> QED
      BY <1>1, <1>3, <2>2, <3>1
  <2>3. CASE i + 1 < j
    BY <1>1, <1>3, <1>5, <2>3
  <2> QED
    BY <1>1, <1>3, <2>1, <2>2, <2>3
<1>6. \A i \in 0..N : i \in Longer
  <2> HIDE DEF Longer
  <2> QED
    BY <1>1, <1>4, <1>5, CountUp
<1>7. h(j) <= h(k)
  BY <1>1, <1>3, <1>6
<1> QED
  BY <1>7 DEF h

-----------------------------------------------------------------------------
(***************************************************************************)
(* Where the reader stands.                                                *)
(***************************************************************************)

\* Between two pictures.
InGap(p, k) == End(k - 1) <= p /\ p <= PictureAt(k)

AtGap(p) == \E k \in 1..Len(parts) : InGap(p, k)

\* Behind a picture's beginning, after a search that lost the mark: as long as
\* its length is the last it looks around, the next ones lose it too.
Astray(p, length) ==
    \E j \in 1..Len(parts) :
      /\ PictureAt(j) < p
      /\ Len(parts[j].header) + Half(3 * length) > FRAME_MAX_LENGTH + 1

InPlace(p, length) == AtGap(p) \/ p = Len(data) \/ Astray(p, length)

LEMMA AtAnEnd ==
  ASSUME Laid, NEW k \in 1..Len(parts), End(k) <= Len(data)
  PROVE  AtGap(End(k)) \/ End(k) = Len(data)
<1>1. Len(parts) \in Nat /\ k \in Nat /\ Len(data) \in Nat /\ Len(data) <= End(Len(parts))
  BY DEF Laid
<1>2. CASE k = Len(parts)
  <2>1. End(k) \in Nat
    BY <1>1, PartGrows DEF Laid
  <2> QED
    BY <1>1, <1>2, <2>1
<1>3. CASE k < Len(parts)
  <2>1. PICK l \in 1..Len(parts) : l = k + 1 /\ k = l - 1
    BY <1>1, <1>3
  <2>2. l \in Nat /\ Placed(l)
    BY <1>1 DEF Laid
  <2>3. End(l - 1) <= PictureAt(l) /\ End(l - 1) \in Nat
    BY <2>2, PartGrows
  <2>4. InGap(End(l - 1), l)
    BY <2>3 DEF InGap
  <2> QED
    BY <2>1, <2>4, Zenon DEF AtGap
<1> QED
  BY <1>1, <1>2, <1>3

\* In a gap, the picture the search for a mark finds is the next.
LEMMA FirstFromGap ==
  ASSUME Laid, NEW k \in 1..Len(parts), NEW m \in 1..Len(parts), NEW p \in Nat, NEW hl,
         InGap(p, k), FirstFrom(m, p, hl)
  PROVE  m = k /\ hl <= Len(parts[m].header)
<1>1. /\ k \in Nat /\ m \in Nat /\ Len(parts) \in Nat /\ Placed(k) /\ Placed(m)
      /\ hl \in Nat /\ p + hl = PictureAt(m) /\ End(k - 1) <= p /\ p <= PictureAt(k)
      /\ PictureAt(m) <= PictureAt(k)
  BY DEF Laid, FirstFrom, InGap
<1>2. /\ PictureAt(m) \in Nat /\ PictureAt(k) \in Nat /\ End(k - 1) \in Nat
      /\ End(m) \in Nat /\ PictureAt(m) < End(m)
  BY <1>1, PartGrows
<1>3. ~ (k < m)
  <2>1. k < m => PictureAt(k) < PictureAt(m)
    BY PicturesInOrder
  <2> QED
    BY <1>1, <1>2, <2>1
<1>4. ~ (m < k)
  <2>1. m < k => End(m) <= End(k - 1)
    BY PicturesInOrder
  <2> QED
    BY <1>1, <1>2, <2>1
<1>5. m = k
  BY <1>1, <1>3, <1>4
<1>6. PictureAt(k) = End(k - 1) + Len(parts[k].header) /\ Len(parts[k].header) \in Nat
  BY <1>1 DEF Placed
<1> QED
  BY <1>1, <1>2, <1>5, <1>6

\* What is read before a picture is of its header, or of the picture before.
LEMMA LengthsOf ==
  ASSUME StreamOK, Laid, pos \in 0..Len(data), NEW m \in 1..Len(parts), NEW hl,
         FirstFrom(m, pos, hl), NEW length \in LengthsIn(hl)
  PROVE  \E b \in DOMAIN LengthLine \cap ToSet(parts[m].header) : length = LengthLine[b]
<1>1. Len(data) \in Nat /\ Len(parts) \in Nat /\ Len(data) <= End(Len(parts))
      /\ hl \in Nat /\ pos \in Nat /\ pos + hl = PictureAt(m) /\ PictureAt(m) + 2 <= Len(data)
      /\ \A k \in 1..Len(parts) : pos <= PictureAt(k) => PictureAt(m) <= PictureAt(k)
  BY DEF Laid, FirstFrom
<1>2. PICK b \in DOMAIN LengthLine : /\ length = LengthLine[b]
                                     /\ \E i \in 1..hl : b = data[pos + i]
  BY DEF LengthsIn
<1>3. PICK i \in 1..hl : b = data[pos + i]
  BY <1>2
<1> DEFINE x == pos + i
<1>4. x \in Nat /\ pos < x /\ x <= PictureAt(m) /\ x <= Len(data) /\ x \in 1..End(Len(parts))
  <2>1. End(Len(parts)) \in Nat
    BY <1>1 DEF Laid
  <2> QED
    BY <1>1, <2>1
<1> HIDE DEF x
<1>5. PICK j \in 1..Len(parts) : End(j - 1) < x /\ x <= End(j)
  BY <1>4, InAPart
<1>6. /\ j \in Nat /\ m \in Nat /\ Placed(j) /\ Placed(m) /\ IsPart(parts[j])
  BY <1>1, PartIs DEF Laid, StreamOK
<1>7. /\ PictureAt(m) \in Nat /\ PictureAt(j) \in Nat /\ End(j - 1) \in Nat
      /\ End(m) \in Nat /\ PictureAt(m) < End(m)
  BY <1>6, PartGrows
<1>8. x <= PictureAt(j)
  <2>1. SUFFICES ASSUME PictureAt(j) < x PROVE FALSE
    BY <1>4, <1>7
  <2> DEFINE q == parts[j].picture
             l == x - PictureAt(j)
  <2>2. l \in 1..Len(q) /\ data[x] = q[l]
    BY <1>4, <1>5, <2>1, ByteAt
  <2>3. q \in Seq(STRING) /\ ToSet(q) \cap DOMAIN LengthLine = {}
    BY <1>6 DEF IsPart
  <2> HIDE DEF q, l
  <2>4. data[x] \in ToSet(q)
    BY <2>2, <2>3 DEF ToSet
  <2> QED
    BY <1>3, <2>3, <2>4 DEF x
<1>9. j = m
  <2>1. ~ (j < m)
    <3>1. j < m => PictureAt(j) < PictureAt(m)
      BY PicturesInOrder
    <3>2. PictureAt(m) <= PictureAt(j)
      BY <1>1, <1>4, <1>7, <1>8
    <3> QED
      BY <1>7, <3>1, <3>2
  <2>2. ~ (m < j)
    <3>1. m < j => End(m) <= End(j - 1)
      BY PicturesInOrder
    <3> QED
      BY <1>4, <1>5, <1>7, <3>1
  <2> QED
    BY <1>6, <2>1, <2>2
<1> DEFINE h == parts[m].header
           l == x - End(m - 1)
<1>10. l \in 1..Len(h) /\ data[x] = h[l]
  BY <1>4, <1>5, <1>8, <1>9, ByteAt
<1>11. h \in Seq(STRING)
  BY <1>6, <1>9 DEF IsPart
<1>12. data[x] \in ToSet(h)
  <2> HIDE DEF h, l
  <2> QED
    BY <1>10, <1>11 DEF ToSet
<1>13. b = data[x]
  BY <1>3 DEF x
<1> QED
  BY <1>2, <1>12, <1>13

-----------------------------------------------------------------------------
(***************************************************************************)
(* Whole frames, in a tidy stream.                                         *)
(***************************************************************************)

Whole(where, length) ==
    \E k \in 1..Len(parts) : where = PictureAt(k) /\ where + length >= End(k)

\* Between two calls: a length to look around, and a place that is not within a
\* picture, unless no search from it can come to hand a frame on.
Ready(p, length) ==
    /\ length >= 2 \/ (length = -1 /\ p \in {0, Len(data)})
    /\ InPlace(p, length)

TidyInv ==
    /\ \A i \in 1..Len(frames) : Whole(frames[i].at, frames[i].len)
    /\ result \notin {"end", "throws"} => Ready(pos, mContentLength)

\* How a call in a tidy stream ends.
TidyEnds ==
    \/ \E how \in {"end", "throws"} : \E p, length : CallFails(how, p, length)
    \/ \E p, length : CallFails("io", p, length) /\ Ready(p, length)
    \/ \E p, length : /\ CallGives(p, length)
                      /\ Whole(p, length)
                      /\ Ready(p + length, length)

LEMMA TidyParts ==
  ASSUME StreamOK, Tidy
  PROVE  /\ AllClean
         /\ \A k \in 1..Len(parts) : Honest(k) /\ Len(parts[k].header) <= FRAME_MAX_LENGTH
         /\ \A k \in 2..Len(parts) : Len(parts[k].header) >= Len(parts[k - 1].header)
<1>1. DOMAIN parts = 1..Len(parts)
  BY DEF StreamOK
<1> QED
  BY <1>1 DEF Tidy, AllClean

\* By the length a header gives.
LEMMA TidyTold ==
  ASSUME StreamOK, Laid, Tidy, pos \in 0..Len(data), NEW m \in 1..Len(parts), NEW hl,
         FirstFrom(m, pos, hl), EndsTold(hl)
  PROVE  TidyEnds
<1>1. PICK length \in LengthsIn(hl) :
         \/ length < 0 /\ CallFails("throws", pos + hl, length)
         \/ pos + hl + length > Len(data) /\ CallFails("io", Len(data), length)
         \/ /\ length >= 0 /\ pos + hl + length <= Len(data)
            /\ CallGives(pos + hl, length)
  BY DEF EndsTold
<1>2. length = Len(parts[m].picture)
  <2>1. PICK b \in DOMAIN LengthLine \cap ToSet(parts[m].header) : length = LengthLine[b]
    BY LengthsOf
  <2>2. Honest(m)
    BY TidyParts
  <2> QED
    BY <2>1, <2>2 DEF Honest
<1>3. /\ Placed(m) /\ pos + hl = PictureAt(m) /\ hl \in Nat /\ Len(data) \in Nat
      /\ Len(parts) \in Nat /\ m \in Nat
  BY DEF Laid, FirstFrom
<1>4. /\ length \in Nat /\ length >= 4 /\ pos + hl \in Nat
      /\ End(m) = pos + hl + length /\ End(m) \in Nat
  BY <1>2, <1>3 DEF Placed
<1>5. CASE CallFails("throws", pos + hl, length)
  BY <1>5 DEF TidyEnds
<1>6. CASE CallFails("io", Len(data), length)
  <2>1. Ready(Len(data), length)
    BY <1>4 DEF Ready, InPlace
  <2> QED
    BY <1>6, <2>1 DEF TidyEnds
<1>7. CASE pos + hl + length <= Len(data) /\ CallGives(pos + hl, length)
  <2>1. Whole(pos + hl, length)
    BY <1>3, <1>4 DEF Whole
  <2>2. Ready(End(m), length)
    <3>1. AtGap(End(m)) \/ End(m) = Len(data)
      BY <1>4, <1>7, AtAnEnd
    <3> QED
      BY <1>4, <3>1 DEF Ready, InPlace
  <2>3. Ready(pos + hl + length, length)
    BY <1>4, <2>2
  <2> QED
    BY <1>7, <2>1, <2>3 DEF TidyEnds
<1> QED
  BY <1>1, <1>5, <1>6, <1>7

\* A mark that is found ends a picture.
LEMMA EndFound ==
  ASSUME StreamOK, Laid, AllClean, NEW e \in Nat, e >= 2, e <= Len(data), MarkEnds(e, "FF", "D9")
  PROVE  \E p \in 1..Len(parts) : e = End(p)
<1>1. PICK p \in 1..Len(parts) : e = IF "D9" = "D8" THEN PictureAt(p) + 2 ELSE End(p)
  BY MarkIn
<1>2. "D9" # "D8"
  OBVIOUS
<1> QED
  BY <1>1, <1>2

\* By the end near the last length: it lies behind the picture's beginning.
LEMMA TidyNear ==
  ASSUME StreamOK, Laid, Tidy, pos \in 0..Len(data), mContentLength \in Int,
         NEW m \in 1..Len(parts), NEW hl, FirstFrom(m, pos, hl),
         NEW near, near >= 2, NearSays(near, hl), EndsNear(hl, SkipTo(hl) + near)
  PROVE  TidyEnds
<1> DEFINE e == SkipTo(hl) + near
<1>1. /\ Placed(m) /\ pos + hl = PictureAt(m) /\ hl \in Nat /\ Len(data) \in Nat
      /\ Len(parts) \in Nat /\ m \in Nat
  BY DEF Laid, FirstFrom
<1>2. /\ near \in Int /\ SkipTo(hl) \in Nat /\ mContentLength >= 2
      /\ SkipTo(hl) = pos + hl + Half(mContentLength) - 1
      /\ e <= Len(data) /\ MarkEnds(e, "FF", "D9")
  BY DEF NearSays
<1>3. Half(mContentLength) \in Int /\ Half(mContentLength) >= 1
  BY <1>2, HalfIs
<1>4. e \in Nat /\ e >= 2 /\ e >= pos + hl + 2 /\ e - pos - hl \in Nat /\ e - pos - hl >= 2
      /\ pos + hl + (e - pos - hl) = e /\ pos + hl \in Nat
  <2> DEFINE half == Half(mContentLength)
  <2>1. e = pos + hl + half - 1 + near
    BY <1>2
  <2>2. half \in Nat /\ half >= 1 /\ pos \in Nat /\ hl \in Nat /\ near \in Nat /\ near >= 2
    BY <1>1, <1>2, <1>3
  <2> HIDE DEF e, half
  <2> QED
    BY <2>1, <2>2
<1>5. PICK p \in 1..Len(parts) : e = End(p)
  <2> HIDE DEF e
  <2> QED
    BY <1>2, <1>4, EndFound, TidyParts
<1> DEFINE length == e - pos - hl
<1> HIDE DEF e
<1>6. End(p) >= End(m)
  <2>1. ~ (p < m)
    <3>1. p < m => End(p) <= PictureAt(m)
      BY PicturesInOrder
    <3> QED
      BY <1>1, <1>4, <1>5, <3>1
  <2>2. p \in Nat /\ p \in 0..Len(parts) /\ m \in 0..Len(parts) /\ m <= p
    BY <1>1, <2>1
  <2>3. End(m) <= End(p) /\ End(p) \in Nat /\ End(m) \in Nat
    BY <2>2, EndsGrow DEF Laid
  <2> QED
    BY <2>3
<1>7. Whole(pos + hl, length)
  BY <1>1, <1>4, <1>5, <1>6 DEF Whole
<1>8. Ready(e, length)
  <2>1. AtGap(e) \/ e = Len(data)
    BY <1>2, <1>5, AtAnEnd
  <2> QED
    BY <1>4, <2>1 DEF Ready, InPlace
<1>9. CASE CallFails("io", e, length)
  BY <1>8, <1>9 DEF TidyEnds
<1>10. CASE CallGives(pos + hl, length)
  <2>1. Ready(pos + hl + length, length)
    BY <1>4, <1>8
  <2> QED
    BY <1>7, <1>10, <2>1 DEF TidyEnds
<1> QED
  BY <1>9, <1>10 DEF EndsNear, e

\* The reader stands before the next picture, or behind the beginning of another.
LEMMA GapOrAstray ==
  ASSUME Laid, pos \in 0..Len(data), NEW m \in 1..Len(parts), NEW hl,
         FirstFrom(m, pos, hl), Ready(pos, mContentLength)
  PROVE  \/ InGap(pos, m) /\ hl <= Len(parts[m].header)
         \/ mContentLength >= 2 /\ Astray(pos, mContentLength)
<1>1. pos \in Nat /\ hl \in Nat /\ pos + hl + 2 <= Len(data) /\ Len(data) \in Nat /\ Len(parts) \in Nat
      /\ 1 \in 1..Len(parts)
  BY DEF FirstFrom, Laid
<1>2. pos # Len(data)
  BY <1>1
<1>3. CASE AtGap(pos)
  <2>1. PICK k \in 1..Len(parts) : InGap(pos, k)
    BY <1>3 DEF AtGap
  <2>2. m = k /\ hl <= Len(parts[m].header)
    BY <1>1, <2>1, FirstFromGap
  <2> QED
    BY <2>1, <2>2
<1>4. CASE mContentLength >= 2 /\ Astray(pos, mContentLength)
  BY <1>4
<1>5. CASE pos = 0
  <2>1. End(0) = 0 /\ Placed(1) /\ 1 \in Nat
    BY <1>1 DEF Laid
  <2>2. PictureAt(1) \in Nat
    BY <2>1, PartGrows
  <2>3. AtGap(pos)
    <3>1. 1 - 1 = 0
      OBVIOUS
    <3>2. InGap(0, 1)
      BY <2>1, <2>2, <3>1 DEF InGap
    <3> QED
      BY <1>1, <1>5, <3>2 DEF AtGap
  <2> QED
    BY <1>3, <2>3
<1> QED
  BY <1>2, <1>3, <1>4, <1>5 DEF Ready, InPlace

\* As far as the search near the last length looks.
LEMMA LookedTo ==
  ASSUME pos \in Nat, NEW hl \in Nat, mContentLength \in Int, mContentLength >= 2,
         NearSays(-1, hl)
  PROVE  /\ SkipTo(hl) + SimplifiedSpan = pos + hl + Half(3 * mContentLength) - 1
         /\ Half(3 * mContentLength) \in Int /\ Half(3 * mContentLength) >= 2
<1> DEFINE half == Half(mContentLength)
           more == Half(3 * mContentLength)
<1>1. half \in Int /\ more \in Int /\ half >= 1 /\ more - half >= 1
  <2>1. mContentLength >= 1
    OBVIOUS
  <2> QED
    BY <2>1, HalfIs
<1>2. SkipTo(hl) = pos + hl + half - 1 /\ SimplifiedSpan = more - half
  BY DEF NearSays
<1> HIDE DEF half, more
<1>3. SkipTo(hl) + SimplifiedSpan = pos + hl + more - 1 /\ more >= 2
  BY <1>1, <1>2
<1> QED
  BY <1>1, <1>3 DEF more

\* The mark lost: the next searches from here lose it too.
LEMMA TidyLost ==
  ASSUME StreamOK, Laid, Tidy, pos \in 0..Len(data), mContentLength \in Int,
         NEW m \in 1..Len(parts), NEW hl, FirstFrom(m, pos, hl),
         Ready(pos, mContentLength), NearSays(-1, hl),
         MarkLost(SkipTo(hl) + SimplifiedSpan)
  PROVE  Ready(SkipTo(hl) + SimplifiedSpan, mContentLength)
<1> DEFINE e == SkipTo(hl) + SimplifiedSpan
           L == mContentLength
           more == Half(3 * L)
<1>1. /\ pos \in Nat /\ hl \in Nat /\ pos + hl = PictureAt(m) /\ Placed(m)
      /\ FRAME_MAX_LENGTH \in Nat /\ Len(parts[m].header) \in Nat
  <2>1. pos \in Nat /\ hl \in Nat /\ pos + hl = PictureAt(m) /\ Placed(m)
    BY DEF FirstFrom, Laid
  <2> QED
    BY <2>1, FrameMaxAssumption DEF Placed
<1>2. Len(parts[m].header) <= FRAME_MAX_LENGTH
  BY TidyParts
<1>3. e - pos > FRAME_MAX_LENGTH
  BY DEF MarkLost
<1>4. \/ InGap(pos, m) /\ hl <= Len(parts[m].header)
      \/ L >= 2 /\ Astray(pos, L)
  BY GapOrAstray
<1>5. L >= 2
  <2>1. SUFFICES ASSUME ~ (L >= 2) PROVE FALSE
    OBVIOUS
  <2>4. L < 1
    BY <2>1 DEF Ready
  <2>2. SkipTo(hl) <= pos + hl /\ SimplifiedSpan = 0 /\ SkipTo(hl) \in Nat
    BY <2>4 DEF NearSays
  <2>3. hl <= Len(parts[m].header)
    BY <1>4, <2>1
  <2> QED
    BY <1>1, <1>2, <1>3, <2>2, <2>3
<1>6. e = pos + hl + more - 1 /\ more \in Int /\ more >= 2
  BY <1>1, <1>5, LookedTo
<1> HIDE DEF e, more
<1>7. Astray(e, L)
  <2>1. CASE InGap(pos, m) /\ hl <= Len(parts[m].header)
    <3>1. PictureAt(m) < e
      BY <1>1, <1>6
    <3>2. Len(parts[m].header) + more > FRAME_MAX_LENGTH + 1
      BY <1>1, <1>3, <1>6, <2>1
    <3> QED
      BY <3>1, <3>2 DEF Astray, more
  <2>2. CASE Astray(pos, L)
    <3>1. PICK j \in 1..Len(parts) :
             /\ PictureAt(j) < pos
             /\ Len(parts[j].header) + Half(3 * L) > FRAME_MAX_LENGTH + 1
      BY <2>2 DEF Astray
    <3>2. PictureAt(j) \in Nat
      BY DEF Laid, Placed
    <3>3. PictureAt(j) < e
      BY <1>1, <1>6, <3>1, <3>2
    <3> QED
      BY <3>1, <3>3 DEF Astray
  <2> QED
    BY <1>4, <2>1, <2>2
<1>8. Ready(e, L)
  BY <1>5, <1>7 DEF Ready, InPlace
<1> QED
  BY <1>8 DEF e

\* The mark kept: the reader did not go astray.
LEMMA InGapUnlessLost ==
  ASSUME StreamOK, Laid, Tidy, pos \in 0..Len(data), mContentLength \in Int,
         NEW m \in 1..Len(parts), NEW hl, FirstFrom(m, pos, hl),
         Ready(pos, mContentLength), NearSays(-1, hl),
         ~ MarkLost(SkipTo(hl) + SimplifiedSpan)
  PROVE  InGap(pos, m) /\ hl <= Len(parts[m].header)
<1> DEFINE e == SkipTo(hl) + SimplifiedSpan
           L == mContentLength
           more == Half(3 * L)
<1>1. /\ pos \in Nat /\ hl \in Nat /\ pos + hl = PictureAt(m) /\ Placed(m) /\ m \in Nat
      /\ FRAME_MAX_LENGTH \in Nat
  BY FrameMaxAssumption DEF FirstFrom, Laid
<1>2. CASE InGap(pos, m) /\ hl <= Len(parts[m].header)
  BY <1>2
<1>3. CASE L >= 2 /\ Astray(pos, L)
  <2>1. e = pos + hl + more - 1 /\ more \in Int /\ more >= 2
    BY <1>1, <1>3, LookedTo
  <2>2. ~ (e - pos > FRAME_MAX_LENGTH)
    BY DEF MarkLost
  <2> HIDE DEF e, more
  <2>3. ~ (hl + more > FRAME_MAX_LENGTH + 1)
    BY <1>1, <2>1, <2>2
  <2>4. PICK j \in 1..Len(parts) :
           /\ PictureAt(j) < pos
           /\ Len(parts[j].header) + more > FRAME_MAX_LENGTH + 1
    BY <1>3 DEF Astray, more
  <2>5. /\ j \in Nat /\ Placed(j) /\ PictureAt(j) \in Nat /\ Len(parts[j].header) \in Nat
        /\ Len(parts[m].header) \in Nat /\ PictureAt(m) = End(m - 1) + Len(parts[m].header)
        /\ End(m - 1) \in Nat
    <3>1. Placed(j) /\ j \in Nat
      BY DEF Laid
    <3>2. PictureAt(j) \in Nat /\ Len(parts[j].header) \in Nat
      BY <3>1 DEF Placed
    <3>3. /\ Len(parts[m].header) \in Nat /\ PictureAt(m) = End(m - 1) + Len(parts[m].header)
          /\ End(m - 1) \in Nat
      BY <1>1 DEF Placed
    <3> QED
      BY <3>1, <3>2, <3>3
  <2>6. j <= m
    <3>1. m < j => PictureAt(m) < PictureAt(j)
      BY PicturesInOrder
    <3> QED
      BY <1>1, <2>4, <2>5, <3>1
  <2>7. Len(parts[j].header) <= Len(parts[m].header)
    BY <2>6, HeadersGrow, TidyParts
  <2>8. hl < Len(parts[j].header)
    <3> DEFINE hj == Len(parts[j].header)
               F == FRAME_MAX_LENGTH
    <3>1. hj \in Nat /\ F \in Nat /\ hl \in Nat /\ more \in Int
          /\ ~ (hl + more > F + 1) /\ hj + more > F + 1
      BY <1>1, <2>1, <2>3, <2>4, <2>5
    <3> SUFFICES hl < hj
      OBVIOUS
    <3> HIDE DEF hj, F
    <3> QED
      BY <3>1
  <2>9. End(m - 1) <= pos /\ pos <= PictureAt(m) /\ hl <= Len(parts[m].header)
    <3> DEFINE hm == Len(parts[m].header)
               hj == Len(parts[j].header)
               b == End(m - 1)
               a == PictureAt(m)
    <3>1. hm \in Nat /\ hj \in Nat /\ b \in Nat /\ a = b + hm /\ pos + hl = a /\ hj <= hm /\ hl < hj
      BY <1>1, <2>5, <2>7, <2>8
    <3> SUFFICES b <= pos /\ pos <= a /\ hl <= hm
      OBVIOUS
    <3> HIDE DEF hm, hj, b, a
    <3> QED
      BY <1>1, <3>1
  <2> QED
    BY <2>9 DEF InGap
<1> QED
  BY <1>2, <1>3, GapOrAstray

\* By the search from the mark on: it begins between two pictures, and counts in
\* no more than the next header.
LEMMA TidyFar ==
  ASSUME StreamOK, Laid, Tidy, pos \in 0..Len(data), mContentLength \in Int,
         NEW m \in 1..Len(parts), NEW hl, FirstFrom(m, pos, hl),
         Ready(pos, mContentLength), NearSays(-1, hl),
         NEW far, FarSays(far), EndsFar(hl, far, SkipTo(hl) + SimplifiedSpan)
  PROVE  TidyEnds
<1> DEFINE e == SkipTo(hl) + SimplifiedSpan
<1>1. /\ pos \in Nat /\ hl \in Nat /\ pos + hl = PictureAt(m) /\ Placed(m) /\ m \in Nat
      /\ Len(data) \in Nat /\ Len(parts) \in Nat /\ far \in Int /\ Len(data) <= End(Len(parts))
  BY DEF FirstFrom, Laid, FarSays
<1>2. CASE CallFails("throws", pos + hl, far)
  BY <1>2 DEF TidyEnds
<1>3. CASE MarkLost(e) /\ CallFails("io", e, mContentLength)
  BY <1>3, TidyLost DEF TidyEnds
<1>4. CASE far >= 2 /\ ~ MarkLost(e) /\ CallFails("io", Len(data), far)
  <2>1. Ready(Len(data), far)
    BY <1>1, <1>4 DEF Ready, InPlace
  <2> QED
    BY <1>4, <2>1 DEF TidyEnds
<1>5. CASE far >= 2 /\ ~ MarkLost(e) /\ pos + hl + far <= Len(data) /\ CallGives(pos + hl, far)
  <2>1. InGap(pos, m) /\ hl <= Len(parts[m].header)
    BY <1>5, InGapUnlessLost
  <2>2. pos + far \in Nat /\ pos + far >= 2 /\ pos + far <= Len(data) /\ MarkEnds(pos + far, "FF", "D9")
    BY <1>1, <1>5 DEF FarSays
  <2>3. PICK p \in 1..Len(parts) : pos + far = End(p)
    BY <2>2, EndFound, TidyParts
  <2>4. p \in Nat /\ p \in 0..Len(parts) /\ End(p) \in Nat /\ m \in 0..Len(parts) /\ End(m) \in Nat
        /\ End(m - 1) \in Nat
    BY <1>1, PartGrows DEF Laid
  <2>5. m <= p
    <3>1. p < m => End(p) <= End(m - 1)
      BY PicturesInOrder
    <3>2. End(m - 1) <= pos
      BY <2>1 DEF InGap
    <3> QED
      BY <1>1, <1>5, <2>3, <2>4, <3>1, <3>2
  <2>6. End(m) <= End(p)
    BY <2>4, <2>5, EndsGrow
  <2>7. Whole(pos + hl, far)
    <3>1. pos + hl + far >= End(m)
      BY <1>1, <1>5, <2>3, <2>4, <2>6
    <3> QED
      BY <1>1, <3>1 DEF Whole
  <2>8. pos + hl + far = End(p) + hl
    BY <1>1, <2>3, <2>4
  <2>9. InPlace(End(p) + hl, far)
    <3>1. CASE p = Len(parts)
      <4>1. End(p) + hl = Len(data)
        <5> DEFINE b == End(p)
                   n == Len(data)
        <5>1. n <= b
          BY <1>1, <3>1
        <5>2. b + hl <= n /\ b \in Nat /\ n \in Nat /\ hl \in Nat
          BY <1>1, <1>5, <2>4, <2>8
        <5> HIDE DEF b, n
        <5>3. b + hl = n
          BY <5>1, <5>2
        <5> QED
          BY <5>3 DEF b, n
      <4> QED
        BY <4>1 DEF InPlace
    <3>2. CASE p < Len(parts)
      <4>1. PICK l \in 1..Len(parts) : l = p + 1 /\ p = l - 1
        BY <1>1, <2>4, <3>2
      <4>2. l \in Nat /\ Placed(l) /\ m <= l
        BY <1>1, <2>4, <2>5, <4>1 DEF Laid
      <4>3. Len(parts[m].header) <= Len(parts[l].header)
        BY <4>2, HeadersGrow, TidyParts
      <4>4. /\ PictureAt(l) = End(l - 1) + Len(parts[l].header) /\ End(l - 1) \in Nat
            /\ Len(parts[l].header) \in Nat /\ Len(parts[m].header) \in Nat
        BY <1>1, <4>2 DEF Placed
      <4>5. End(l - 1) <= End(l - 1) + hl /\ End(l - 1) + hl <= PictureAt(l)
        <5> DEFINE hm == Len(parts[m].header)
                   hn == Len(parts[l].header)
                   b == End(l - 1)
                   a == PictureAt(l)
        <5>1. hm \in Nat /\ hn \in Nat /\ b \in Nat /\ a = b + hn /\ hm <= hn /\ hl <= hm
          BY <2>1, <4>3, <4>4
        <5> SUFFICES b <= b + hl /\ b + hl <= a
          OBVIOUS
        <5> HIDE DEF hm, hn, b, a
        <5> QED
          BY <1>1, <5>1
      <4>6. AtGap(End(l - 1) + hl)
        BY <4>5 DEF AtGap, InGap
      <4>7. End(l - 1) = End(p)
        BY <4>1
      <4> QED
        BY <4>6, <4>7 DEF InPlace
    <3> QED
      BY <1>1, <2>4, <3>1, <3>2
  <2>10. Ready(pos + hl + far, far)
    BY <1>1, <1>5, <2>8, <2>9 DEF Ready
  <2> QED
    BY <1>5, <2>7, <2>10 DEF TidyEnds
<1> QED
  BY <1>2, <1>3, <1>4, <1>5 DEF EndsFar, e

LEMMA TidyCall ==
  ASSUME InputInv, Laid, Tidy, TidyInv, ReadFrame
  PROVE  TidyEnds
<1> DEFINE hl == StartOfSequence(pos, SOI_MARKER)
           near == SimplifiedEnd(hl)
           far == EndOfSequence(pos, EOF_MARKER)
<1>1. /\ StreamOK /\ LengthOK /\ pos \in 0..Len(data) /\ Len(data) \in Nat
      /\ result \notin {"end", "throws"}
  BY DEF InputInv, InputTypeOK, StreamOK, ReadFrame
<1>2. mContentLength \in Int /\ mContentLength >= -1 /\ Ready(pos, mContentLength)
  BY <1>1 DEF LengthOK, TidyInv
<1>3. EndsBy(hl, near, far)
  BY <1>1, CallEnds
<1>4. FarSays(far)
  BY <1>1, FarSearch
<1>5. hl >= 0 => \E m \in 1..Len(parts) : FirstFrom(m, pos, hl)
  <2>1. pos \in Nat /\ pos <= Len(data) /\ AllClean
    BY <1>1, TidyParts
  <2> QED
    BY <1>1, <2>1, StartFound
<1>6. hl >= 0 => hl \in Nat
  BY <1>5 DEF FirstFrom
<1>7. hl >= 0 => NearSays(near, hl)
  <2> HIDE DEF hl
  <2> QED
    BY <1>1, <1>2, <1>6, NearSearch
<1> HIDE DEF hl, near, far
<1>8. CASE CallFails("end", pos, mContentLength) \/ CallFails("throws", pos, mContentLength)
  BY <1>8 DEF TidyEnds
<1>9. CASE /\ CallFails("io", Len(data), mContentLength) /\ hl >= 0
           /\ near = Eof \/ near = -1
  <2>1. mContentLength >= 2 \/ mContentLength = -1
    BY <1>2 DEF Ready
  <2>2. Ready(Len(data), mContentLength)
    BY <2>1 DEF Ready, InPlace
  <2> QED
    BY <1>9, <2>2 DEF TidyEnds
<1>10. CASE hl >= 0 /\ EndsTold(hl)
  BY <1>1, <1>5, <1>10, TidyTold
<1>11. CASE hl >= 0 /\ near >= 2 /\ EndsNear(hl, SkipTo(hl) + near)
  BY <1>1, <1>2, <1>5, <1>7, <1>11, TidyNear
<1>12. CASE hl >= 0 /\ near = -1 /\ EndsFar(hl, far, SkipTo(hl) + SimplifiedSpan)
  <2>1. NearSays(-1, hl)
    BY <1>7, <1>12
  <2> QED
    BY <1>1, <1>2, <1>4, <1>5, <1>12, <2>1, TidyFar
<1> QED
  BY <1>3, <1>8, <1>9, <1>10, <1>11, <1>12 DEF EndsBy

\* The frames so far, and one more.
LEMMA WithFrame ==
  ASSUME frames \in Seq([at : Nat, len : Nat]), NEW a, NEW n,
         frames' = Append(frames, [at |-> a, len |-> n])
  PROVE  /\ Len(frames) \in Nat /\ Len(frames') = Len(frames) + 1
         /\ \A i \in 1..Len(frames) : frames'[i] = frames[i]
         /\ frames'[Len(frames) + 1].at = a /\ frames'[Len(frames) + 1].len = n
<1> DEFINE f == [at |-> a, len |-> n]
<1>1. f.at = a /\ f.len = n
  OBVIOUS
<1> HIDE DEF f
<1>2. Len(frames) \in Nat /\ frames' = Append(frames, f)
  BY DEF f
<1>3. /\ Len(frames') = Len(frames) + 1
      /\ \A i \in 1..Len(frames) : frames'[i] = frames[i]
      /\ frames'[Len(frames) + 1] = f
  BY <1>2
<1> QED
  BY <1>1, <1>2, <1>3

WholeInv == Tidy => TidyInv

LEMMA WholeInvStep ==
  ASSUME ReadersInv, WholeInv, [Next]_vars
  PROVE  WholeInv'
<1>1. UNCHANGED streamVars
  BY DEF Next, Tablet, ReadFrame, Console, ParserThread, LineRead, ReadJPG, RoundEnds, GetImage, vars
<1>2. data' = data /\ parts' = parts
  BY <1>1 DEF streamVars
<1>3. Tidy' <=> Tidy
  BY <1>2 DEF Tidy, Clean, Honest
<1>4. /\ \A w, l : Whole(w, l)' <=> Whole(w, l)
      /\ \A w, l : Ready(w, l)' <=> Ready(w, l)
  BY <1>2 DEF Whole, Ready, InPlace, AtGap, InGap, Astray, PictureAt, End, Written
<1> SUFFICES ASSUME Tidy PROVE TidyInv'
  BY <1>3 DEF WholeInv
<1>5. TidyInv /\ InputInv /\ Laid /\ frames \in Seq([at : Nat, len : Nat])
  BY LaidOut DEF WholeInv, ReadersInv, InputInv, InputTypeOK
<1>6. CASE UNCHANGED inputVars
  <2>1. result' = result /\ frames' = frames /\ pos' = pos /\ mContentLength' = mContentLength
    BY <1>6 DEF inputVars
  <2>2. PICK p, length : p = pos /\ length = mContentLength
    OBVIOUS
  <2>3. p = pos' /\ length = mContentLength'
    BY <2>1, <2>2
  <2>4. result \notin {"end", "throws"} => Ready(p, length)
    BY <1>5, <2>2 DEF TidyInv
  <2> QED
    BY <1>4, <1>5, <2>1, <2>3, <2>4 DEF TidyInv
<1>7. CASE ReadFrame
  <2>1. TidyEnds
    BY <1>5, <1>7, TidyCall
  <2>2. ASSUME NEW how \in {"end", "throws"}, NEW p, NEW length, CallFails(how, p, length)
        PROVE  TidyInv'
    BY <1>2, <1>4, <1>5, <2>2 DEF CallFails, TidyInv
  <2>3. ASSUME NEW p, NEW length, CallFails("io", p, length), Ready(p, length)
        PROVE  TidyInv'
    BY <1>2, <1>4, <1>5, <2>3 DEF CallFails, TidyInv
  <2>4. ASSUME NEW p, NEW length, CallGives(p, length), Whole(p, length), Ready(p + length, length)
        PROVE  TidyInv'
    BY <1>2, <1>4, <1>5, <2>4, WithFrame DEF CallGives, TidyInv
  <2> QED
    BY <2>1, <2>2, <2>3, <2>4 DEF TidyEnds
<1> QED
  BY <1>6, <1>7 DEF Next, Tablet, Console, vars

\* In a tidy stream, wherever it ends, a frame the tablet's reader hands on
\* begins where a picture does and holds all of it, whichever way its end was
\* found and however often the mark was lost before.
THEOREM FramesAreWhole == Spec => []FrameWhole
<1>1. ReadersInv /\ WholeInv /\ [Next]_vars => WholeInv'
  BY WholeInvStep
<1>2. Init => WholeInv
  <2> SUFFICES ASSUME Init PROVE TidyInv
    BY DEF WholeInv
  <2>1. InputInv
    BY InputInvInit DEF Init
  <2>2. Laid
    BY <2>1, LaidOut DEF InputInv
  <2>3. pos = 0 /\ mContentLength = -1 /\ frames = <<>>
    BY DEF Init, InputInit
  <2>4. AtGap(0)
    <3>1. 1 \in 1..Len(parts) /\ Placed(1) /\ End(0) = 0 /\ 1 - 1 = 0 /\ 1 \in Nat
      BY <2>2 DEF Laid
    <3>2. PictureAt(1) \in Nat
      BY <3>1, PartGrows
    <3>3. InGap(0, 1)
      BY <3>1, <3>2 DEF InGap
    <3> QED
      BY <3>1, <3>3 DEF AtGap
  <2> QED
    BY <2>3, <2>4 DEF TidyInv, Ready, InPlace
<1>3. ReadersInv /\ WholeInv => FrameWhole
  <2> SUFFICES ASSUME ReadersInv, WholeInv, Tidy, NEW f \in ToSet(frames)
               PROVE  \E k \in DOMAIN parts : f.at = PictureAt(k) /\ f.at + f.len >= PictureEnd(k)
    BY DEF FrameWhole
  <2>1. StreamOK /\ Laid /\ frames \in Seq([at : Nat, len : Nat])
    BY LaidOut DEF ReadersInv, InputInv, InputTypeOK
  <2>2. PICK i \in 1..Len(frames) : f = frames[i]
    BY <2>1 DEF ToSet
  <2>3. PICK k \in 1..Len(parts) : f.at = PictureAt(k) /\ f.at + f.len >= End(k)
    BY <2>2 DEF WholeInv, TidyInv, Whole
  <2>4. PictureEnd(k) = End(k) /\ k \in DOMAIN parts
    BY <2>1 DEF StreamOK, Laid, Placed
  <2> QED
    BY <2>3, <2>4
<1> QED
  BY <1>1, <1>2, <1>3, ReadersKeep, PTL DEF Spec

-----------------------------------------------------------------------------
(***************************************************************************)
(* All pictures, in a steady stream.                                       *)
(***************************************************************************)

AllSent == data = Bytes(parts)

LEMMA SteadyParts ==
  ASSUME StreamOK, Laid, Steady, AllSent
  PROVE  /\ AllClean /\ Len(data) = End(Len(parts))
         /\ \A k \in 1..Len(parts) :
              /\ Plain(k) /\ ToSet(parts[k].header) \cap DOMAIN LengthLine = {}
              /\ Len(parts[k].header) + Len(parts[k].picture) <= FRAME_MAX_LENGTH
              /\ End(k) <= Len(data)
         /\ \A k \in 2..Len(parts) :
              Near(k) /\ Len(parts[k].header) >= Len(parts[k - 1].header)
<1>1. DOMAIN parts = 1..Len(parts)
  BY DEF StreamOK
<1>2. Len(data) = End(Len(parts))
  BY DEF AllSent, Bytes, End
<1>3. ASSUME NEW k \in 1..Len(parts) PROVE End(k) <= Len(data)
  <2>1. k \in 0..Len(parts) /\ Len(parts) \in 0..Len(parts) /\ k <= Len(parts)
    BY DEF Laid
  <2> QED
    BY <1>2, <2>1, EndsGrow
<1> QED
  BY <1>1, <1>2, <1>3 DEF Steady, AllClean

\* The search for an end finds the next picture's, from wherever it begins
\* within it or before.
LEMMA EndExactly ==
  ASSUME StreamOK, Laid, AllClean, NEW k \in 1..Len(parts), Plain(k), End(k) <= Len(data),
         NEW from \in Nat, NEW n \in Nat,
         End(k - 1) <= from, from + 2 <= End(k), End(k) - from <= n
  PROVE  Search(from, n, <<"FF", "D9">>) = End(k) - from
<1> DEFINE s == Search(from, n, <<"FF", "D9">>)
           e == End(k)
           q == parts[k].picture
           l == Len(q)
           a == PictureAt(k)
<1>1. /\ Placed(k) /\ k \in Nat /\ Len(parts) \in Nat /\ Len(data) \in Nat /\ IsPart(parts[k])
  BY PartIs DEF Laid, StreamOK
<1>2. a \in Nat /\ l \in Nat /\ l >= 4 /\ e = a + l /\ e \in Nat /\ End(k - 1) \in Nat
  BY <1>1 DEF Placed
<1>3. q[l - 1] = "FF" /\ q[l] = "D9" /\ q[l - 2] # "FF"
  BY <1>1, PictureMarks DEF Plain
<1>4. \A i \in 1..l : a + i <= Len(data) => data[a + i] = q[i]
  BY BytesOf
<1> HIDE DEF s, e, q, l, a
<1>5. e <= Len(data) /\ from + 2 <= e /\ e - from <= n
  BY DEF e
<1>6. data[e - 1] = "FF" /\ data[e] = "D9" /\ data[e - 2] # "FF"
  <2>1. /\ l - 1 \in 1..l /\ l \in 1..l /\ l - 2 \in 1..l
        /\ a + (l - 1) = e - 1 /\ a + l = e /\ a + (l - 2) = e - 2
        /\ a + (l - 1) <= Len(data) /\ a + l <= Len(data) /\ a + (l - 2) <= Len(data)
    BY <1>1, <1>2, <1>5
  <2> QED
    BY <1>3, <1>4, <2>1
<1> DEFINE t == e - from
<1>7. t \in 2..n /\ from + t = e /\ from + t <= Len(data) /\ from <= Len(data)
  BY <1>1, <1>2, <1>5
<1> HIDE DEF t
<1>8. MarkEnds(from + t, "FF", "D9") /\ ~ Repeated(from + t, from, "FF")
  BY <1>6, <1>7, Zenon DEF MarkEnds, Repeated
<1>9. s \in 2..t
  BY <1>1, <1>7, <1>8, SearchComplete DEF s
<1>10. SaysOf(s, from, n, "FF", "D9")
  BY <1>1, <1>7, SearchSound DEF s
<1>11. s >= 2 /\ s \in Nat /\ from + s <= Len(data) /\ MarkEnds(from + s, "FF", "D9")
  BY <1>9, <1>10 DEF SaysOf, Eof
<1>12. PICK j \in 1..Len(parts) : from + s = End(j)
  <2>1. from + s \in Nat /\ from + s >= 2
    BY <1>11
  <2> QED
    BY <1>11, <2>1, EndFound
<1>13. j \in Nat /\ j \in 0..Len(parts) /\ k \in 0..Len(parts) /\ k - 1 \in 0..Len(parts) /\ End(j) \in Nat
  BY <1>1 DEF Laid
<1>14. k <= j
  <2>1. j < k => End(j) <= End(k - 1)
    BY PicturesInOrder
  <2>2. End(k - 1) <= from
    OBVIOUS
  <2> QED
    BY <1>1, <1>2, <1>11, <1>12, <1>13, <2>1, <2>2
<1>15. e <= from + s
  BY <1>12, <1>13, <1>14, EndsGrow DEF e
<1>16. s = e - from
  BY <1>2, <1>7, <1>9, <1>11, <1>15
<1> QED
  BY <1>16 DEF s, e

\* In a gap, the next picture is found, and no length before it.
LEMMA NextFound ==
  ASSUME StreamOK, Laid, Steady, AllSent, pos \in 0..Len(data),
         NEW k \in 1..Len(parts), InGap(pos, k)
  PROVE  /\ StartOfSequence(pos, SOI_MARKER) = PictureAt(k) - pos
         /\ FirstFrom(k, pos, PictureAt(k) - pos)
         /\ LengthsIn(PictureAt(k) - pos) = {}
<1> DEFINE hl == StartOfSequence(pos, SOI_MARKER)
<1>1. /\ Placed(k) /\ k \in Nat /\ Len(data) \in Nat /\ FRAME_MAX_LENGTH \in Nat /\ pos \in Nat
  BY FrameMaxAssumption DEF Laid
<1>2. /\ PictureAt(k) \in Nat /\ End(k - 1) \in Nat /\ End(k) \in Nat
      /\ Len(parts[k].header) \in Nat /\ Len(parts[k].picture) \in Nat /\ Len(parts[k].picture) >= 4
      /\ PictureAt(k) = End(k - 1) + Len(parts[k].header)
      /\ End(k) = PictureAt(k) + Len(parts[k].picture)
  BY <1>1 DEF Placed
<1>3. /\ AllClean /\ End(k) <= Len(data)
      /\ ToSet(parts[k].header) \cap DOMAIN LengthLine = {}
      /\ Len(parts[k].header) + Len(parts[k].picture) <= FRAME_MAX_LENGTH
  BY SteadyParts
<1>4. End(k - 1) <= pos /\ pos <= PictureAt(k)
  BY DEF InGap
<1>5. PictureAt(k) + 2 <= Len(data) /\ PictureAt(k) + 2 - pos <= FRAME_MAX_LENGTH
  <2> DEFINE h == Len(parts[k].header)
             p == Len(parts[k].picture)
             a == PictureAt(k)
             b == End(k - 1)
             c == End(k)
  <2>1. /\ a \in Nat /\ b \in Nat /\ h \in Nat /\ p \in Nat /\ p >= 4 /\ a = b + h /\ c = a + p
        /\ c <= Len(data) /\ h + p <= FRAME_MAX_LENGTH /\ b <= pos
    BY <1>2, <1>3, <1>4
  <2> SUFFICES a + 2 <= Len(data) /\ a + 2 - pos <= FRAME_MAX_LENGTH
    OBVIOUS
  <2> HIDE DEF h, p, a, b, c
  <2> QED
    BY <1>1, <2>1
<1>6. hl \in 0..(PictureAt(k) - pos)
  BY <1>1, <1>4, <1>5, StartReaches
<1>7. hl >= 0 /\ pos <= Len(data)
  BY <1>1, <1>2, <1>6
<1>8. PICK m \in 1..Len(parts) : FirstFrom(m, pos, hl)
  BY <1>1, <1>3, <1>7, StartFound
<1> HIDE DEF hl
<1>9. m = k
  BY <1>1, <1>8, FirstFromGap
<1>10. hl = PictureAt(k) - pos
  BY <1>1, <1>2, <1>8, <1>9 DEF FirstFrom
<1>11. LengthsIn(hl) = {}
  <2>1. SUFFICES ASSUME NEW length \in LengthsIn(hl) PROVE FALSE
    OBVIOUS
  <2>2. \E b \in DOMAIN LengthLine \cap ToSet(parts[k].header) : length = LengthLine[b]
    BY <1>8, <1>9, LengthsOf
  <2> QED
    BY <1>3, <2>2
<1> QED
  BY <1>8, <1>9, <1>10, <1>11 DEF hl

\* Nothing is left to find.
LEMMA NoneFound ==
  ASSUME Laid, pos = Len(data)
  PROVE  StartOfSequence(pos, SOI_MARKER) = Eof
<1> DEFINE hl == StartOfSequence(pos, SOI_MARKER)
<1>1. Len(data) \in Nat /\ FRAME_MAX_LENGTH \in Nat \ {0}
  BY FrameMaxAssumption DEF Laid
<1>2. StartSays(hl, pos)
  BY <1>1, StartSearch
<1> HIDE DEF hl
<1>3. hl = Eof
  BY <1>1, <1>2 DEF StartSays, Eof
<1> QED
  BY <1>3 DEF hl

\* The first call finds its picture's end from the mark on, and counts the
\* header in: a picture alone is lost then, as the frame does not end.
LEMMA SteadyFirst ==
  ASSUME StreamOK, Laid, LengthOK, Steady, AllSent, pos = 0, mContentLength = -1, ReadFrame
  PROVE  \/ Len(parts) = 1 /\ \E length : CallFails("io", Len(data), length)
         \/ CallGives(PictureAt(1), End(1))
<1> DEFINE h == Len(parts[1].header)
           p == Len(parts[1].picture)
           e == End(1)
           hl == StartOfSequence(pos, SOI_MARKER)
           near == SimplifiedEnd(hl)
           far == EndOfSequence(pos, EOF_MARKER)
           from == SkipTo(hl)
           n == Len(data)
           F == FRAME_MAX_LENGTH
<1>1. /\ 1 \in 1..Len(parts) /\ Len(parts) \in Nat /\ n \in Nat /\ F \in Nat
      /\ Placed(1) /\ End(0) = 0 /\ 1 - 1 = 0 /\ pos \in 0..n
  BY FrameMaxAssumption DEF Laid
<1>2. h \in Nat /\ p \in Nat /\ p >= 4 /\ PictureAt(1) = h /\ e = h + p /\ e \in Nat
  <2>1. /\ h \in Nat /\ p \in Nat /\ p >= 4 /\ PictureAt(1) = End(1 - 1) + h
        /\ e = PictureAt(1) + p
    BY <1>1 DEF Placed
  <2>2. PictureAt(1) = 0 + h
    BY <1>1, <2>1
  <2> DEFINE a == PictureAt(1)
  <2>3. h \in Nat /\ p \in Nat /\ p >= 4 /\ a = 0 + h /\ e = a + p
    BY <2>1, <2>2
  <2> SUFFICES h \in Nat /\ p \in Nat /\ p >= 4 /\ a = h /\ e = h + p /\ e \in Nat
    OBVIOUS
  <2> HIDE DEF h, p, e, a
  <2> QED
    BY <2>3
<1>3. /\ AllClean /\ Plain(1) /\ h + p <= F /\ e <= n
  BY <1>1, SteadyParts
<1>4. InGap(pos, 1)
  BY <1>1, <1>2 DEF InGap
<1>5. hl = PictureAt(1) - pos /\ LengthsIn(PictureAt(1) - pos) = {}
  BY <1>1, <1>4, NextFound
<1>6. hl = h /\ LengthsIn(hl) = {}
  BY <1>2, <1>5
<1>7. near = -1 /\ SimplifiedSpan = 0 /\ from \in Nat /\ from <= pos + hl
  <2>1. NearSays(near, hl)
    <3> HIDE DEF hl
    <3> QED
      BY <1>1, <1>2, <1>6, NearSearch
  <2> QED
    BY <2>1 DEF NearSays
<1>8. far = e
  <2>1. /\ End(1 - 1) <= 0 /\ 0 + 2 <= End(1) /\ End(1) - 0 <= F /\ 0 \in Nat
    <3>1. End(1 - 1) = 0
      BY <1>1, Zenon
    <3>2. 0 + 2 <= e /\ e - 0 <= F
      <4> HIDE DEF e, h, p, F
      <4> QED
        BY <1>1, <1>2, <1>3
    <3> QED
      BY <3>1, <3>2
  <2>2. Search(0, F, <<"FF", "D9">>) = End(1) - 0
    BY <1>1, <1>3, <2>1, EndExactly
  <2> QED
    BY <1>2, <2>2 DEF EndOfSequence, EOF_MARKER
<1>9. EndsBy(hl, near, far)
  BY <1>1, CallEnds
<1> HIDE DEF hl, near, far, from, h, p, e, n, F
<1>10. ~ MarkLost(from + SimplifiedSpan)
  <2>1. from + SimplifiedSpan - pos <= F
    BY <1>1, <1>2, <1>3, <1>6, <1>7
  <2> QED
    BY <1>1, <1>7, <2>1 DEF MarkLost, F
<1>11. ~ EndsTold(hl)
  BY <1>6 DEF EndsTold
<1>12. EndsFar(hl, far, from + SimplifiedSpan)
  <2>1. hl # Eof /\ hl # -1 /\ ~ (near >= 2) /\ near # Eof /\ far # Eof
    BY <1>2, <1>6, <1>7, <1>8 DEF Eof
  <2> QED
    BY <1>9, <1>11, <2>1 DEF EndsBy, from
<1>13. far # -1
  BY <1>2, <1>8
<1>14. CASE pos + hl + far > n /\ CallFails("io", n, far)
  <2>1. SUFFICES ASSUME Len(parts) # 1 PROVE FALSE
    BY <1>14 DEF n
  <2>2. 2 \in 2..Len(parts) /\ 2 \in 1..Len(parts) /\ 2 - 1 = 1 /\ 2 \in Nat
    BY <1>1, <2>1
  <2>3. Len(parts[2].header) >= Len(parts[2 - 1].header) /\ End(2) <= n
    BY <2>2, SteadyParts DEF n
  <2>4. Len(parts[2].header) >= h
    BY <2>2, <2>3 DEF h
  <2>5. Placed(2)
    BY <2>2 DEF Laid
  <2>6. PictureAt(2) = e + Len(parts[2].header) /\ Len(parts[2].header) \in Nat
    BY <2>2, <2>5 DEF Placed, e
  <2>7. PictureAt(2) < End(2) /\ PictureAt(2) \in Nat /\ End(2) \in Nat
    BY <2>2, <2>5, PartGrows
  <2>8. e + h <= n
    <3> DEFINE hh == Len(parts[2].header)
               a == PictureAt(2)
               b == End(2)
    <3>1. hh \in Nat /\ a = e + hh /\ hh >= h /\ a < b /\ b \in Nat /\ a \in Nat /\ b <= n
      BY <2>3, <2>4, <2>6, <2>7
    <3> HIDE DEF hh, a, b
    <3> QED
      BY <1>1, <1>2, <3>1
  <2> QED
    BY <1>1, <1>2, <1>6, <1>8, <1>14, <2>8
<1>15. CASE CallGives(pos + hl, far)
  <2>1. pos + hl = PictureAt(1)
    BY <1>2, <1>6
  <2>2. CallGives(PictureAt(1), e)
    BY <1>8, <1>15, <2>1
  <2> QED
    BY <2>2 DEF e
<1> QED
  BY <1>10, <1>12, <1>13, <1>14, <1>15 DEF EndsFar, n

\* What the first frame has of the next header.
Extra(k) == IF k = 1 THEN Len(parts[1].header) ELSE 0

\* Where the search near the last length begins, and how far it has to go: in a
\* header of hl and a picture of p bytes from s on, behind b and up to e.
NearTerms(s, hl, p, half, more, b, e, n) ==
    /\ s \in Nat /\ hl \in Nat /\ p \in Nat /\ half \in Nat /\ more \in Nat
    /\ b \in Nat /\ e \in Nat /\ n \in Nat
    /\ b <= s /\ e = s + hl + p /\ e <= n
    /\ half < p /\ p < more /\ half >= 1

Within(from, b, e, n, span) ==
    /\ from \in Nat /\ b <= from /\ from + 2 <= e /\ e - from <= span
    /\ e - from >= 2 /\ span \in Nat /\ span >= 2 /\ from <= n

LEMMA NearSums ==
  ASSUME NEW s, NEW hl, NEW p, NEW half, NEW more, NEW b, NEW e, NEW n,
         NearTerms(s, hl, p, half, more, b, e, n)
  PROVE  Within(s + hl + half - 1, b, e, n, more - half)
BY DEF NearTerms, Within

\* A header of h bytes from b on, x of which were read with the picture before.
LEMMA RestOfHeader ==
  ASSUME NEW begun \in Nat, NEW s \in Nat, NEW hs \in Nat, NEW more \in Nat,
         s <= hs, begun = more + s
  PROVE  /\ (more + hs) - begun = hs - s /\ hs - s \in Nat
         /\ begun + (hs - s) = more + hs
OBVIOUS

LEMMA RestOfPart ==
  ASSUME NEW begun \in Nat, NEW hl \in Nat, NEW p \in Nat, NEW end, end = begun + hl + p
  PROVE  end - begun - hl = p
OBVIOUS

\* A call after another finds the end of the next picture near the last length.
LEMMA SteadyNext ==
  ASSUME StreamOK, Laid, LengthOK, Steady, AllSent, ReadFrame, pos \in 0..Len(data),
         NEW l \in 2..Len(parts), pos = End(l - 1) + Extra(l - 1),
         mContentLength = Len(parts[l - 1].picture) + Extra(l - 1)
  PROVE  CallGives(PictureAt(l), Len(parts[l].picture))
<1> DEFINE h == Len(parts[l].header)
           p == Len(parts[l].picture)
           x == Extra(l - 1)
           b == End(l - 1)
           a == PictureAt(l)
           e == End(l)
           L == mContentLength
           hl == StartOfSequence(pos, SOI_MARKER)
           near == SimplifiedEnd(hl)
           far == EndOfSequence(pos, EOF_MARKER)
           n == Len(data)
           F == FRAME_MAX_LENGTH
<1>1. /\ l \in 1..Len(parts) /\ l - 1 \in 1..Len(parts) /\ 1 \in 1..Len(parts) /\ l \in Nat
      /\ Len(parts) \in Nat /\ n \in Nat /\ F \in Nat /\ pos \in Nat /\ Placed(l) /\ Placed(l - 1)
      /\ Placed(1)
  <2>1. Len(parts) \in Nat
    BY DEF Laid
  <2>2. l \in 1..Len(parts) /\ l - 1 \in 1..Len(parts) /\ 1 \in 1..Len(parts) /\ l \in Nat
    BY <2>1
  <2> QED
    BY <2>1, <2>2, FrameMaxAssumption DEF Laid
<1>2. /\ h \in Nat /\ p \in Nat /\ p >= 4 /\ b \in Nat /\ a = b + h /\ e = a + p
      /\ a \in Nat /\ e \in Nat
  BY <1>1 DEF Placed
<1>3. Len(parts[l - 1].picture) \in Nat /\ Len(parts[l - 1].picture) >= 4
  BY <1>1 DEF Placed
<1>4. /\ AllClean /\ Plain(l) /\ h + p <= F /\ e <= n
      /\ Near(l) /\ h >= Len(parts[l - 1].header)
  BY <1>1, SteadyParts
<1>5. x \in Nat /\ x <= h
  <2>1. CASE l - 1 = 1
    <3>1. x = Len(parts[l - 1].header)
      BY <2>1 DEF Extra
    <3>2. Len(parts[l - 1].header) \in Nat
      BY <1>1 DEF Placed
    <3> HIDE DEF x, h
    <3> QED
      BY <1>2, <1>4, <3>1, <3>2
  <2>2. CASE l - 1 # 1
    <3>1. x = 0
      BY <2>2 DEF Extra
    <3> HIDE DEF x, h
    <3> QED
      BY <1>2, <3>1
  <2> QED
    BY <2>1, <2>2
<1>6. pos = b + x /\ L \in Nat /\ L >= 4
  <2> HIDE DEF x
  <2> QED
    BY <1>3, <1>5 DEF x
<1>7. L \div 2 < p /\ p < (3 * L) \div 2
  <2>1. l = 2 <=> l - 1 = 1
    BY <1>1
  <2>2. x = (IF l = 2 THEN Len(parts[1].header) ELSE 0)
    BY <2>1 DEF Extra
  <2>3. L = Len(parts[l - 1].picture) + (IF l = 2 THEN Len(parts[1].header) ELSE 0)
    BY <2>2
  <2> QED
    BY <1>4, <2>3 DEF Near
<1>8. InGap(pos, l)
  <2>1. b <= pos /\ pos <= a
    <3> HIDE DEF x, b, a, h
    <3> QED
      BY <1>2, <1>5, <1>6
  <2> QED
    BY <2>1 DEF InGap
<1>9. hl = a - pos /\ LengthsIn(a - pos) = {}
  BY <1>1, <1>8, NextFound
<1>10. EndsBy(hl, near, far)
  BY <1>1, CallEnds
<1> DEFINE half == Half(L)
           more == Half(3 * L)
           from == pos + hl + half - 1
<1>11. half = L \div 2 /\ more = (3 * L) \div 2 /\ half \in Nat /\ more \in Nat /\ half >= 1
  <2>1. half = L \div 2
    BY <1>6, HalfIs
  <2>2. 3 * L \in Int /\ 3 * L >= 0
    BY <1>6
  <2>3. more = (3 * L) \div 2
    <3> DEFINE t == 3 * L
    <3>1. t \in Int /\ t >= 0
      BY <2>2
    <3> HIDE DEF t
    <3>2. Half(t) = t \div 2
      BY <3>1, HalfIs
    <3> QED
      BY <3>2 DEF t
  <2>4. half \in Nat /\ more \in Nat /\ half >= 1
    <3>1. half \in Int /\ half >= 1 /\ more \in Int /\ more - half >= 1
      <4>1. L \in Int /\ L >= 2 /\ L >= 1
        BY <1>6
      <4> HIDE DEF L
      <4> QED
        BY <4>1, HalfIs
    <3> HIDE DEF half, more
    <3> QED
      BY <3>1
  <2> QED
    BY <2>1, <2>3, <2>4
<1> HIDE DEF hl, near, far, h, p, x, b, a, e, n, F, half, more
<1>12. LengthsIn(hl) = {}
  BY <1>9
<1>13. hl = h - x /\ hl \in Nat /\ pos + hl = a
  <2>1. /\ h \in Nat /\ x \in Nat /\ x <= h /\ b \in Nat /\ a = b + h /\ pos = b + x
        /\ hl = a - pos
    BY <1>2, <1>5, <1>6, <1>9
  <2> QED
    <3>1. pos \in Nat
      BY <2>1
    <3>2. (b + h) - pos = h - x /\ h - x \in Nat /\ pos + (h - x) = b + h
      BY <2>1, <3>1, RestOfHeader
    <3> QED
      BY <2>1, <3>2, Zenon
<1>14. half \in Nat /\ more \in Nat /\ half >= 1
  BY <1>11
<1>15. /\ from \in Nat /\ b <= from /\ from + 2 <= e /\ e - from <= more - half
       /\ e - from >= 2 /\ more - half \in Nat /\ more - half >= 2 /\ from <= n
  <2>1. half < p /\ p < more /\ half >= 1
    BY <1>7, <1>11
  <2>2. e = pos + hl + p
    BY <1>2, <1>13
  <2>3. pos \in Nat /\ pos >= b
    BY <1>1, <1>2, <1>5, <1>6
  <2>4. /\ hl \in Nat /\ p \in Nat /\ half \in Nat /\ more \in Nat /\ b \in Nat /\ n \in Nat
        /\ e \in Nat /\ e <= n
    BY <1>1, <1>2, <1>4, <1>13, <1>14
  <2>5. pos \in Nat /\ b <= pos
    BY <2>3
  <2> QED
    <3>1. NearTerms(pos, hl, p, half, more, b, e, n)
      BY <2>1, <2>2, <2>4, <2>5, Zenon DEF NearTerms
    <3>2. Within(from, b, e, n, more - half)
      BY <3>1, NearSums
    <3> HIDE DEF from
    <3> QED
      BY <3>2, Zenon DEF Within
<1>16. SkipTo(hl) = from
  <2>1. SkipTo(hl) = Min({n, from})
    <3>1. Max({0, HeaderLenField + half}) = half - 1
      <4>1. Max({0, HeaderLenField + half}) = IF 0 >= -1 + half THEN 0 ELSE -1 + half
        <5> DEFINE t == -1 + half
        <5>1. t \in Int /\ 0 \in Int /\ HeaderLenField + half = t
          BY <1>14 DEF HeaderLenField
        <5> HIDE DEF t
        <5>2. Max({0, t}) = IF 0 >= t THEN 0 ELSE t
          BY <5>1, MaxOfTwo
        <5> QED
          BY <5>1, <5>2 DEF t
      <4> QED
        BY <1>14, <4>1
    <3>2. SkipTo(hl) = Min({n, pos + hl + (half - 1)})
      BY <3>1 DEF SkipTo, half, n
    <3>3. pos + hl + (half - 1) = from
      BY <1>1, <1>13, <1>14
    <3> QED
      BY <3>2, <3>3
  <2>2. n \in Int /\ from \in Int
    BY <1>1, <1>15
  <2> HIDE DEF from
  <2>3. Min({n, from}) = IF n <= from THEN n ELSE from
    BY <2>2, MinOfTwo
  <2> QED
    BY <1>1, <1>15, <2>1, <2>2, <2>3
<1>17. SimplifiedSpan = more - half
  <2>1. SimplifiedSpan = Max({0, more - half})
    BY DEF SimplifiedSpan, half, more
  <2>2. Max({0, more - half}) = IF 0 >= more - half THEN 0 ELSE more - half
    <3>1. more - half \in Int /\ 0 \in Int
      BY <1>15
    <3> DEFINE t == more - half
    <3>2. t \in Int
      BY <3>1
    <3> HIDE DEF t
    <3>3. Max({0, t}) = IF 0 >= t THEN 0 ELSE t
      BY <3>1, <3>2, MaxOfTwo
    <3> QED
      BY <3>3 DEF t
  <2> QED
    BY <1>15, <2>1, <2>2
<1> HIDE DEF from
<1>18. near = e - from
  <2>1. SimplifiedSpan \in Nat /\ SimplifiedSpan # 0 /\ e - from <= SimplifiedSpan
    BY <1>15, <1>17
  <2>2. Search(from, SimplifiedSpan, <<"FF", "D9">>) = End(l) - from
    <3>1. End(l - 1) <= from /\ from + 2 <= End(l) /\ End(l) - from <= SimplifiedSpan
          /\ End(l) <= Len(data)
      BY <1>4, <1>15, <2>1 DEF b, e, n
    <3> QED
      BY <1>1, <1>4, <1>15, <2>1, <3>1, EndExactly
  <2> QED
    BY <1>16, <2>1, <2>2 DEF near, SimplifiedEnd, EOF_MARKER, e
<1>19. near >= 2 /\ SkipTo(hl) + near = e
  BY <1>2, <1>15, <1>16, <1>18
<1>20. EndsNear(hl, SkipTo(hl) + near)
  <2>1. hl # Eof /\ hl # -1 /\ near # -1 /\ near # Eof /\ ~ EndsTold(hl)
    <3>1. ~ EndsTold(hl)
      BY <1>12 DEF EndsTold
    <3>2. near \in Int
      BY <1>2, <1>15, <1>18
    <3>3. hl # Eof /\ hl # -1
      <4>1. hl \in Nat
        BY <1>13
      <4> QED
        BY <4>1 DEF Eof
    <3>4. near # -1 /\ near # Eof
      <4>1. near \in Int /\ near >= 2
        BY <1>19, <3>2
      <4> QED
        BY <4>1 DEF Eof
    <3> QED
      BY <3>1, <3>3, <3>4
  <2> QED
    BY <1>10, <2>1 DEF EndsBy
<1>21. ~ MarkLost(e)
  <2>1. ~ (e - pos > F)
    BY <1>1, <1>2, <1>4, <1>5, <1>13
  <2> QED
    BY <2>1 DEF MarkLost, F
<1>22. CallGives(pos + hl, e - pos - hl)
  BY <1>19, <1>20, <1>21 DEF EndsNear
<1>23. e - pos - hl = p
  <2>1. e = (pos + hl) + p /\ pos \in Nat /\ hl \in Nat /\ p \in Nat
    BY <1>1, <1>2, <1>13
  <2> QED
    BY <2>1, RestOfPart
<1>24. CallGives(a, p)
  BY <1>13, <1>22, <1>23
<1> QED
  BY <1>24 DEF a, p

\* Where all is read, a call says that the stream has ended.
LEMMA SteadyEnds ==
  ASSUME Laid, LengthOK, pos = Len(data), ReadFrame
  PROVE  CallFails("end", pos, mContentLength)
<1> DEFINE hl == StartOfSequence(pos, SOI_MARKER)
           near == SimplifiedEnd(hl)
           far == EndOfSequence(pos, EOF_MARKER)
<1>1. Len(data) \in Nat /\ pos \in 0..Len(data)
  BY DEF Laid
<1>2. EndsBy(hl, near, far)
  BY <1>1, CallEnds
<1>3. hl = Eof
  BY NoneFound
<1> HIDE DEF hl, near, far
<1>4. ~ (hl >= 0) /\ hl # -1
  BY <1>3 DEF Eof
<1> QED
  BY <1>2, <1>4 DEF EndsBy

\* How far a steady stream was read: no call yet, its only picture lost to the
\* first, or the first k pictures handed on.
NotBegun == result = "none" /\ frames = <<>> /\ pos = 0 /\ mContentLength = -1

OnlyLost ==
    /\ result \in {"io", "end"} /\ Len(parts) = 1
    /\ frames = <<>> /\ pos = Len(data)

Taken(k) ==
    /\ result \in {"frame", "end"}
    /\ result = "end" => k = Len(parts)
    /\ Len(frames) = k /\ \A i \in 1..k : frames[i].at = PictureAt(i)
    /\ pos = End(k) + Extra(k)
    /\ mContentLength = Len(parts[k].picture) + Extra(k)

SomeTaken == \E k \in 1..Len(parts) : Taken(k)

SteadyInv == Steady /\ AllSent => NotBegun \/ OnlyLost \/ SomeTaken

\* A frame more.
LEMMA TakesOn ==
  ASSUME frames \in Seq([at : Nat, len : Nat]), UNCHANGED streamVars, NEW k \in 1..Len(parts),
         Len(frames) = k - 1, \A i \in 1..k - 1 : frames[i].at = PictureAt(i), Laid,
         NEW length, CallGives(PictureAt(k), length),
         PictureAt(k) + length = End(k) + Extra(k), length = Len(parts[k].picture) + Extra(k)
  PROVE  SomeTaken'
<1>1. /\ data' = data /\ parts' = parts
      /\ \A i : PictureAt(i)' = PictureAt(i) /\ End(i)' = End(i)
  BY PlacesStay
<1>2. Extra(k)' = Extra(k)
  BY <1>1 DEF Extra
<1>3. /\ Len(frames') = Len(frames) + 1
      /\ \A i \in 1..Len(frames) : frames'[i] = frames[i]
      /\ frames'[Len(frames) + 1].at = PictureAt(k)
  BY WithFrame DEF CallGives
<1>4. k \in Nat /\ k - 1 + 1 = k
  BY DEF Laid
<1>5. Len(frames') = k /\ frames'[k].at = PictureAt(k)
  BY <1>3, <1>4
<1>6. ASSUME NEW i \in 1..k PROVE frames'[i].at = PictureAt(i)
  <2>1. CASE i = k
    BY <1>5, <2>1
  <2>2. CASE i # k
    <3>1. i \in 1..k - 1 /\ i \in 1..Len(frames)
      BY <1>4, <2>2
    <3> QED
      BY <1>3, <3>1
  <2> QED
    BY <2>1, <2>2
<1>7. result' = "frame" /\ pos' = End(k) + Extra(k) /\ mContentLength' = Len(parts[k].picture) + Extra(k)
  BY DEF CallGives
<1>8. Taken(k)'
  <2>1. result' \in {"frame", "end"} /\ result' # "end"
    BY <1>7
  <2>2. \A i \in 1..k : frames'[i].at = PictureAt(i)'
    BY <1>1, <1>6
  <2>3. pos' = End(k)' + Extra(k)' /\ mContentLength' = Len(parts'[k].picture) + Extra(k)'
    BY <1>1, <1>2, <1>7
  <2> QED
    BY <1>5, <2>1, <2>2, <2>3 DEF Taken
<1> QED
  BY <1>1, <1>8 DEF SomeTaken

LEMMA SteadyInvStep ==
  ASSUME ReadersInv, SteadyInv, [Next]_vars
  PROVE  SteadyInv'
<1>1. UNCHANGED streamVars
  BY DEF Next, Tablet, ReadFrame, Console, ParserThread, LineRead, ReadJPG, RoundEnds, GetImage, vars
<1>2. /\ data' = data /\ parts' = parts
      /\ \A i : PictureAt(i)' = PictureAt(i) /\ End(i)' = End(i) /\ Extra(i)' = Extra(i)
  BY <1>1, PlacesStay DEF Extra
<1>3. (Steady /\ AllSent)' <=> Steady /\ AllSent
  BY <1>2 DEF Steady, Clean, Plain, Near, AllSent, Bytes, Written
<1> SUFFICES ASSUME Steady, AllSent PROVE (NotBegun \/ OnlyLost \/ SomeTaken)'
  BY <1>3 DEF SteadyInv
<1>4. NotBegun \/ OnlyLost \/ SomeTaken
  BY DEF SteadyInv
<1>5. /\ InputInv /\ StreamOK /\ Laid /\ LengthOK /\ pos \in 0..Len(data)
      /\ frames \in Seq([at : Nat, len : Nat])
  BY LaidOut DEF ReadersInv, InputInv, InputTypeOK
<1>6. CASE UNCHANGED inputVars
  <2>1. /\ result' = result /\ frames' = frames /\ pos' = pos /\ mContentLength' = mContentLength
    BY <1>6 DEF inputVars
  <2>2. NotBegun => NotBegun'
    BY <2>1 DEF NotBegun
  <2>3. OnlyLost => OnlyLost'
    BY <1>2, <2>1 DEF OnlyLost
  <2>4. \A k : Taken(k)' <=> Taken(k)
    BY <1>2, <2>1 DEF Taken
  <2>5. SomeTaken => SomeTaken'
    BY <1>2, <2>4 DEF SomeTaken
  <2> QED
    BY <1>4, <2>2, <2>3, <2>5
<1>7. CASE ReadFrame
  <2>1. result \notin {"end", "throws"}
    BY <1>7 DEF ReadFrame
  <2>2. CASE NotBegun
    <3>1. CASE Len(parts) = 1 /\ \E length : CallFails("io", Len(data), length)
      BY <1>2, <2>2, <3>1 DEF CallFails, NotBegun, OnlyLost
    <3>2. CASE CallGives(PictureAt(1), End(1))
      <4>1. 1 \in 1..Len(parts) /\ Placed(1) /\ End(0) = 0 /\ 1 - 1 = 0 /\ Extra(1) = Len(parts[1].header)
        BY <1>5 DEF Laid, Extra
      <4>2. /\ PictureAt(1) = End(1 - 1) + Extra(1) /\ Extra(1) \in Nat
            /\ End(1) = PictureAt(1) + Len(parts[1].picture) /\ Len(parts[1].picture) \in Nat
        BY <4>1 DEF Placed
      <4>3. PictureAt(1) = 0 + Extra(1)
        BY <4>1, <4>2
      <4>4. PictureAt(1) + End(1) = End(1) + Extra(1) /\ End(1) = Len(parts[1].picture) + Extra(1)
        <5> DEFINE a == PictureAt(1)
                   p == Len(parts[1].picture)
                   e == End(1)
                   x == Extra(1)
        <5>1. a = 0 + x /\ x \in Nat /\ e = a + p /\ p \in Nat
          BY <4>2, <4>3
        <5> SUFFICES a + e = e + x /\ e = p + x
          OBVIOUS
        <5> HIDE DEF a, p, e, x
        <5> QED
          BY <5>1
      <4>5. Len(frames) = 1 - 1 /\ \A i \in 1..1 - 1 : frames[i].at = PictureAt(i)
        BY <2>2 DEF NotBegun
      <4>6. SomeTaken'
        BY <1>1, <1>5, <3>2, <4>1, <4>4, <4>5, TakesOn
      <4> QED
        BY <4>6
    <3> QED
      BY <1>5, <1>7, <2>2, <3>1, <3>2, SteadyFirst DEF NotBegun
  <2>3. CASE OnlyLost
    <3>1. CallFails("end", pos, mContentLength)
      BY <1>5, <1>7, <2>3, SteadyEnds DEF OnlyLost
    <3> QED
      BY <1>2, <2>3, <3>1 DEF CallFails, OnlyLost
  <2>4. CASE SomeTaken
    <3>1. PICK k \in 1..Len(parts) : Taken(k)
      BY <2>4 DEF SomeTaken
    <3>2. Len(parts) \in Nat /\ k \in Nat /\ Placed(k)
      BY <1>5 DEF Laid
    <3>3. CASE k = Len(parts)
      <4>1. pos = Len(data)
        <5>1. Len(data) = End(k) /\ Len(data) \in Nat
          BY <1>5, <3>3, SteadyParts DEF Laid
        <5>2. Extra(k) \in Nat
          <6>1. 1 \in 1..Len(parts)
            BY <3>2
          <6>2. Len(parts[1].header) \in Nat
            BY <1>5, <6>1 DEF Laid, Placed
          <6> QED
            BY <6>2 DEF Extra
        <5>3. pos = End(k) + Extra(k)
          BY <3>1 DEF Taken
        <5> QED
          BY <1>5, <5>1, <5>2, <5>3
      <4>2. CallFails("end", pos, mContentLength)
        BY <1>5, <1>7, <4>1, SteadyEnds
      <4>3. Taken(k)'
        <5>1. /\ result' = "end" /\ frames' = frames /\ pos' = pos
              /\ mContentLength' = mContentLength
          BY <4>2 DEF CallFails
        <5> QED
          BY <1>2, <3>1, <3>3, <5>1 DEF Taken
      <4> QED
        BY <1>2, <4>3 DEF SomeTaken
    <3>4. CASE k # Len(parts)
      <4>1. PICK l \in 2..Len(parts) : l = k + 1 /\ k = l - 1
        BY <3>2, <3>4
      <4>2. Taken(l - 1) /\ l \in 1..Len(parts) /\ l # 1
        BY <3>1, <3>2, <4>1
      <4>3. CallGives(PictureAt(l), Len(parts[l].picture))
        BY <1>5, <1>7, <4>2, SteadyNext DEF Taken
      <4>4. Placed(l) /\ Extra(l) = 0
        BY <1>5, <4>2 DEF Laid, Extra
      <4>5. /\ PictureAt(l) + Len(parts[l].picture) = End(l) + Extra(l)
            /\ Len(parts[l].picture) = Len(parts[l].picture) + Extra(l)
        <5> DEFINE a == PictureAt(l)
                   p == Len(parts[l].picture)
                   e == End(l)
        <5>1. a \in Nat /\ p \in Nat /\ e = a + p
          BY <4>4 DEF Placed
        <5> SUFFICES a + p = e + Extra(l) /\ p = p + Extra(l)
          OBVIOUS
        <5> HIDE DEF a, p, e
        <5> QED
          BY <4>4, <5>1
      <4>6. Len(frames) = l - 1 /\ \A i \in 1..l - 1 : frames[i].at = PictureAt(i)
        BY <4>2 DEF Taken
      <4>7. SomeTaken'
        BY <1>1, <1>5, <4>2, <4>3, <4>5, <4>6, TakesOn
      <4> QED
        BY <4>7
    <3> QED
      BY <3>3, <3>4
  <2> QED
    BY <1>4, <2>2, <2>3, <2>4
<1> QED
  BY <1>6, <1>7 DEF Next, Tablet, Console, vars

\* From a steady stream that is sent whole, the tablet's reader hands on every
\* picture in its order, at its place, and only then says that the stream has
\* ended; of a stream of one picture, that one may be lost.
THEOREM NothingIsLost == Spec => []NothingLost
<1>1. ReadersInv /\ SteadyInv /\ [Next]_vars => SteadyInv'
  BY SteadyInvStep
<1>2. Init => SteadyInv
  BY DEF Init, InputInit, SteadyInv, NotBegun
<1>3. ReadersInv /\ SteadyInv => NothingLost
  <2> SUFFICES ASSUME ReadersInv, SteadyInv, Steady, result = "end", data = Bytes(parts)
               PROVE  /\ Len(frames) = Len(parts) \/ (frames = <<>> /\ Len(parts) = 1)
                      /\ \A k \in DOMAIN frames : frames[k].at = PictureAt(k)
    BY DEF NothingLost
  <2>1. Laid /\ frames \in Seq([at : Nat, len : Nat])
    BY LaidOut DEF ReadersInv, InputInv, InputTypeOK
  <2>2. DOMAIN frames = 1..Len(frames) /\ Len(frames) \in Nat /\ Len(parts) \in Nat
    BY <2>1 DEF Laid
  <2>3. OnlyLost \/ SomeTaken
    BY DEF SteadyInv, AllSent, NotBegun
  <2>4. CASE OnlyLost
    BY <2>2, <2>4 DEF OnlyLost
  <2>5. CASE SomeTaken
    <3>1. PICK k \in 1..Len(parts) : Taken(k)
      BY <2>5 DEF SomeTaken
    <3>2. Len(frames) = Len(parts) /\ \A i \in 1..Len(frames) : frames[i].at = PictureAt(i)
      BY <3>1 DEF Taken
    <3> QED
      BY <2>2, <3>2
  <2> QED
    BY <2>3, <2>4, <2>5
<1> QED
  BY <1>1, <1>2, <1>3, ReadersKeep, PTL DEF Spec
=============================================================================
