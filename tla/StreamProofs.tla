---------------------------- MODULE StreamProofs ----------------------------
(***************************************************************************)
(* Proofs about the two readers of the stream, for streams of any parts,   *)
(* cut off anywhere.                                                       *)
(***************************************************************************)
EXTENDS StreamReaders, TLAPS, WellFoundedInduction, NaturalsInduction, SequenceTheorems

-----------------------------------------------------------------------------
(***************************************************************************)
(* Induction.  The library's theorems about it have an operator among      *)
(* their parameters; that a set of natural numbers has a least element,    *)
(* which says the same, needs none.                                        *)
(***************************************************************************)

LEMMA LeastNatural ==
  ASSUME NEW T, T \subseteq Nat, T # {}
  PROVE  \E m \in T : \A n \in T : m <= n
<1> DEFINE R == OpToRel(<, Nat)
<1>1. IsWellFoundedOn(R, Nat)
  BY NatLessThanWellFounded
<1>2. \A m, n \in Nat : n < m => <<n, m>> \in R
  BY DEF OpToRel
<1> HIDE DEF R
<1>3. PICK m \in T : \A n \in T : ~ (<<n, m>> \in R)
  BY <1>1, WFMin
<1>4. ASSUME NEW n \in T PROVE m <= n
  <2>1. m \in Nat /\ n \in Nat /\ ~ (n < m)
    BY <1>2, <1>3
  <2> QED
    BY <2>1
<1> QED
  BY <1>4

\* As induction upwards and downwards over the numbers to n.
LEMMA CountUp ==
  ASSUME NEW n \in Nat, NEW T, 0 \in T, \A i \in 0..n : i \in T /\ i < n => i + 1 \in T
  PROVE  \A i \in 0..n : i \in T
<1> DEFINE Without == {i \in 0..n : i \notin T}
<1>1. SUFFICES ASSUME Without # {} PROVE FALSE
  OBVIOUS
<1>2. PICK m \in Without : \A k \in Without : m <= k
  <2>1. Without \subseteq Nat
    OBVIOUS
  <2> HIDE DEF Without
  <2> QED
    BY <1>1, <2>1, LeastNatural
<1>3. m # 0
  OBVIOUS
<1>4. m - 1 \in 0..n /\ m - 1 \notin Without
  BY <1>2, <1>3
<1> QED
  BY <1>4

LEMMA CountDown ==
  ASSUME NEW n \in Nat, NEW T, n \in T, \A i \in 0..n : i + 1 \in T /\ i < n => i \in T
  PROVE  \A i \in 0..n : i \in T
<1> DEFINE U == {d \in 0..n : n - d \in T}
<1>1. 0 \in U
  OBVIOUS
<1>2. ASSUME NEW d \in 0..n, d \in U, d < n
      PROVE  d + 1 \in U
  <2>1. n - (d + 1) \in 0..n /\ n - (d + 1) + 1 = n - d /\ n - (d + 1) < n
    BY <1>2
  <2> QED
    BY <1>2, <2>1
<1>3. \A d \in 0..n : d \in U
  <2> HIDE DEF U
  <2> QED
    BY <1>1, <1>2, CountUp
<1>4. ASSUME NEW i \in 0..n PROVE i \in T
  <2>1. n - i \in 0..n /\ n - (n - i) = i
    OBVIOUS
  <2> QED
    BY <1>3, <2>1
<1> QED
  BY <1>4

\* The recursive functions of the model are runs: from a first value, each
\* value is a function of the one before.  Such a function exists.
IsRun(g, n, s0, T) == g[0] = s0 /\ \A i \in 1..n : g[i] = T[<<i, g[i - 1]>>]

LEMMA RunExists ==
  ASSUME NEW n \in Nat, NEW S, NEW s0 \in S, NEW T \in [(1..n) \X S -> S]
  PROVE  \E g \in [0..n -> S] : IsRun(g, n, s0, T)
<1> USE DEF IsRun
<1> DEFINE Run(m, g) == g[0] = s0 /\ \A i \in 1..m : g[i] = T[<<i, g[i - 1]>>]
           With == {m \in 0..n : \E g \in [0..m -> S] : Run(m, g)}
<1>1. 0 \in With
  <2> DEFINE g == [i \in 0..0 |-> s0]
  <2>1. g \in [0..0 -> S] /\ Run(0, g)
    OBVIOUS
  <2>2. 0 \in 0..n
    OBVIOUS
  <2> HIDE DEF g, Run
  <2> QED
    BY <2>1, <2>2
<1>2. ASSUME NEW k \in 0..n, k \in With, k < n
      PROVE  k + 1 \in With
  <2> DEFINE m == k + 1
  <2>1. PICK g \in [0..k -> S] : Run(k, g)
    BY <1>2
  <2> DEFINE h == [i \in 0..m |-> IF i = m THEN T[<<m, g[k]>>] ELSE g[i]]
  <2>2. h \in [0..m -> S]
    <3>1. m \in 1..n /\ g[k] \in S /\ <<m, g[k]>> \in (1..n) \X S
      BY <1>2
    <3>2. T[<<m, g[k]>>] \in S
      BY <3>1
    <3>3. \A i \in 0..m : i # m => i \in 0..k
      BY <3>1
    <3> QED
      BY <3>2, <3>3
  <2>3. h[0] = s0
    BY <2>1
  <2>4. ASSUME NEW i \in 1..m PROVE h[i] = T[<<i, h[i - 1]>>]
    <3>1. h[i - 1] = g[i - 1]
      OBVIOUS
    <3>2. CASE i = m
      <4>1. h[m] = T[<<m, g[k]>>] /\ m - 1 = k
        OBVIOUS
      <4> HIDE DEF h
      <4> QED
        BY <3>1, <3>2, <4>1
    <3>3. CASE i # m
      <4>1. i \in 1..k /\ h[i] = g[i]
        BY <3>3
      <4> QED
        BY <3>1, <4>1, <2>1
    <3> QED
      BY <3>2, <3>3
  <2> HIDE DEF h
  <2>5. Run(m, h)
    BY <2>3, <2>4
  <2> QED
    BY <1>2, <2>2, <2>5
<1>3. \A m \in 0..n : m \in With
  <2> HIDE DEF With
  <2> QED
    BY <1>1, <1>2, CountUp
<1>4. n \in 0..n
  OBVIOUS
<1> QED
  BY <1>3, <1>4

-----------------------------------------------------------------------------
(***************************************************************************)
(* The searches.                                                           *)
(***************************************************************************)

\* A search for two bytes goes on as the loop of getEndOfSeqeunce does.
ScanRuns(scan, from, n, A, B) ==
  \A i \in 0..n :
    /\ scan[<<i, 2>>] = i
    /\ scan[<<i, 0>>] = IF i = n THEN -1
                        ELSE IF from + i >= Len(data) THEN Eof
                        ELSE scan[<<i + 1, IF data[from + i + 1] = A THEN 1 ELSE 0>>]
    /\ scan[<<i, 1>>] = IF i = n THEN -1
                        ELSE IF from + i >= Len(data) THEN Eof
                        ELSE scan[<<i + 1, IF data[from + i + 1] = B THEN 2 ELSE 0>>]

Searched(s, from, n, A, B) ==
  \E scan : ScanRuns(scan, from, n, A, B) /\ s = scan[<<0, 0>>]

LEMMA SearchRuns ==
  ASSUME NEW from \in Nat, NEW n \in Nat, NEW A, NEW B
  PROVE  Searched(Search(from, n, <<A, B>>), from, n, A, B)
<1> DEFINE sequence == <<A, B>>
           S == [0..2 -> Int]
           first == [j \in 0..2 |-> IF j = 2 THEN n ELSE -1]
           row(m, r) == [j \in 0..2 |->
                           IF j = 2 THEN n - m
                           ELSE IF from + (n - m) >= Len(data) THEN Eof
                           ELSE r[NextIndex(j, data[from + (n - m) + 1], sequence)]]
           T == [p \in (1..n) \X S |-> row(p[1], p[2])]
<1>1. Len(sequence) = 2
  OBVIOUS
<1>2. \A j \in 0..1 : \A c : NextIndex(j, c, sequence) \in 0..2
  BY DEF NextIndex
<1>3. first \in S
  OBVIOUS
<1>4. T \in [(1..n) \X S -> S]
  <2>1. ASSUME NEW m \in 1..n, NEW r \in S PROVE row(m, r) \in S
    <3>1. ASSUME NEW j \in 0..2 PROVE row(m, r)[j] \in Int
      <4>1. CASE j = 2
        BY <4>1
      <4>2. CASE j # 2
        BY <4>2, <1>2 DEF Eof
      <4> QED
        BY <4>1, <4>2
    <3> QED
      BY <3>1
  <2> HIDE DEF row, S
  <2> QED
    BY <2>1
<1> HIDE DEF T
<1>5. PICK g \in [0..n -> S] : g[0] = first /\ \A i \in 1..n : g[i] = T[<<i, g[i - 1]>>]
  <2> HIDE DEF S, first
  <2>1. PICK g \in [0..n -> S] : IsRun(g, n, first, T)
    BY <1>3, <1>4, RunExists
  <2> QED
    BY <2>1 DEF IsRun
<1> DEFINE D == (0..n) \X (0..Len(sequence))
           body(f, i, j) == IF j = Len(sequence) THEN i
                            ELSE IF i = n THEN -1
                            ELSE IF from + i >= Len(data) THEN Eof
                            ELSE f[<<i + 1, NextIndex(j, data[from + i + 1], sequence)>>]
           full(f) == [p \in D |-> body(f, p[1], p[2])]
           h == [p \in D |-> g[n - p[1]][p[2]]]
<1>6. h = full(h)
  <2>1. ASSUME NEW i \in 0..n, NEW j \in 0..2
        PROVE  g[n - i][j] = body(h, i, j)
    <3>1. CASE i = n
      BY <3>1, <1>1, <1>5
    <3>2. CASE i # n
      <4> DEFINE r == g[n - i - 1]
                 after == NextIndex(j, data[from + i + 1], sequence)
      <4>1. n - i \in 1..n /\ r \in S /\ <<n - i, r>> \in (1..n) \X S /\ n - (n - i) = i
        <5>1. n - i \in 1..n /\ n - i - 1 \in 0..n /\ n - (n - i) = i
          BY <3>2
        <5>2. r \in S
          <6> HIDE DEF S
          <6> QED
            BY <1>5, <5>1
        <5> HIDE DEF S, r
        <5> QED
          BY <5>1, <5>2
      <4>2. g[n - i] = row(n - i, r)
        <5>1. T[<<n - i, r>>] = row(n - i, r)
          <6> HIDE DEF row, r, S
          <6> QED
            BY <4>1 DEF T
        <5>2. g[n - i] = T[<<n - i, g[n - i - 1]>>]
          <6> HIDE DEF r, S
          <6> QED
            BY <4>1, <1>5
        <5> HIDE DEF row, S
        <5> QED
          BY <5>1, <5>2
      <4>3. j # 2 => /\ <<i + 1, after>> \in D
                     /\ h[<<i + 1, after>>] = r[after]
        <5>1. j # 2 => after \in 0..2
          <6>1. j # 2 => j \in 0..1
            OBVIOUS
          <6> HIDE DEF sequence
          <6> QED
            BY <6>1, <1>2
        <5>2. i + 1 \in 0..n /\ n - (i + 1) = n - i - 1
          BY <3>2
        <5> HIDE DEF after, r
        <5> QED
          BY <1>1, <5>1, <5>2 DEF r
      <4> HIDE DEF h, r
      <4>4. CASE j = 2
        BY <1>1, <3>2, <4>1, <4>2, <4>4
      <4>5. CASE j # 2
        BY <1>1, <3>2, <4>1, <4>2, <4>3, <4>5
      <4> QED
        BY <4>4, <4>5
    <3> QED
      BY <3>1, <3>2
  <2>2. \A p \in D : g[n - p[1]][p[2]] = body(h, p[1], p[2])
    BY <1>1, <2>1
  <2> HIDE DEF body
  <2> QED
    BY <2>2
<1>7. (CHOOSE f : f = full(f)) = full(CHOOSE f : f = full(f))
  <2> HIDE DEF full, h
  <2> QED
    BY <1>6, Zenon
<1> DEFINE scan == CHOOSE f : f = full(f)
<1>8. Search(from, n, sequence) = scan[<<0, 0>>]
  BY DEF Search
<1>9. ASSUME NEW i \in 0..n, NEW j \in 0..2
      PROVE  scan[<<i, j>>] = body(scan, i, j)
  <2> HIDE DEF scan
  <2>1. scan = full(scan)
    <3> HIDE DEF full
    <3> QED
      BY <1>7 DEF scan
  <2>2. full(scan)[<<i, j>>] = body(scan, i, j)
    BY <1>1
  <2> HIDE DEF full, body
  <2> QED
    BY <2>1, <2>2
<1> HIDE DEF scan
<1>10. /\ \A c : NextIndex(0, c, sequence) = IF c = A THEN 1 ELSE 0
       /\ \A c : NextIndex(1, c, sequence) = IF c = B THEN 2 ELSE 0
  BY DEF NextIndex
<1> HIDE DEF sequence
<1>11. ASSUME NEW i \in 0..n
       PROVE  /\ scan[<<i, 2>>] = i
              /\ scan[<<i, 0>>] = IF i = n THEN -1
                                  ELSE IF from + i >= Len(data) THEN Eof
                                  ELSE scan[<<i + 1, IF data[from + i + 1] = A THEN 1 ELSE 0>>]
              /\ scan[<<i, 1>>] = IF i = n THEN -1
                                  ELSE IF from + i >= Len(data) THEN Eof
                                  ELSE scan[<<i + 1, IF data[from + i + 1] = B THEN 2 ELSE 0>>]
  <2>1. /\ scan[<<i, 2>>] = body(scan, i, 2)
        /\ scan[<<i, 0>>] = body(scan, i, 0)
        /\ scan[<<i, 1>>] = body(scan, i, 1)
    <3>1. 0 \in 0..2 /\ 1 \in 0..2 /\ 2 \in 0..2
      OBVIOUS
    <3> HIDE DEF body
    <3> QED
      BY <1>9, <3>1
  <2>2. body(scan, i, 2) = i
    BY <1>1
  <2>3. body(scan, i, 0) = IF i = n THEN -1
                           ELSE IF from + i >= Len(data) THEN Eof
                           ELSE scan[<<i + 1, NextIndex(0, data[from + i + 1], sequence)>>]
    BY <1>1
  <2>4. body(scan, i, 1) = IF i = n THEN -1
                           ELSE IF from + i >= Len(data) THEN Eof
                           ELSE scan[<<i + 1, NextIndex(1, data[from + i + 1], sequence)>>]
    BY <1>1
  <2>5. /\ NextIndex(0, data[from + i + 1], sequence) = IF data[from + i + 1] = A THEN 1 ELSE 0
        /\ NextIndex(1, data[from + i + 1], sequence) = IF data[from + i + 1] = B THEN 2 ELSE 0
    BY <1>10
  <2> HIDE DEF body
  <2> QED
    BY <2>1, <2>2, <2>3, <2>4, <2>5
<1>12. ScanRuns(scan, from, n, A, B)
  BY <1>11 DEF ScanRuns
<1>13. Search(from, n, <<A, B>>) = scan[<<0, 0>>]
  BY <1>8 DEF sequence
<1> QED
  BY <1>12, <1>13 DEF Searched

\* Where a search for <<A, B>> from an offset may be after i bytes: it is in the
\* stream, and the index is that of the bytes just read.
Reached(i, j, from, n, A, B) ==
  /\ i \in 0..n /\ j \in 0..2 /\ from + i <= Len(data)
  /\ j = 1 => i >= 1 /\ data[from + i] = A
  /\ j = 2 => i >= 2 /\ data[from + i - 1] = A /\ data[from + i] = B

GoesOn(scan, i, j, from, n, A, B) ==
  \E after \in 0..2 : /\ Reached(i + 1, after, from, n, A, B)
                      /\ scan[<<i, j>>] = scan[<<i + 1, after>>]

LEMMA StaysReached ==
  ASSUME NEW from \in Nat, NEW n \in Nat, NEW A, NEW B, Len(data) \in Nat,
         NEW scan, ScanRuns(scan, from, n, A, B),
         NEW i, NEW j, Reached(i, j, from, n, A, B), i < n, j # 2, from + i < Len(data)
  PROVE  GoesOn(scan, i, j, from, n, A, B)
<1>1. i + 1 \in 0..n /\ from + (i + 1) <= Len(data) /\ i \in 0..n /\ j \in {0, 1}
  BY DEF Reached
<1>2. /\ from + (i + 1) = from + i + 1
      /\ from + (i + 1) - 1 = from + i
      /\ i # n /\ ~ (from + i >= Len(data))
  BY <1>1
<1>3. CASE j = 0
  <2> DEFINE after == IF data[from + i + 1] = A THEN 1 ELSE 0
  <2>1. scan[<<i, 0>>] = scan[<<i + 1, after>>]
    BY <1>1, <1>2 DEF ScanRuns
  <2>2. Reached(i + 1, after, from, n, A, B)
    BY <1>1, <1>2 DEF Reached
  <2> QED
    BY <1>3, <2>1, <2>2 DEF GoesOn
<1>4. CASE j = 1
  <2> DEFINE after == IF data[from + i + 1] = B THEN 2 ELSE 0
  <2>1. scan[<<i, 1>>] = scan[<<i + 1, after>>]
    BY <1>1, <1>2 DEF ScanRuns
  <2>2. Reached(i + 1, after, from, n, A, B)
    BY <1>1, <1>2, <1>4 DEF Reached
  <2> QED
    BY <1>4, <2>1, <2>2 DEF GoesOn
<1> QED
  BY <1>1, <1>3, <1>4

MarkEnds(e, A, B) == data[e - 1] = A /\ data[e] = B

\* There is another A before the mark's, which a search may have taken for it.
Repeated(e, from, A) == e - from > 2 /\ data[e - 2] = A

\* What a search says of the stream.
SaysOf(s, from, n, A, B) ==
  \/ s = -1 /\ from + n <= Len(data)
  \/ s = Eof /\ from + n > Len(data)
  \/ s \in 2..n /\ from + s <= Len(data) /\ MarkEnds(from + s, A, B)

\* What a search finds is there.
LEMMA SearchSound ==
  ASSUME NEW from \in Nat, NEW n \in Nat, NEW A, NEW B,
         Len(data) \in Nat, from <= Len(data)
  PROVE  SaysOf(Search(from, n, <<A, B>>), from, n, A, B)
<1> DEFINE s == Search(from, n, <<A, B>>)
<1>0. Searched(s, from, n, A, B)
  BY SearchRuns
<1> HIDE DEF s
<1>1. PICK scan : ScanRuns(scan, from, n, A, B) /\ s = scan[<<0, 0>>]
  BY <1>0 DEF Searched
<1> DEFINE Right(i) == \A j \in 0..2 : Reached(i, j, from, n, A, B) =>
                                       SaysOf(scan[<<i, j>>], from, n, A, B)
<1>2. ASSUME NEW i \in 0..n, i < n => Right(i + 1)
      PROVE  Right(i)
  <2> SUFFICES ASSUME NEW j \in 0..2, Reached(i, j, from, n, A, B)
               PROVE  SaysOf(scan[<<i, j>>], from, n, A, B)
    OBVIOUS
  <2>1. CASE j = 2
    <3>1. scan[<<i, j>>] = i
      BY <1>1, <2>1 DEF ScanRuns
    <3> QED
      BY <2>1, <3>1 DEF Reached, SaysOf, MarkEnds
  <2>2. CASE j # 2 /\ i = n
    <3>1. scan[<<i, 0>>] = -1 /\ scan[<<i, 1>>] = -1
      BY <1>1, <2>2 DEF ScanRuns
    <3>2. j = 0 \/ j = 1
      BY <2>2
    <3>3. scan[<<i, j>>] = -1
      BY <3>1, <3>2
    <3> QED
      BY <2>2, <3>3 DEF Reached, SaysOf
  <2>3. CASE j # 2 /\ i # n /\ from + i >= Len(data)
    <3>1. scan[<<i, 0>>] = Eof /\ scan[<<i, 1>>] = Eof
      BY <1>1, <2>3 DEF ScanRuns
    <3>2. j = 0 \/ j = 1
      BY <2>3
    <3>3. scan[<<i, j>>] = Eof
      BY <3>1, <3>2
    <3> QED
      BY <2>3, <3>3 DEF Reached, SaysOf
  <2>4. CASE j # 2 /\ i # n /\ from + i < Len(data)
    <3>1. PICK after \in 0..2 : /\ Reached(i + 1, after, from, n, A, B)
                               /\ scan[<<i, j>>] = scan[<<i + 1, after>>]
      <4>1. i < n
        BY <2>4
      <4>2. GoesOn(scan, i, j, from, n, A, B)
        BY <1>1, <2>4, <4>1, StaysReached
      <4> QED
        BY <4>2 DEF GoesOn
    <3> QED
      BY <1>2, <2>4, <3>1
  <2> QED
    BY <2>1, <2>2, <2>3, <2>4
<1>3. Right(n)
  <2>1. n \in 0..n /\ ~ (n < n)
    OBVIOUS
  <2> HIDE DEF Right
  <2> QED
    BY <1>2, <2>1
<1> HIDE DEF Right
<1>4. Right(0)
  <2> DEFINE Holds == {i \in 0..n : Right(i)}
  <2>1. n \in Holds /\ \A i \in 0..n : i + 1 \in Holds /\ i < n => i \in Holds
    BY <1>2, <1>3
  <2>2. \A i \in 0..n : i \in Holds
    <3> HIDE DEF Holds
    <3> QED
      BY <2>1, CountDown
  <2> QED
    BY <2>2
<1>5. Reached(0, 0, from, n, A, B)
  BY DEF Reached
<1>6. SaysOf(scan[<<0, 0>>], from, n, A, B)
  <2>1. 0 \in 0..2
    OBVIOUS
  <2> QED
    BY <1>4, <1>5, <2>1 DEF Right
<1> QED
  BY <1>1, <1>6 DEF s

\* The first mark that has no such byte before it is found, if none was earlier.
LEMMA SearchComplete ==
  ASSUME NEW from \in Nat, NEW n \in Nat, NEW A, NEW B,
         Len(data) \in Nat, from <= Len(data),
         NEW t \in 2..n, from + t <= Len(data),
         MarkEnds(from + t, A, B), ~ Repeated(from + t, from, A)
  PROVE  Search(from, n, <<A, B>>) \in 2..t
<1> DEFINE s == Search(from, n, <<A, B>>)
<1>0. Searched(s, from, n, A, B)
  BY SearchRuns
<1> HIDE DEF s
<1>1. PICK scan : ScanRuns(scan, from, n, A, B) /\ s = scan[<<0, 0>>]
  BY <1>0 DEF Searched
<1> DEFINE Early(i) == \A j \in 0..2 : Reached(i, j, from, n, A, B) => scan[<<i, j>>] \in 0..t
<1>2. ASSUME NEW i \in 0..n
      PROVE  scan[<<i, 2>>] = i
  BY <1>1 DEF ScanRuns
<1>3. scan[<<t - 2, 0>>] = t
  <2>1. /\ t - 2 \in 0..n /\ ~ (from + (t - 2) >= Len(data)) /\ t - 2 # n
        /\ from + (t - 2) + 1 = from + t - 1 /\ t - 2 + 1 = t - 1
        /\ t - 1 \in 0..n /\ ~ (from + (t - 1) >= Len(data)) /\ t - 1 # n
        /\ from + (t - 1) + 1 = from + t /\ t - 1 + 1 = t
    OBVIOUS
  <2>2. scan[<<t - 2, 0>>] = scan[<<t - 1, IF data[from + t - 1] = A THEN 1 ELSE 0>>]
    <3> DEFINE i == t - 2
    <3>1. scan[<<i, 0>>] = IF i = n THEN -1
                           ELSE IF from + i >= Len(data) THEN Eof
                           ELSE scan[<<i + 1, IF data[from + i + 1] = A THEN 1 ELSE 0>>]
      <4>1. i \in 0..n
        BY <2>1
      <4> HIDE DEF i
      <4> QED
        BY <1>1, <4>1 DEF ScanRuns
    <3> QED
      BY <2>1, <3>1
  <2>3. scan[<<t - 1, 1>>] = scan[<<t, IF data[from + t] = B THEN 2 ELSE 0>>]
    <3> DEFINE i == t - 1
    <3>1. scan[<<i, 1>>] = IF i = n THEN -1
                           ELSE IF from + i >= Len(data) THEN Eof
                           ELSE scan[<<i + 1, IF data[from + i + 1] = B THEN 2 ELSE 0>>]
      <4>1. i \in 0..n
        BY <2>1
      <4> HIDE DEF i
      <4> QED
        BY <1>1, <4>1 DEF ScanRuns
    <3> QED
      BY <2>1, <3>1
  <2>4. data[from + t - 1] = A /\ data[from + t] = B
    BY DEF MarkEnds
  <2> QED
    BY <1>2, <2>2, <2>3, <2>4
<1>4. Early(t - 2)
  <2> SUFFICES ASSUME NEW j \in 0..2, Reached(t - 2, j, from, n, A, B)
               PROVE  scan[<<t - 2, j>>] \in 0..t
    OBVIOUS
  <2>1. CASE j = 2
    BY <1>2, <2>1
  <2>2. j # 1
    <3>1. from + (t - 2) = from + t - 2 /\ from + t - from = t
      OBVIOUS
    <3> QED
      BY <3>1 DEF Reached, Repeated
  <2>3. CASE j = 0
    BY <1>3, <2>3
  <2> QED
    BY <2>1, <2>2, <2>3
<1>5. ASSUME NEW i \in 0..(t - 2), Early(i + 1), i < t - 2
      PROVE  Early(i)
  <2> SUFFICES ASSUME NEW j \in 0..2, Reached(i, j, from, n, A, B)
               PROVE  scan[<<i, j>>] \in 0..t
    OBVIOUS
  <2>1. CASE j = 2
    BY <1>2, <2>1
  <2>2. CASE j # 2
    <3>1. PICK after \in 0..2 : /\ Reached(i + 1, after, from, n, A, B)
                               /\ scan[<<i, j>>] = scan[<<i + 1, after>>]
      <4>1. from + i < Len(data) /\ i < n
        BY <1>5
      <4>2. GoesOn(scan, i, j, from, n, A, B)
        BY <1>1, <2>2, <4>1, StaysReached
      <4> QED
        BY <4>2 DEF GoesOn
    <3> QED
      BY <1>5, <3>1
  <2> QED
    BY <2>1, <2>2
<1> HIDE DEF Early
<1>6. Early(0)
  <2> DEFINE Holds == {i \in 0..(t - 2) : Early(i)}
  <2>1. t - 2 \in Holds /\ \A i \in 0..(t - 2) : i + 1 \in Holds /\ i < t - 2 => i \in Holds
    BY <1>4, <1>5
  <2>2. \A i \in 0..(t - 2) : i \in Holds
    <3> HIDE DEF Holds
    <3> QED
      BY <2>1, CountDown
  <2> QED
    BY <2>2
<1>7. s \in 0..t
  <2>1. Reached(0, 0, from, n, A, B)
    BY DEF Reached
  <2> QED
    BY <1>1, <1>6, <2>1 DEF Early
<1>8. SaysOf(s, from, n, A, B)
  BY SearchSound DEF s
<1>9. s \in 2..t
  BY <1>7, <1>8 DEF SaysOf, Eof
<1> QED
  BY <1>9 DEF s

-----------------------------------------------------------------------------
(***************************************************************************)
(* The stream.                                                             *)
(***************************************************************************)

LEMMA PartIs ==
  ASSUME NEW ps \in Seq(Parts), NEW k \in 1..Len(ps)
  PROVE  IsPart(ps[k])
<1>1. ps[k] \in Parts
  OBVIOUS
<1> QED
  BY <1>1, PartsAssumption

LEMMA WrittenIs ==
  ASSUME NEW ps \in Seq(Parts)
  PROVE  /\ Written(ps) \in [0..Len(ps) -> Seq(STRING)]
         /\ Written(ps)[0] = <<>>
         /\ \A k \in 1..Len(ps) :
              Written(ps)[k] = Written(ps)[k - 1] \o ps[k].header \o ps[k].picture
<1> DEFINE n == Len(ps)
           S == Seq(STRING)
           after(k, b) == b \o ps[k].header \o ps[k].picture
           T == [p \in (1..n) \X S |-> after(p[1], p[2])]
<1>1. n \in Nat
  OBVIOUS
<1>2. <<>> \in S
  OBVIOUS
<1>3. T \in [(1..n) \X S -> S]
  <2>1. ASSUME NEW k \in 1..n, NEW b \in S PROVE after(k, b) \in S
    <3>1. ps[k].header \in Seq(STRING) /\ ps[k].picture \in Seq(STRING)
      BY PartIs DEF IsPart
    <3> QED
      BY <3>1
  <2> HIDE DEF after, S
  <2> QED
    BY <2>1
<1> HIDE DEF T, n
<1>4. PICK g \in [0..n -> S] : g[0] = <<>> /\ \A k \in 1..n : g[k] = T[<<k, g[k - 1]>>]
  <2> HIDE DEF S
  <2>1. PICK g \in [0..n -> S] : IsRun(g, n, <<>>, T)
    BY <1>1, <1>2, <1>3, RunExists
  <2> QED
    BY <2>1 DEF IsRun
<1>5. \A k \in 1..n : g[k] = after(k, g[k - 1])
  <2> SUFFICES ASSUME NEW k \in 1..n PROVE g[k] = after(k, g[k - 1])
    OBVIOUS
  <2>1. k - 1 \in 0..n
    BY <1>1
  <2>2. g[k - 1] \in S
    BY <2>1
  <2>3. <<k, g[k - 1]>> \in (1..n) \X S
    BY <2>2
  <2> HIDE DEF S, after
  <2>4. T[<<k, g[k - 1]>>] = after(k, g[k - 1])
    BY <2>3 DEF T
  <2> QED
    BY <1>4, <2>4
<1> DEFINE body(f, k) == IF k = 0 THEN <<>> ELSE after(k, f[k - 1])
           full(f) == [k \in 0..n |-> body(f, k)]
<1>6. g = full(g)
  <2>1. \A k \in 0..n : g[k] = body(g, k)
    <3> SUFFICES ASSUME NEW k \in 0..n PROVE g[k] = body(g, k)
      OBVIOUS
    <3>1. CASE k = 0
      BY <3>1, <1>4
    <3>2. CASE k # 0
      <4>1. k \in 1..n
        BY <1>1, <3>2
      <4> HIDE DEF after
      <4> QED
        BY <3>2, <4>1, <1>5
    <3> QED
      BY <3>1, <3>2
  <2> HIDE DEF body, S
  <2> QED
    BY <2>1
<1>7. (CHOOSE f : f = full(f)) = full(CHOOSE f : f = full(f))
  <2> HIDE DEF full
  <2> QED
    BY <1>6, Zenon
<1> DEFINE w == CHOOSE f : f = full(f)
<1>8. Written(ps) = w
  BY DEF Written, n
<1> HIDE DEF w
<1>9. w = full(w)
  <2> HIDE DEF full
  <2> QED
    BY <1>7 DEF w
<1>10. w[0] = <<>> /\ \A k \in 1..n : w[k] = after(k, w[k - 1])
  <2>1. \A k \in 0..n : w[k] = body(w, k)
    <3> HIDE DEF body
    <3> QED
      BY <1>9
  <2>2. w[0] = <<>>
    BY <1>1, <2>1
  <2>3. ASSUME NEW k \in 1..n PROVE w[k] = after(k, w[k - 1])
    <3>1. k \in 0..n /\ k # 0
      BY <1>1
    <3> HIDE DEF after
    <3> QED
      BY <2>1, <3>1
  <2> QED
    BY <2>2, <2>3
<1>11. \A k \in 0..n : w[k] = g[k]
  <2> DEFINE Same == {k \in 0..n : w[k] = g[k]}
  <2>1. 0 \in Same
    BY <1>1, <1>4, <1>10
  <2>2. ASSUME NEW k \in 0..n, k \in Same, k < n PROVE k + 1 \in Same
    <3>1. k + 1 \in 1..n /\ k + 1 - 1 = k
      BY <1>1, <2>2
    <3>2. w[k] = g[k]
      BY <2>2
    <3> HIDE DEF after
    <3>3. w[k + 1] = after(k + 1, w[k]) /\ g[k + 1] = after(k + 1, g[k])
      BY <1>5, <1>10, <3>1
    <3> QED
      BY <3>1, <3>2, <3>3
  <2>3. \A k \in 0..n : k \in Same
    <3> HIDE DEF Same
    <3> QED
      BY <1>1, <2>1, <2>2, CountUp
  <2> QED
    BY <2>3
<1>12. w \in [0..n -> S]
  <2>1. \A k \in 0..n : w[k] \in S
    <3> HIDE DEF S
    <3> QED
      BY <1>11
  <2>2. w = [k \in 0..n |-> w[k]]
    <3>1. w = [k \in 0..n |-> body(w, k)]
      <4> HIDE DEF body
      <4> QED
        BY <1>9
    <3> HIDE DEF body
    <3> QED
      BY <3>1
  <2> HIDE DEF S
  <2> QED
    BY <2>1, <2>2
<1> QED
  BY <1>8, <1>10, <1>12 DEF n

\* What the server sent is the beginning of what it wrote.
StreamOK ==
    /\ parts \in Seq(Parts) /\ parts # <<>>
    /\ data \in Seq(STRING)
    /\ Len(data) <= Len(Bytes(parts))
    /\ \A x \in 1..Len(data) : data[x] = Bytes(parts)[x]

LEMMA StreamOKInit == ASSUME StreamInit PROVE StreamOK
<1>1. parts \in Seq(Parts) /\ parts # <<>>
  BY DEF StreamInit, BoundedSeq, SeqOf
<1>2. Bytes(parts) \in Seq(STRING)
  <2>1. Len(parts) \in 0..Len(parts)
    BY <1>1
  <2> QED
    BY <1>1, <2>1, WrittenIs DEF Bytes
<1> DEFINE all == Bytes(parts)
<1>3. PICK n \in Nat : data = SubSeq(all, 1, Len(all) - n)
  BY MissingAssumption DEF StreamInit
<1> HIDE DEF all
<1>4. all \in Seq(STRING)
  BY <1>2 DEF all
<1>5. CASE Len(all) - n >= 1
  <2>1. Len(data) = Len(all) - n /\ \A x \in 1..Len(data) : data[x] = all[x]
    BY <1>3, <1>4, <1>5
  <2>2. data \in Seq(STRING)
    BY <1>3, <1>4, <1>5
  <2>3. Len(data) <= Len(all)
    BY <1>4, <2>1
  <2> QED
    BY <1>1, <2>1, <2>2, <2>3 DEF StreamOK, all
<1>6. CASE Len(all) - n < 1
  <2>1. data = <<>>
    BY <1>3, <1>4, <1>6
  <2> QED
    BY <1>1, <1>4, <2>1 DEF StreamOK, all
<1> QED
  BY <1>4, <1>5, <1>6

\* Where part k ends, from 0 on, and where one that contains an offset does.
End(k) == Len(Written(parts)[k])

\* The places of the parts, in numbers.
Placed(k) ==
    /\ Len(parts[k].header) \in Nat
    /\ Len(parts[k].picture) \in Nat /\ Len(parts[k].picture) >= 4
    /\ PictureAt(k) = End(k - 1) + Len(parts[k].header)
    /\ PictureEnd(k) = PictureAt(k) + Len(parts[k].picture)
    /\ PictureEnd(k) = End(k)
    /\ End(k - 1) \in Nat /\ PictureAt(k) \in Nat /\ PictureEnd(k) \in Nat

Laid ==
    /\ Len(parts) \in Nat \ {0}
    /\ Len(data) \in Nat /\ Len(data) <= End(Len(parts))
    /\ End(0) = 0
    /\ \A k \in 0..Len(parts) : End(k) \in Nat
    /\ \A k \in 1..Len(parts) : Placed(k)

LEMMA LaidOut == ASSUME StreamOK PROVE Laid
<1> DEFINE N == Len(parts)
<1>1. N \in Nat \ {0} /\ parts \in Seq(Parts) /\ Len(data) \in Nat
  BY DEF StreamOK
<1>2. Len(data) <= End(N)
  BY DEF StreamOK, End, Bytes
<1>3. \A k \in 0..N : Written(parts)[k] \in Seq(STRING)
  BY <1>1, WrittenIs
<1>4. \A k \in 0..N : End(k) \in Nat
  BY <1>3 DEF End
<1>5. End(0) = 0
  <2>1. Written(parts)[0] = <<>>
    BY <1>1, WrittenIs
  <2> QED
    BY <2>1 DEF End
<1>6. ASSUME NEW k \in 1..N
      PROVE  Placed(k)
  <2> DEFINE h == parts[k].header
             p == parts[k].picture
             w == Written(parts)[k - 1]
  <2>1. h \in Seq(STRING) /\ p \in Seq(STRING) /\ Len(p) >= 4
    BY <1>1, PartIs DEF IsPart
  <2>2. k - 1 \in 0..N
    BY <1>1
  <2>3. w \in Seq(STRING)
    BY <1>3, <2>2
  <2>4. Written(parts)[k] = w \o h \o p
    BY <1>1, WrittenIs
  <2>5. PictureAt(k) = Len(w) + Len(h) /\ End(k - 1) = Len(w)
    BY DEF PictureAt, End
  <2>6. PictureEnd(k) = PictureAt(k) + Len(p)
    BY DEF PictureEnd
  <2> HIDE DEF w, h, p
  <2>7. Len(w \o h \o p) = Len(w) + Len(h) + Len(p)
    BY <2>1, <2>3
  <2>8. End(k) = Len(w) + Len(h) + Len(p)
    BY <2>4, <2>7 DEF End
  <2>9. Len(h) \in Nat /\ Len(p) \in Nat /\ Len(w) \in Nat
    BY <2>1, <2>3
  <2>10. Len(h) \in Nat /\ Len(p) \in Nat /\ Len(p) >= 4
    BY <2>1, <2>9
  <2>11. /\ PictureAt(k) = End(k - 1) + Len(h)
         /\ PictureEnd(k) = End(k)
         /\ End(k - 1) \in Nat /\ PictureAt(k) \in Nat /\ PictureEnd(k) \in Nat
    BY <2>5, <2>6, <2>8, <2>9
  <2> QED
    BY <1>1, <2>6, <2>10, <2>11 DEF h, p, Placed
<1> QED
  BY <1>1, <1>2, <1>4, <1>5, <1>6 DEF Laid

LEMMA PartGrows ==
  ASSUME NEW k \in Nat, Placed(k)
  PROVE  /\ End(k - 1) \in Nat /\ PictureAt(k) \in Nat /\ End(k) \in Nat
         /\ End(k - 1) <= PictureAt(k) /\ PictureAt(k) < End(k) /\ End(k - 1) <= End(k)
<1> DEFINE h == Len(parts[k].header)
           p == Len(parts[k].picture)
           a == PictureAt(k)
           b == End(k - 1)
           c == End(k)
<1>1. h \in Nat /\ p \in Nat /\ p >= 4 /\ a = b + h /\ c = a + p /\ b \in Nat
  BY DEF Placed
<1> SUFFICES b \in Nat /\ a \in Nat /\ c \in Nat /\ b <= a /\ a < c /\ b <= c
  OBVIOUS
<1> HIDE DEF h, p, a, b, c
<1> QED
  BY <1>1

LEMMA EndsGrow ==
  ASSUME Laid, NEW j \in 0..Len(parts), NEW k \in 0..Len(parts), j <= k
  PROVE  End(j) <= End(k)
<1> DEFINE N == Len(parts)
           Later == {i \in 0..N : j <= i => End(j) <= End(i)}
<1>1. N \in Nat
  BY DEF Laid
<1>2. 0 \in Later
  <2>1. j <= 0 => j = 0
    OBVIOUS
  <2> QED
    BY <1>1, <2>1 DEF Laid
<1>3. ASSUME NEW i \in 0..N, i \in Later, i < N PROVE i + 1 \in Later
  <2>1. i + 1 \in 1..N /\ i + 1 - 1 = i
    BY <1>1, <1>3
  <2>2. End(i) <= End(i + 1) /\ End(i) \in Nat /\ End(i + 1) \in Nat
    <3>1. PICK m \in 1..N : m = i + 1 /\ i = m - 1
      BY <2>1
    <3>2. Placed(m) /\ m \in Nat
      BY <1>1 DEF Laid
    <3>3. End(m - 1) <= End(m) /\ End(m - 1) \in Nat /\ End(m) \in Nat
      BY <3>2, PartGrows
    <3> QED
      BY <3>1, <3>3, Zenon
  <2>3. End(j) \in Nat
    BY DEF Laid
  <2>4. CASE j <= i
    BY <1>3, <2>1, <2>2, <2>3, <2>4
  <2>5. CASE j = i + 1
    BY <2>1, <2>3, <2>5
  <2> QED
    BY <2>1, <2>4, <2>5
<1>4. \A i \in 0..N : i \in Later
  <2> HIDE DEF Later
  <2> QED
    BY <1>1, <1>2, <1>3, CountUp
<1> QED
  BY <1>4

\* Every byte is in a part.
LEMMA InAPart ==
  ASSUME Laid, NEW x \in 1..End(Len(parts))
  PROVE  \E k \in 1..Len(parts) : End(k - 1) < x /\ x <= End(k)
<1> DEFINE N == Len(parts)
           Ends == {k \in 0..N : x <= End(k)}
<1>1. N \in Nat /\ End(N) \in Nat /\ N \in 0..N
  BY DEF Laid
<1>2. PICK k \in Ends : \A i \in Ends : k <= i
  <2>1. Ends \subseteq Nat
    OBVIOUS
  <2>2. N \in Ends
    BY <1>1
  <2> HIDE DEF Ends
  <2> QED
    BY <2>1, <2>2, LeastNatural
<1>3. k # 0
  BY <1>2 DEF Laid
<1>4. k \in 1..N /\ k - 1 \in 0..N /\ k - 1 \notin Ends
  BY <1>1, <1>2, <1>3
<1>5. End(k - 1) \in Nat
  BY <1>4 DEF Laid
<1> QED
  BY <1>2, <1>4, <1>5

\* The bytes of a part.
LEMMA BytesOf ==
  ASSUME StreamOK, Laid, NEW k \in 1..Len(parts)
  PROVE  /\ \A i \in 1..Len(parts[k].header) :
              End(k - 1) + i <= Len(data) => data[End(k - 1) + i] = parts[k].header[i]
         /\ \A i \in 1..Len(parts[k].picture) :
              PictureAt(k) + i <= Len(data) => data[PictureAt(k) + i] = parts[k].picture[i]
<1> DEFINE N == Len(parts)
           all == Bytes(parts)
           h == parts[k].header
           p == parts[k].picture
           Keeps == {m \in 0..N : k <= m =>
                       /\ \A i \in 1..Len(h) : Written(parts)[m][End(k - 1) + i] = h[i]
                       /\ \A i \in 1..Len(p) : Written(parts)[m][PictureAt(k) + i] = p[i]}
<1>1. N \in Nat /\ parts \in Seq(Parts) /\ k - 1 \in 0..N
  BY DEF StreamOK
<1>2. h \in Seq(STRING) /\ p \in Seq(STRING) /\ End(k - 1) \in Nat
  BY <1>1, PartIs DEF IsPart, Laid
<1>3. \A m \in 0..N : Written(parts)[m] \in Seq(STRING)
  BY <1>1, WrittenIs
<1>4. /\ PictureAt(k) = End(k - 1) + Len(h)
      /\ End(k) = PictureAt(k) + Len(p)
  BY DEF Laid, Placed
<1>5. 0 \in Keeps
  BY <1>1
<1>6. ASSUME NEW m \in 0..N, m \in Keeps, m < N PROVE m + 1 \in Keeps
  <2> DEFINE b == Written(parts)[m]
             hh == parts[m + 1].header
             pp == parts[m + 1].picture
             c == Written(parts)[m + 1]
  <2>1. m + 1 \in 1..N /\ m + 1 - 1 = m
    BY <1>1, <1>6
  <2>2. c = b \o hh \o pp
    <3>1. \A l \in 1..N : Written(parts)[l] = Written(parts)[l - 1] \o parts[l].header \o parts[l].picture
      BY <1>1, WrittenIs
    <3>2. PICK l \in 1..N : l = m + 1 /\ m = l - 1
      BY <2>1
    <3> QED
      BY <3>1, <3>2
  <2>3. b \in Seq(STRING) /\ hh \in Seq(STRING) /\ pp \in Seq(STRING)
    <3>1. IsPart(parts[m + 1])
      BY <1>1, <2>1, PartIs
    <3> QED
      BY <1>3, <3>1 DEF IsPart
  <2> HIDE DEF h, p
  <2>4. CASE k <= m
    <3>1. \A i \in 1..Len(b) : c[i] = b[i]
      <4> HIDE DEF b, hh, pp, c
      <4> QED
        BY <2>2, <2>3
    <3>2. End(k) <= End(m)
      BY <2>4, EndsGrow, k \in 0..Len(parts)
    <3>3. Len(b) = End(m) /\ End(m) \in Nat
      BY DEF End, Laid
    <3>4. /\ \A i \in 1..Len(h) : b[End(k - 1) + i] = h[i]
          /\ \A i \in 1..Len(p) : b[PictureAt(k) + i] = p[i]
      BY <1>6, <2>4
    <3>5. \A i \in 1..Len(h) : End(k - 1) + i \in 1..Len(b)
      <4> HIDE DEF b
      <4> QED
        BY <1>2, <1>4, <3>2, <3>3
    <3>6. \A i \in 1..Len(p) : PictureAt(k) + i \in 1..Len(b)
      <4> HIDE DEF b
      <4> QED
        BY <1>2, <1>4, <3>2, <3>3
    <3>7. /\ \A i \in 1..Len(h) : c[End(k - 1) + i] = h[i]
          /\ \A i \in 1..Len(p) : c[PictureAt(k) + i] = p[i]
      <4> HIDE DEF b, c
      <4> QED
        BY <3>1, <3>4, <3>5, <3>6
    <3> QED
      BY <2>1, <3>7
  <2>5. CASE k = m + 1
    <3>1. hh = h /\ pp = p /\ Len(b) = End(k - 1)
      BY <2>1, <2>5 DEF h, p, End
    <3>2. PictureAt(k) = Len(b) + Len(hh)
      BY <1>4, <3>1
    <3>3. \A i \in 1..Len(hh) : c[Len(b) + i] = hh[i]
      <4> HIDE DEF b, hh, pp, c
      <4> QED
        BY <2>2, <2>3
    <3>4. \A i \in 1..Len(pp) : c[Len(b) + Len(hh) + i] = pp[i]
      <4> HIDE DEF b, hh, pp, c
      <4> QED
        BY <2>2, <2>3
    <3> QED
      BY <2>1, <3>1, <3>2, <3>3, <3>4
  <2>6. CASE m + 1 < k
    BY <2>1, <2>6
  <2> QED
    BY <2>1, <2>4, <2>5, <2>6
<1>7. \A m \in 0..N : m \in Keeps
  <2> HIDE DEF Keeps
  <2> QED
    BY <1>1, <1>5, <1>6, CountUp
<1>8. /\ \A i \in 1..Len(h) : all[End(k - 1) + i] = h[i]
      /\ \A i \in 1..Len(p) : all[PictureAt(k) + i] = p[i]
  <2>1. N \in 0..N /\ k <= N
    BY <1>1
  <2> QED
    BY <1>7, <2>1 DEF Bytes
<1>9. \A x \in 1..Len(data) : data[x] = all[x]
  BY DEF StreamOK
<1> HIDE DEF h, p, all
<1>10. PictureAt(k) \in Nat /\ Len(data) \in Nat
  BY DEF Laid, Placed
<1>11. ASSUME NEW i \in 1..Len(h), End(k - 1) + i <= Len(data)
       PROVE  data[End(k - 1) + i] = h[i]
  <2>1. End(k - 1) + i \in 1..Len(data)
    BY <1>2, <1>10, <1>11
  <2> QED
    BY <1>8, <1>9, <2>1
<1>12. ASSUME NEW i \in 1..Len(p), PictureAt(k) + i <= Len(data)
       PROVE  data[PictureAt(k) + i] = p[i]
  <2>1. PictureAt(k) + i \in 1..Len(data)
    BY <1>2, <1>10, <1>12
  <2> QED
    BY <1>8, <1>9, <2>1
<1> QED
  BY <1>11, <1>12 DEF h, p

-----------------------------------------------------------------------------
(***************************************************************************)
(* The marks.                                                              *)
(***************************************************************************)

LEMMA PictureMarks ==
  ASSUME NEW p, IsPart(p)
  PROVE  /\ p.picture[1] = "FF" /\ p.picture[2] = "D8"
         /\ p.picture[Len(p.picture) - 1] = "FF" /\ p.picture[Len(p.picture)] = "D9"
<1> DEFINE q == p.picture
           n == Len(q)
<1>1. q \in Seq(STRING) /\ n \in Nat /\ n >= 4
  BY DEF IsPart
<1>2. SubSeq(q, 1, 2) = <<"FF", "D8">> /\ SubSeq(q, n - 1, n) = <<"FF", "D9">>
  BY DEF IsPart, SOI_MARKER, EOF_MARKER
<1> HIDE DEF q, n
<1>3. SubSeq(q, 1, 2)[1] = q[1] /\ SubSeq(q, 1, 2)[2] = q[2]
  BY <1>1 DEF n
<1>4. SubSeq(q, n - 1, n)[1] = q[n - 1] /\ SubSeq(q, n - 1, n)[2] = q[n]
  BY <1>1 DEF n
<1>5. \A s, b, c : s = <<b, c>> => s[1] = b /\ s[2] = c
  OBVIOUS
<1>6. /\ SubSeq(q, 1, 2)[1] = "FF" /\ SubSeq(q, 1, 2)[2] = "D8"
      /\ SubSeq(q, n - 1, n)[1] = "FF" /\ SubSeq(q, n - 1, n)[2] = "D9"
  BY <1>2, <1>5, Zenon
<1> QED
  BY <1>3, <1>4, <1>6, Zenon DEF q, n

\* In a clean picture the marks are at its ends only.
LEMMA CleanMarks ==
  ASSUME NEW k \in 1..Len(parts), IsPart(parts[k]), Clean(k),
         NEW i \in 1..(Len(parts[k].picture) - 1), parts[k].picture[i] = "FF"
  PROVE  /\ parts[k].picture[i + 1] = "D8" => i = 1
         /\ parts[k].picture[i + 1] = "D9" => i = Len(parts[k].picture) - 1
<1> DEFINE q == parts[k].picture
           n == Len(q)
<1>1. q \in Seq(STRING) /\ n \in Nat /\ n >= 4
  BY DEF IsPart
<1>2. SubSeq(q, i, i + 1) \in {SOI_MARKER, EOF_MARKER} => i \in {1, n - 1}
  BY DEF Clean
<1>3. q[1] = "FF" /\ q[2] = "D8" /\ q[n - 1] = "FF" /\ q[n] = "D9"
  BY PictureMarks
<1>4. i \in 1..(n - 1) /\ q[i] = "FF"
  OBVIOUS
<1> HIDE DEF q, n
<1>5. SubSeq(q, i, i + 1) = <<q[i], q[i + 1]>>
  <2> DEFINE s == SubSeq(q, i, i + 1)
             t == <<q[i], q[i + 1]>>
  <2>1. i \in Nat /\ i >= 1 /\ i + 1 <= n
    BY <1>1, <1>4
  <2>2. s \in Seq(STRING) /\ Len(s) = 2 /\ s[1] = q[i] /\ s[2] = q[i + 1]
    BY <1>1, <2>1 DEF n
  <2>3. q[i] \in STRING /\ q[i + 1] \in STRING
    BY <1>1, <2>1 DEF n
  <2>4. t \in Seq(STRING) /\ Len(t) = 2 /\ t[1] = q[i] /\ t[2] = q[i + 1]
    BY <2>3
  <2> HIDE DEF s, t
  <2>5. \A m \in 1..Len(s) : s[m] = t[m]
    BY <2>2, <2>4
  <2>6. s = t
    BY <2>2, <2>4, <2>5, SeqEqual
  <2> QED
    BY <2>6 DEF s, t
<1>6. q[i + 1] \in {"D8", "D9"} => i \in {1, n - 1}
  BY <1>2, <1>4, <1>5 DEF SOI_MARKER, EOF_MARKER
<1>7. q[i + 1] = "D8" => i = 1
  <2>1. ASSUME i = n - 1 PROVE q[i + 1] = "D9"
    <3>1. i + 1 = n
      BY <1>1, <2>1
    <3> QED
      BY <1>3, <3>1
  <2>2. "D8" # "D9"
    OBVIOUS
  <2> QED
    BY <1>6, <2>1, <2>2
<1>8. q[i + 1] = "D9" => i = n - 1
  <2>1. ASSUME i = 1 PROVE q[i + 1] = "D8"
    <3>1. i + 1 = 2
      BY <2>1
    <3> QED
      BY <1>3, <3>1
  <2>2. "D8" # "D9"
    OBVIOUS
  <2> QED
    BY <1>6, <2>1, <2>2
<1> QED
  BY <1>7, <1>8 DEF q, n

\* The byte at an offset within a part.
LEMMA ByteAt ==
  ASSUME StreamOK, Laid, NEW k \in 1..Len(parts), NEW x \in Nat, x <= Len(data)
  PROVE  /\ End(k - 1) < x /\ x <= PictureAt(k) =>
              /\ x - End(k - 1) \in 1..Len(parts[k].header)
              /\ data[x] = parts[k].header[x - End(k - 1)]
         /\ PictureAt(k) < x /\ x <= End(k) =>
              /\ x - PictureAt(k) \in 1..Len(parts[k].picture)
              /\ data[x] = parts[k].picture[x - PictureAt(k)]
<1>1. Placed(k) /\ k \in Nat
  BY DEF Laid
<1>2. /\ Len(parts[k].header) \in Nat /\ Len(parts[k].picture) \in Nat
      /\ End(k - 1) \in Nat /\ PictureAt(k) \in Nat /\ End(k) \in Nat
      /\ PictureAt(k) = End(k - 1) + Len(parts[k].header)
      /\ End(k) = PictureAt(k) + Len(parts[k].picture)
  BY <1>1 DEF Placed
<1>3. ASSUME End(k - 1) < x, x <= PictureAt(k)
      PROVE  /\ x - End(k - 1) \in 1..Len(parts[k].header)
             /\ data[x] = parts[k].header[x - End(k - 1)]
  <2>1. x - End(k - 1) \in 1..Len(parts[k].header) /\ End(k - 1) + (x - End(k - 1)) = x
    <3> DEFINE b == End(k - 1)
               h == Len(parts[k].header)
    <3>1. b \in Nat /\ h \in Nat /\ x \in Nat /\ b < x /\ x <= b + h
      BY <1>2, <1>3
    <3> HIDE DEF b, h
    <3>2. x - b \in 1..h /\ b + (x - b) = x
      BY <3>1
    <3> QED
      BY <3>2 DEF b, h
  <2> QED
    BY <2>1, BytesOf
<1>4. ASSUME PictureAt(k) < x, x <= End(k)
      PROVE  /\ x - PictureAt(k) \in 1..Len(parts[k].picture)
             /\ data[x] = parts[k].picture[x - PictureAt(k)]
  <2>0. End(k) = PictureAt(k) + Len(parts[k].picture) /\ PictureAt(k) \in Nat /\ Len(parts[k].picture) \in Nat
    BY <1>2
  <2>1. x - PictureAt(k) \in 1..Len(parts[k].picture) /\ PictureAt(k) + (x - PictureAt(k)) = x
    BY <2>0, <1>4
  <2> QED
    BY <2>1, BytesOf
<1> QED
  BY <1>3, <1>4

\* An FF is in a picture, and not its last byte.
LEMMA FFInPicture ==
  ASSUME StreamOK, Laid, NEW x \in Nat \ {0}, x <= Len(data), data[x] = "FF"
  PROVE  \E k \in 1..Len(parts) : /\ PictureAt(k) < x /\ x < End(k)
                                  /\ parts[k].picture[x - PictureAt(k)] = "FF"
<1>1. x \in 1..End(Len(parts)) /\ Len(parts) \in Nat
  BY DEF Laid
<1>2. PICK k \in 1..Len(parts) : End(k - 1) < x /\ x <= End(k)
  BY <1>1, InAPart
<1>3. IsPart(parts[k])
  BY PartIs DEF StreamOK
<1>4. Placed(k) /\ k \in Nat
  BY <1>1 DEF Laid
<1>5. ~ (x <= PictureAt(k))
  <2>1. SUFFICES ASSUME x <= PictureAt(k) PROVE FALSE
    OBVIOUS
  <2> DEFINE i == x - End(k - 1)
             h == parts[k].header
  <2>2. i \in 1..Len(h) /\ h[i] = "FF"
    BY <1>2, <2>1, ByteAt
  <2>3. h \in Seq(STRING) /\ "FF" \notin ToSet(h)
    BY <1>3 DEF IsPart
  <2> HIDE DEF i, h
  <2> QED
    BY <2>2, <2>3 DEF ToSet
<1>6. PictureAt(k) < x
  BY <1>4, <1>5 DEF Placed
<1> DEFINE i == x - PictureAt(k)
           q == parts[k].picture
<1>7. i \in 1..Len(q) /\ q[i] = "FF"
  BY <1>2, <1>6, ByteAt
<1>8. i # Len(q)
  <2>1. q[Len(q)] = "D9"
    BY <1>3, PictureMarks
  <2> HIDE DEF i, q
  <2> QED
    BY <1>7, <2>1
<1>9. x # End(k)
  BY <1>4, <1>8 DEF Placed
<1>10. x < End(k)
  BY <1>2, <1>4, <1>9 DEF Placed
<1> QED
  BY <1>6, <1>7, <1>10

AllClean == \A k \in 1..Len(parts) : Clean(k)

\* A mark is one of a picture's.
LEMMA MarkIn ==
  ASSUME StreamOK, Laid, AllClean, NEW e \in Nat, e >= 2, e <= Len(data), NEW B \in {"D8", "D9"},
         MarkEnds(e, "FF", B)
  PROVE  \E k \in 1..Len(parts) : e = IF B = "D8" THEN PictureAt(k) + 2 ELSE End(k)
<1>1. e - 1 \in Nat \ {0} /\ e - 1 <= Len(data) /\ Len(data) \in Nat /\ Len(parts) \in Nat
  BY DEF Laid
<1>2. data[e - 1] = "FF" /\ data[e] = B
  BY DEF MarkEnds
<1>3. PICK k \in 1..Len(parts) : /\ PictureAt(k) < e - 1 /\ e - 1 < End(k)
                                 /\ parts[k].picture[e - 1 - PictureAt(k)] = "FF"
  BY <1>1, <1>2, FFInPicture
<1>4. Placed(k) /\ IsPart(parts[k]) /\ Clean(k) /\ k \in Nat
  BY <1>1, PartIs DEF Laid, StreamOK, AllClean
<1> DEFINE i == e - 1 - PictureAt(k)
           q == parts[k].picture
<1>5. /\ i \in 1..(Len(q) - 1) /\ e = PictureAt(k) + i + 1 /\ e - PictureAt(k) = i + 1
      /\ PictureAt(k) < e /\ e <= End(k) /\ End(k) = PictureAt(k) + Len(q)
      /\ Len(q) \in Nat /\ PictureAt(k) \in Nat
  <2>1. /\ Len(q) \in Nat /\ PictureAt(k) \in Nat /\ End(k) = PictureAt(k) + Len(q)
    BY <1>4 DEF Placed
  <2>2. PictureAt(k) < e - 1 /\ e - 1 < End(k)
    BY <1>3
  <2> HIDE DEF q
  <2> QED
    BY <2>1, <2>2
<1>6. q[i + 1] = B
  <2>1. data[e] = q[e - PictureAt(k)]
    BY <1>5, ByteAt
  <2> QED
    BY <1>2, <1>5, <2>1
<1>7. q[i] = "FF"
  BY <1>3
<1>8. /\ q[i + 1] = "D8" => i = 1
      /\ q[i + 1] = "D9" => i = Len(q) - 1
  <2> HIDE DEF i
  <2> QED
    BY <1>4, <1>5, <1>7, CleanMarks
<1> HIDE DEF i, q
<1>9. e = IF B = "D8" THEN PictureAt(k) + 2 ELSE End(k)
  BY <1>5, <1>6, <1>8
<1> QED
  BY <1>9

-----------------------------------------------------------------------------
(***************************************************************************)
(* What readMjpegFrame's searches return.                                  *)
(***************************************************************************)

LEMMA MinOfTwo ==
  ASSUME NEW a \in Int, NEW b \in Int
  PROVE  Min({a, b}) = IF a <= b THEN a ELSE b
<1>1. \E x \in {a, b} : \A y \in {a, b} : x <= y
  OBVIOUS
<1>2. Min({a, b}) \in {a, b} /\ \A y \in {a, b} : Min({a, b}) <= y
  BY <1>1 DEF Min
<1> QED
  BY <1>2

LEMMA MaxOfTwo ==
  ASSUME NEW a \in Int, NEW b \in Int
  PROVE  Max({a, b}) = IF a >= b THEN a ELSE b
<1>1. \E x \in {a, b} : \A y \in {a, b} : x >= y
  OBVIOUS
<1>2. Max({a, b}) \in {a, b} /\ \A y \in {a, b} : Max({a, b}) >= y
  BY <1>1 DEF Max
<1> QED
  BY <1>2

\* The first picture that begins at an offset or after it: its mark is the end
\* of a search.
StartSays(hl, from) ==
  /\ hl \in Int
  /\ hl = -1 => from + FRAME_MAX_LENGTH <= Len(data)
  /\ hl >= 0 => /\ from + hl + 2 <= Len(data)
                /\ hl + 2 <= FRAME_MAX_LENGTH
                /\ MarkEnds(from + hl + 2, "FF", "D8")
  /\ hl < 0 => hl = -1 \/ hl = Eof

LEMMA StartSearch ==
  ASSUME Len(data) \in Nat, NEW from \in Nat, from <= Len(data)
  PROVE  StartSays(StartOfSequence(from, SOI_MARKER), from)
<1> DEFINE s == Search(from, FRAME_MAX_LENGTH, <<"FF", "D8">>)
           hl == StartOfSequence(from, SOI_MARKER)
<1> SUFFICES StartSays(hl, from)
  OBVIOUS
<1>1. FRAME_MAX_LENGTH \in Nat
  BY FrameMaxAssumption
<1>2. SaysOf(s, from, FRAME_MAX_LENGTH, "FF", "D8")
  BY <1>1, SearchSound
<1>3. hl = IF s < 0 THEN s ELSE s - 2
  BY DEF StartOfSequence, EndOfSequence, SOI_MARKER
<1> HIDE DEF s, hl
<1>4. CASE s \in 2..FRAME_MAX_LENGTH /\ from + s <= Len(data) /\ MarkEnds(from + s, "FF", "D8")
  <2>1. hl \in Nat /\ hl = s - 2 /\ from + hl + 2 = from + s
    BY <1>1, <1>3, <1>4
  <2> QED
    BY <1>1, <1>4, <2>1 DEF StartSays
<1>5. CASE s = -1 /\ from + FRAME_MAX_LENGTH <= Len(data)
  BY <1>3, <1>5 DEF StartSays
<1>6. CASE s = Eof
  BY <1>3, <1>6 DEF StartSays, Eof
<1> QED
  BY <1>2, <1>4, <1>5, <1>6 DEF SaysOf

\* The byte before a picture is no FF.
LEMMA BeforePicture ==
  ASSUME StreamOK, Laid, NEW k \in 1..Len(parts), PictureAt(k) >= 1, PictureAt(k) <= Len(data)
  PROVE  data[PictureAt(k)] # "FF"
<1> DEFINE x == PictureAt(k)
<1>1. Placed(k) /\ k \in Nat /\ Len(data) \in Nat /\ Len(parts) \in Nat
  BY DEF Laid
<1>2. x \in Nat \ {0} /\ x <= Len(data)
  BY <1>1 DEF Placed
<1> SUFFICES ASSUME data[x] = "FF" PROVE FALSE
  OBVIOUS
<1>3. PICK j \in 1..Len(parts) : PictureAt(j) < x /\ x < End(j)
  <2> HIDE DEF x
  <2> QED
    BY <1>2, FFInPicture
<1>4. Placed(j) /\ j \in Nat
  BY <1>1 DEF Laid
<1>5. CASE j <= k - 1
  <2>1. k - 1 \in 0..Len(parts) /\ j \in 0..Len(parts)
    BY <1>1, <1>4
  <2>2. End(j) <= End(k - 1)
    BY <1>5, <2>1, EndsGrow
  <2>3. End(k - 1) <= x /\ End(k - 1) \in Nat /\ End(j) \in Nat
    BY <1>1, <1>4, PartGrows
  <2> HIDE DEF x
  <2> QED
    BY <1>1, <1>2, <1>3, <1>4, <2>2, <2>3
<1>6. CASE j >= k
  <2>1. PictureAt(k) <= PictureAt(j)
    <3>1. CASE j = k
      BY <1>1, <3>1 DEF Placed
    <3>2. CASE k <= j - 1
      <4>1. j - 1 \in 0..Len(parts) /\ k \in 0..Len(parts)
        BY <1>1, <1>4
      <4>2. End(k) <= End(j - 1)
        BY <3>2, <4>1, EndsGrow
      <4>3. End(j - 1) <= PictureAt(j) /\ PictureAt(k) <= End(k)
            /\ End(k) \in Nat /\ PictureAt(k) \in Nat /\ PictureAt(j) \in Nat /\ End(j - 1) \in Nat
        BY <1>1, <1>4, PartGrows
      <4> QED
        BY <1>1, <1>4, <4>2, <4>3
    <3> QED
      BY <1>1, <1>4, <1>6, <3>1, <3>2
  <2> QED
    BY <1>2, <1>3, <1>4, <2>1 DEF Placed
<1> QED
  BY <1>1, <1>4, <1>5, <1>6

\* The search for a first mark finds a picture it can reach, or one before.
LEMMA StartReaches ==
  ASSUME StreamOK, Laid, NEW from \in Nat, NEW k \in 1..Len(parts),
         from <= PictureAt(k), PictureAt(k) + 2 <= Len(data),
         PictureAt(k) + 2 - from <= FRAME_MAX_LENGTH
  PROVE  StartOfSequence(from, SOI_MARKER) \in 0..(PictureAt(k) - from)
<1> DEFINE x == PictureAt(k)
           t == x + 2 - from
           s == Search(from, FRAME_MAX_LENGTH, <<"FF", "D8">>)
           hl == StartOfSequence(from, SOI_MARKER)
<1>1. Placed(k) /\ k \in Nat /\ Len(data) \in Nat /\ FRAME_MAX_LENGTH \in Nat /\ IsPart(parts[k])
  BY FrameMaxAssumption, PartIs DEF Laid, StreamOK
<1>2. x \in Nat /\ Len(parts[k].picture) \in Nat /\ Len(parts[k].picture) >= 4
      /\ End(k) = x + Len(parts[k].picture)
  BY <1>1 DEF Placed
<1>3. t \in 2..FRAME_MAX_LENGTH /\ from + t <= Len(data) /\ from + t = x + 2 /\ from <= Len(data)
  <2> DEFINE n == Len(data)
             F == FRAME_MAX_LENGTH
  <2>1. /\ x \in Nat /\ n \in Nat /\ F \in Nat /\ from \in Nat /\ from <= x /\ x + 2 <= n
        /\ x + 2 - from <= F
    BY <1>1, <1>2
  <2> HIDE DEF x, n, F
  <2>2. t \in 2..F /\ from + t <= n /\ from + t = x + 2 /\ from <= n
    BY <2>1
  <2> QED
    BY <2>2 DEF n, F
<1>4. data[x + 1] = "FF" /\ data[x + 2] = "D8"
  <2>1. parts[k].picture[1] = "FF" /\ parts[k].picture[2] = "D8"
    BY <1>1, PictureMarks
  <2>2. 1 \in 1..Len(parts[k].picture) /\ 2 \in 1..Len(parts[k].picture)
        /\ x + 1 <= Len(data) /\ x + 2 <= Len(data)
    <3> DEFINE p == Len(parts[k].picture)
               n == Len(data)
    <3>1. x \in Nat /\ n \in Nat /\ p \in Nat /\ p >= 4 /\ x + 2 <= n
      BY <1>1, <1>2
    <3> HIDE DEF x, n, p
    <3>2. 1 \in 1..p /\ 2 \in 1..p /\ x + 1 <= n /\ x + 2 <= n
      BY <3>1
    <3> QED
      BY <3>2 DEF n, p
  <2> QED
    BY <2>1, <2>2, BytesOf
<1>5. x >= 1 => data[x] # "FF"
  BY <1>1, <1>2, BeforePicture
<1> HIDE DEF t
<1>6. MarkEnds(from + t, "FF", "D8")
  <2>1. from + t - 1 = x + 1
    BY <1>2, <1>3
  <2> QED
    BY <1>3, <1>4, <2>1 DEF MarkEnds
<1>7. ~ Repeated(from + t, from, "FF")
  <2>1. from + t - 2 = x /\ (from + t - from > 2 => x >= 1)
    <3>1. x \in Nat /\ from \in Nat /\ t \in Nat /\ from + t = x + 2
      BY <1>2, <1>3
    <3> HIDE DEF x
    <3> QED
      BY <3>1
  <2>2. SUFFICES ASSUME Repeated(from + t, from, "FF") PROVE FALSE
    OBVIOUS
  <2>3. from + t - from > 2 /\ data[from + t - 2] = "FF"
    BY <1>1, <1>3, <2>2 DEF Repeated
  <2>4. x >= 1 /\ data[x] = "FF"
    BY <2>1, <2>3
  <2> HIDE DEF x
  <2> QED
    BY <1>5, <2>4
<1>8. s \in 2..t
  BY <1>1, <1>3, <1>6, <1>7, SearchComplete
<1>9. hl = IF s < 0 THEN s ELSE s - 2
  BY DEF StartOfSequence, EndOfSequence, SOI_MARKER
<1> HIDE DEF s, hl
<1>10. hl \in 0..(x - from)
  BY <1>2, <1>8, <1>9 DEF t
<1> QED
  BY <1>10 DEF hl

\* The picture whose first mark a search from an offset finds.
FirstFrom(m, from, hl) ==
  /\ hl \in Nat /\ from + hl = PictureAt(m)
  /\ PictureAt(m) + 2 <= Len(data)
  /\ hl + 2 <= FRAME_MAX_LENGTH
  /\ \A k \in 1..Len(parts) : from <= PictureAt(k) => PictureAt(m) <= PictureAt(k)

LEMMA StartFound ==
  ASSUME StreamOK, Laid, AllClean, NEW from \in Nat, from <= Len(data),
         StartOfSequence(from, SOI_MARKER) >= 0
  PROVE  \E m \in 1..Len(parts) : FirstFrom(m, from, StartOfSequence(from, SOI_MARKER))
<1> DEFINE hl == StartOfSequence(from, SOI_MARKER)
<1>1. Len(data) \in Nat /\ FRAME_MAX_LENGTH \in Nat
  BY FrameMaxAssumption DEF Laid
<1>2. StartSays(hl, from)
  BY <1>1, StartSearch
<1>3. hl >= 0
  OBVIOUS
<1>4. \A k \in 1..Len(parts) :
         from <= PictureAt(k) /\ PictureAt(k) + 2 <= Len(data)
         /\ PictureAt(k) + 2 - from <= FRAME_MAX_LENGTH => hl \in 0..(PictureAt(k) - from)
  BY StartReaches
<1> HIDE DEF hl
<1>5. hl \in Nat /\ from + hl + 2 <= Len(data) /\ hl + 2 <= FRAME_MAX_LENGTH
      /\ MarkEnds(from + hl + 2, "FF", "D8")
  BY <1>2, <1>3 DEF StartSays
<1> DEFINE e == from + hl + 2
<1>6. e \in Nat /\ e >= 2 /\ e <= Len(data)
  BY <1>5
<1>7. PICK m \in 1..Len(parts) : e = PictureAt(m) + 2
  <2>1. \E k \in 1..Len(parts) : e = IF "D8" = "D8" THEN PictureAt(k) + 2 ELSE End(k)
    <3> HIDE DEF e
    <3> QED
      BY <1>5, <1>6, MarkIn DEF e
  <2> QED
    BY <2>1
<1>8. PictureAt(m) \in Nat
  BY DEF Laid, Placed
<1>9. from + hl = PictureAt(m)
  BY <1>5, <1>7, <1>8
<1>10. ASSUME NEW k \in 1..Len(parts), from <= PictureAt(k)
       PROVE  PictureAt(m) <= PictureAt(k)
  <2>1. PictureAt(k) \in Nat
    BY DEF Laid, Placed
  <2>2. SUFFICES ASSUME PictureAt(k) < PictureAt(m) PROVE FALSE
    BY <1>8, <2>1
  <2>3. PictureAt(k) + 2 <= Len(data) /\ PictureAt(k) + 2 - from <= FRAME_MAX_LENGTH
    BY <1>1, <1>5, <1>8, <1>9, <2>1, <2>2
  <2>4. hl \in 0..(PictureAt(k) - from)
    BY <1>4, <1>10, <2>3
  <2> QED
    BY <1>8, <1>9, <2>1, <2>2, <2>4
<1>11. FirstFrom(m, from, hl)
  <2>1. PictureAt(m) + 2 <= Len(data)
    BY <1>1, <1>5, <1>8, <1>9
  <2> QED
    BY <1>5, <1>9, <1>10, <2>1 DEF FirstFrom
<1> QED
  BY <1>11 DEF hl

LEMMA HalfIs ==
  ASSUME NEW n \in Int
  PROVE  /\ Half(n) \in Int /\ Half(3 * n) \in Int
         /\ n >= -1 => Half(n) >= 0
         /\ n >= 0 => Half(n) = n \div 2
         /\ n >= 1 => Half(3 * n) - Half(n) >= 1
         /\ n >= 2 => Half(n) >= 1
         /\ n = 1 => Half(n) = 0 /\ Half(3 * n) = 1
         /\ n \in {-1, 0} => Half(n) = 0 /\ Half(3 * n) - Half(n) <= 0
<1>1. Half(n) \in Int /\ Half(3 * n) \in Int
  BY DEF Half
<1>2. n >= 0 => Half(n) = n \div 2
  BY DEF Half
<1>3. n >= -1 => Half(n) >= 0
  BY DEF Half
<1>4. n >= 1 => Half(3 * n) - Half(n) >= 1
  BY DEF Half
<1>5. n \in {-1, 0} => Half(n) = 0 /\ Half(3 * n) - Half(n) <= 0
  BY DEF Half
<1>6. n >= 2 => Half(n) >= 1
  BY DEF Half
<1>7. n = 1 => Half(n) = 0 /\ Half(3 * n) = 1
  BY DEF Half
<1> QED
  BY <1>1, <1>2, <1>3, <1>4, <1>5, <1>6, <1>7

\* Where the search near the last length ends, after a header of that length.
NearSays(near, hl) ==
  /\ near = -1 \/ near = Eof \/ near >= 2
  /\ near \in Int /\ SkipTo(hl) \in Nat /\ SkipTo(hl) <= Len(data) /\ SimplifiedSpan \in Nat
  /\ mContentLength >= 1 => SimplifiedSpan = Half(3 * mContentLength) - Half(mContentLength)
  /\ mContentLength < 1 => SimplifiedSpan = 0 /\ near = -1 /\ SkipTo(hl) <= pos + hl
  /\ near >= 2 => /\ mContentLength >= 2
                  /\ SkipTo(hl) = pos + hl + Half(mContentLength) - 1
                  /\ SkipTo(hl) + near <= Len(data)
                  /\ MarkEnds(SkipTo(hl) + near, "FF", "D9")
  /\ near = -1 => SkipTo(hl) + SimplifiedSpan <= Len(data)
  /\ near = -1 /\ mContentLength >= 2 =>
       SkipTo(hl) = pos + hl + Half(mContentLength) - 1

LEMMA NearSearch ==
  ASSUME Len(data) \in Nat, pos \in 0..Len(data), NEW hl \in Nat,
         mContentLength \in Int, mContentLength >= -1
  PROVE  NearSays(SimplifiedEnd(hl), hl)
<1> DEFINE L == mContentLength
           n == Len(data)
           skip == SkipTo(hl)
           span == SimplifiedSpan
           s == Search(skip, span, <<"FF", "D9">>)
           near == SimplifiedEnd(hl)
           half == Half(L)
           more == Half(3 * L)
           over == Max({0, HeaderLenField + half})
<1>1. /\ half \in Int /\ more \in Int /\ half >= 0
      /\ L >= 2 => half >= 1
      /\ L = 1 => half = 0 /\ more - half = 1
      /\ L >= 1 => more - half >= 1
      /\ L < 1 => half = 0 /\ more - half <= 0
  <2>1. L < 1 => L \in {-1, 0}
    OBVIOUS
  <2>2. L = 1 => half = 0 /\ more = 1
    BY HalfIs
  <2>3. L = 1 => more - half = 1
    <3> HIDE DEF half, more
    <3> QED
      BY <2>2
  <2>4. /\ half \in Int /\ more \in Int /\ half >= 0 /\ (L >= 2 => half >= 1)
        /\ L >= 1 => more - half >= 1
        /\ L \in {-1, 0} => half = 0 /\ more - half <= 0
    BY HalfIs
  <2> HIDE DEF half, more, L
  <2> QED
    BY <2>1, <2>2, <2>3, <2>4
<1>2. over = IF half >= 1 THEN half - 1 ELSE 0
  <2>1. -1 + half \in Int /\ 0 \in Int
    BY <1>1
  <2> DEFINE t == -1 + half
  <2>2. over = IF 0 >= t THEN 0 ELSE t
    <3>1. t \in Int /\ over = Max({0, t})
      BY <2>1 DEF HeaderLenField
    <3> HIDE DEF t, over
    <3> QED
      BY <3>1, MaxOfTwo
  <2> HIDE DEF over, half
  <2> QED
    BY <1>1, <2>2
<1>11. over \in Nat /\ (L >= 2 => over = half - 1)
  <2> HIDE DEF half, more, over
  <2> QED
    BY <1>1, <1>2
<1>12. skip = IF n <= pos + hl + over THEN n ELSE pos + hl + over
  <2>1. SkipTo(hl) = Min({n, pos + hl + over})
    BY DEF SkipTo
  <2>2. n \in Int /\ pos + hl + over \in Int
    <3> HIDE DEF over
    <3> QED
      BY <1>11
  <2> HIDE DEF over, n
  <2> QED
    BY <2>1, <2>2, MinOfTwo
<1>3. span = IF 0 >= more - half THEN 0 ELSE more - half
  <2>1. more - half \in Int /\ 0 \in Int
    BY <1>1
  <2> QED
    BY <2>1, MaxOfTwo DEF SimplifiedSpan
<1>4. near = IF span = 0 THEN -1 ELSE s
  BY DEF SimplifiedEnd, EOF_MARKER
<1>5. SUFFICES NearSays(near, hl)
  OBVIOUS
<1>6. span \in Nat /\ skip \in Nat /\ skip <= n
  <2> HIDE DEF half, more, span, skip, over, n
  <2> QED
    BY <1>1, <1>3, <1>11, <1>12 DEF n
<1>7. SaysOf(s, skip, span, "FF", "D9")
  <2> HIDE DEF span, skip
  <2> QED
    BY <1>6, SearchSound
<1>8. /\ L >= 1 => span = more - half /\ span >= 1
      /\ L = 1 => span = 1
      /\ L < 1 => span = 0 /\ skip <= pos + hl
  <2>1. L < 1 => half = 0
    BY <1>1
  <2> HIDE DEF half, more, span, skip, over
  <2> QED
    BY <1>1, <1>2, <1>3, <1>12, <2>1
<1> HIDE DEF s, near, half, more, span, skip, over
<1>9. CASE L < 1
  <2>1. near = -1 /\ span = 0 /\ skip <= pos + hl
    BY <1>4, <1>8, <1>9
  <2> QED
    BY <1>6, <1>9, <2>1 DEF NearSays, skip, span
<1>10. CASE L >= 1
  <2>1. near = s /\ span = more - half /\ span >= 1
    BY <1>4, <1>6, <1>8, <1>10
  <2>2. CASE s = -1 /\ skip + span <= n
    <3>1. L >= 2 => skip = pos + hl + half - 1
      BY <1>1, <1>6, <1>11, <1>12, <2>1, <2>2
    <3> QED
      BY <1>6, <1>10, <2>1, <2>2, <3>1 DEF NearSays, skip, span, half, more, Eof
  <2>3. CASE s = Eof
    BY <1>6, <1>10, <2>1, <2>3 DEF NearSays, skip, span, half, more, Eof
  <2>4. CASE s \in 2..span /\ skip + s <= n /\ MarkEnds(skip + s, "FF", "D9")
    <3>1. L >= 2
      BY <1>8, <1>10, <2>4
    <3>2. s \in Int /\ s >= 2
      BY <1>6, <2>4
    <3>3. skip = pos + hl + half - 1
      BY <1>1, <1>6, <1>11, <1>12, <2>4, <3>1, <3>2
    <3> QED
      BY <1>6, <1>10, <2>1, <2>4, <3>1, <3>2, <3>3 DEF NearSays, skip, span, half, more, Eof
  <2> QED
    BY <1>7, <2>2, <2>3, <2>4 DEF SaysOf
<1> QED
  BY <1>9, <1>10

\* The search from the mark on.
FarSays(far) ==
  /\ far = -1 \/ far = Eof \/ far >= 2
  /\ far \in Int
  /\ far >= 2 => /\ pos + far <= Len(data)
                 /\ MarkEnds(pos + far, "FF", "D9")

LEMMA FarSearch ==
  ASSUME Len(data) \in Nat, pos \in 0..Len(data)
  PROVE  FarSays(EndOfSequence(pos, EOF_MARKER))
<1> DEFINE s == Search(pos, FRAME_MAX_LENGTH, <<"FF", "D9">>)
<1>1. FRAME_MAX_LENGTH \in Nat
  BY FrameMaxAssumption
<1>2. SaysOf(s, pos, FRAME_MAX_LENGTH, "FF", "D9")
  BY <1>1, SearchSound
<1>3. EndOfSequence(pos, EOF_MARKER) = s
  BY DEF EndOfSequence, EOF_MARKER
<1> HIDE DEF s
<1>4. FarSays(s)
  BY <1>1, <1>2 DEF SaysOf, FarSays, Eof
<1> QED
  BY <1>3, <1>4

-----------------------------------------------------------------------------
(***************************************************************************)
(* How a call of readMjpegFrame ends.                                      *)
(***************************************************************************)

CallFails(how, where, length) ==
    /\ result' = how
    /\ pos' = where
    /\ mContentLength' = length
    /\ frames' = frames

CallGives(where, length) ==
    /\ result' = "frame"
    /\ frames' = Append(frames, [at |-> where, len |-> length])
    /\ pos' = where + length
    /\ mContentLength' = length

\* By the header's length, by the end near the last one, or by the end from the
\* mark on.
EndsTold(hl) ==
    \E length \in LengthsIn(hl) :
      \/ length < 0 /\ CallFails("throws", pos + hl, length)
      \/ pos + hl + length > Len(data) /\ CallFails("io", Len(data), length)
      \/ /\ length >= 0 /\ pos + hl + length <= Len(data)
         /\ CallGives(pos + hl, length)

EndsNear(hl, e) ==
    \/ MarkLost(e) /\ CallFails("io", e, e - pos - hl)
    \/ ~ MarkLost(e) /\ CallGives(pos + hl, e - pos - hl)

EndsFar(hl, far, e) ==
    \/ far = -1 /\ CallFails("throws", pos + hl, far)
    \/ /\ far >= 2 /\ ~ MarkLost(e)
       /\ \/ pos + hl + far > Len(data) /\ CallFails("io", Len(data), far)
          \/ pos + hl + far <= Len(data) /\ CallGives(pos + hl, far)
    \/ MarkLost(e) /\ CallFails("io", e, mContentLength)

EndsBy(hl, near, far) ==
    \/ hl = Eof /\ CallFails("end", pos, mContentLength)
    \/ hl = -1 /\ CallFails("throws", pos, mContentLength)
    \/ hl >= 0 /\ EndsTold(hl)
    \/ /\ hl >= 0 /\ LengthsIn(hl) = {}
       /\ \/ near >= 2 /\ EndsNear(hl, SkipTo(hl) + near)
          \/ near = -1 /\ EndsFar(hl, far, SkipTo(hl) + SimplifiedSpan)
          \/ /\ near = Eof \/ (near = -1 /\ far = Eof)
             /\ CallFails("io", Len(data), mContentLength)

\* A call that is made has a length to look around, if not the first's -1.
LengthOK ==
    /\ mContentLength \in Int
    /\ result \notin {"end", "throws"} => mContentLength >= -1

LEMMA CallEnds ==
  ASSUME Len(data) \in Nat, pos \in 0..Len(data), LengthOK, ReadFrame
  PROVE  EndsBy(StartOfSequence(pos, SOI_MARKER),
                SimplifiedEnd(StartOfSequence(pos, SOI_MARKER)),
                EndOfSequence(pos, EOF_MARKER))
<1> DEFINE hl == StartOfSequence(pos, SOI_MARKER)
           near == SimplifiedEnd(hl)
           far == EndOfSequence(pos, EOF_MARKER)
           L == mContentLength
           skip == SkipTo(hl)
           span == SimplifiedSpan
<1> SUFFICES EndsBy(hl, near, far)
  OBVIOUS
<1>1. L \in Int /\ L >= -1 /\ FRAME_MAX_LENGTH \in Nat \ {0}
  BY FrameMaxAssumption DEF ReadFrame, LengthOK
<1>2. StartSays(hl, pos)
  BY StartSearch
<1>3. FarSays(far)
  BY FarSearch
<1>4. hl >= 0 => hl \in Nat
  <2> HIDE DEF hl
  <2> QED
    BY <1>2 DEF StartSays
<1>5. hl >= 0 => NearSays(near, hl)
  <2> HIDE DEF hl
  <2> QED
    BY <1>1, <1>4, NearSearch
<1>6. \A b \in LengthsIn(hl) : b \in Int
  BY LengthAssumption DEF LengthsIn
<1>7. CASE NoHeader
  <2>1. hl = Eof /\ CallFails("end", pos, L)
    BY <1>7 DEF NoHeader, Fails, CallFails
  <2> HIDE DEF hl, near, far, L
  <2> QED
    BY <2>1 DEF EndsBy, L
<1>8. CASE LostHeader
  <2>1. hl = -1 /\ CallFails("throws", pos, L)
    BY <1>8 DEF LostHeader, Fails, CallFails
  <2> HIDE DEF hl, near, far, L
  <2> QED
    BY <2>1 DEF EndsBy, L
<1>9. CASE hl >= 0 /\ Locate(hl)
  <2>1. hl \in Nat /\ NearSays(near, hl) /\ pos \in Nat /\ hl + 2 <= FRAME_MAX_LENGTH
        /\ pos + hl + 2 <= Len(data)
    <3> HIDE DEF hl
    <3> QED
      BY <1>2, <1>4, <1>5, <1>9 DEF StartSays
  <2>2. ASSUME NEW length \in LengthsIn(hl), TakeFrame(hl, length, pos + hl)
        PROVE  EndsBy(hl, near, far)
    <3> HIDE DEF hl, near, far
    <3>1. length \in Int
      BY <1>6
    <3>2. ~ MarkLost(pos + hl)
      BY <1>1, <2>1 DEF MarkLost
    <3>3. CASE length < 0 /\ Fails("throws", pos + hl)
      <4>1. CallFails("throws", pos + hl, length)
        BY <2>2, <3>3 DEF TakeFrame, Fails, CallFails
      <4> QED
        BY <1>9, <3>3, <4>1 DEF EndsBy, EndsTold
    <3>4. CASE pos + hl + length > Len(data) /\ Fails("io", Len(data))
      <4>1. CallFails("io", Len(data), length)
        BY <2>2, <3>4 DEF TakeFrame, Fails, CallFails
      <4> QED
        BY <1>9, <3>4, <4>1 DEF EndsBy, EndsTold
    <3>5. CASE length >= 0 /\ pos + hl + length <= Len(data) /\ HandOn(hl, length)
      <4>1. CallGives(pos + hl, length)
        BY <2>2, <3>5 DEF TakeFrame, HandOn, CallGives
      <4> QED
        BY <1>9, <3>5, <4>1 DEF EndsBy, EndsTold
    <3> QED
      BY <2>2, <3>2, <3>3, <3>4, <3>5 DEF TakeFrame
  <2>3. ASSUME LengthsIn(hl) = {}, near >= 0, TakeFrame(hl, LengthFound(hl), skip + near)
        PROVE  EndsBy(hl, near, far)
    <3> DEFINE length == LengthFound(hl)
               e == skip + near
    <3> HIDE DEF hl
    <3>1. /\ near >= 2 /\ near \in Int /\ skip = pos + hl + Half(L) - 1
          /\ skip + near <= Len(data) /\ L >= 2
      <4> HIDE DEF near
      <4> QED
        BY <2>1, <2>3 DEF NearSays, Eof
    <3>2. Half(L) \in Int /\ Half(L) >= 1
      BY <1>1, <3>1, HalfIs
    <3>3. length = -1 + Half(L) + near
      BY DEF LengthFound, HeaderLenField
    <3>4. TakeFrame(hl, length, e)
      BY <2>3
    <3> HIDE DEF near, far, skip, length, L
    <3>5. length = e - pos - hl /\ length >= 0 /\ pos + hl + length = e /\ e <= Len(data) /\ length \in Int
      <4> DEFINE half == Half(L)
                 n == Len(data)
      <4>1. /\ pos \in Nat /\ hl \in Nat /\ near \in Int /\ near >= 2 /\ half \in Int /\ half >= 1
            /\ skip = pos + hl + half - 1 /\ length = -1 + half + near /\ skip + near <= n
        BY <2>1, <3>1, <3>2, <3>3
      <4> HIDE DEF half, n
      <4>2. length = skip + near - pos - hl /\ length >= 0 /\ length \in Int
        BY <4>1
      <4>3. pos + hl + length = skip + near
        BY <4>1, <4>2
      <4> QED
        BY <4>1, <4>2, <4>3 DEF n
    <3> HIDE DEF e
    <3>6. ~ (length < 0) /\ ~ (pos + hl + length > Len(data))
      BY <2>1, <3>5
    <3>7. \/ MarkLost(e) /\ Fails("io", e)
          \/ ~ MarkLost(e) /\ HandOn(hl, length)
      BY <3>4, <3>6 DEF TakeFrame
    <3>8. mContentLength' = length
      BY <3>4 DEF TakeFrame
    <3> SUFFICES EndsNear(hl, e)
      BY <1>9, <2>3, <3>1 DEF EndsBy, e, skip
    <3>9. CASE MarkLost(e) /\ Fails("io", e)
      <4>1. CallFails("io", e, e - pos - hl)
        BY <3>5, <3>8, <3>9 DEF Fails, CallFails
      <4> QED
        BY <3>9, <4>1 DEF EndsNear
    <3>10. CASE ~ MarkLost(e) /\ HandOn(hl, length)
      <4>1. CallGives(pos + hl, length)
        BY <3>8, <3>10 DEF HandOn, CallGives
      <4>2. CallGives(pos + hl, e - pos - hl)
        BY <3>5, <4>1
      <4> QED
        BY <3>10, <4>2 DEF EndsNear
    <3> QED
      BY <3>7, <3>9, <3>10
  <2>4. ASSUME LengthsIn(hl) = {}, near = -1, ~ MarkLost(skip + span), far # Eof, TakeFrame(hl, far, pos)
        PROVE  EndsBy(hl, near, far)
    <3> DEFINE e == skip + span
    <3> HIDE DEF hl, near, far, e
    <3> SUFFICES EndsFar(hl, far, e)
      BY <1>9, <2>4 DEF EndsBy, e
    <3>1. ~ MarkLost(pos)
      BY <1>1, <2>1 DEF MarkLost
    <3>2. far \in Int /\ (far = -1 \/ far >= 2)
      BY <1>3, <2>4 DEF FarSays
    <3>3. CASE far < 0 /\ Fails("throws", pos + hl)
      <4>1. CallFails("throws", pos + hl, far) /\ far = -1
        BY <2>4, <3>2, <3>3 DEF TakeFrame, Fails, CallFails
      <4> QED
        BY <4>1 DEF EndsFar
    <3>4. CASE far >= 2 /\ pos + hl + far > Len(data) /\ Fails("io", Len(data))
      <4>1. CallFails("io", Len(data), far)
        BY <2>4, <3>4 DEF TakeFrame, Fails, CallFails
      <4> QED
        BY <2>4, <3>4, <4>1 DEF EndsFar, e
    <3>5. CASE far >= 2 /\ pos + hl + far <= Len(data) /\ HandOn(hl, far)
      <4>1. CallGives(pos + hl, far)
        BY <2>4, <3>5 DEF TakeFrame, HandOn, CallGives
      <4> QED
        BY <2>4, <3>5, <4>1 DEF EndsFar, e
    <3>6. far = -1 => ~ (pos + hl + far > Len(data))
      BY <2>1
    <3>7. far = -1 => ~ (far >= 0)
      OBVIOUS
    <3> QED
      BY <2>4, <3>1, <3>2, <3>3, <3>4, <3>5, <3>6, <3>7 DEF TakeFrame
  <2>5. ASSUME LengthsIn(hl) = {}, near = -1, MarkLost(skip + span), Fails("io", skip + span),
               mContentLength' = mContentLength
        PROVE  EndsBy(hl, near, far)
    <3> DEFINE e == skip + span
    <3>1. CallFails("io", e, mContentLength)
      BY <2>5 DEF Fails, CallFails
    <3> HIDE DEF hl, near, far, e
    <3>2. EndsFar(hl, far, e)
      BY <2>5, <3>1 DEF EndsFar, e
    <3> QED
      BY <1>9, <2>5, <3>2 DEF EndsBy, e
  <2>6. ASSUME LengthsIn(hl) = {}, near = Eof \/ (near = -1 /\ far = Eof), Fails("io", Len(data)),
               mContentLength' = mContentLength
        PROVE  EndsBy(hl, near, far)
    <3>1. CallFails("io", Len(data), mContentLength)
      BY <2>6 DEF Fails, CallFails
    <3> HIDE DEF hl, near, far
    <3> QED
      BY <1>9, <2>6, <3>1 DEF EndsBy
  <2> HIDE DEF hl
  <2> QED
    BY <1>9, <2>2, <2>3, <2>4, <2>5, <2>6 DEF Locate
<1>10. NoHeader \/ LostHeader \/ (hl >= 0 /\ Locate(hl))
  BY DEF ReadFrame
<1> QED
  BY <1>7, <1>8, <1>9, <1>10

-----------------------------------------------------------------------------
(***************************************************************************)
(* Types.                                                                  *)
(***************************************************************************)

LEMMA StreamStays ==
  ASSUME StreamOK, UNCHANGED streamVars
  PROVE  StreamOK'
<1>1. parts' = parts /\ data' = data
  BY DEF streamVars
<1>2. Bytes(parts)' = Bytes(parts)
  BY <1>1 DEF Bytes, Written
<1> QED
  BY <1>1, <1>2 DEF StreamOK

InputInv == StreamOK /\ InputTypeOK /\ LengthOK

LEMMA InputInvInit ==
  ASSUME StreamInit, InputInit
  PROVE  InputInv
<1>1. StreamOK
  BY StreamOKInit
<1>2. Len(data) \in Nat
  BY <1>1 DEF StreamOK
<1> QED
  BY <1>1, <1>2 DEF InputInit, InputInv, InputTypeOK, LengthOK

\* The frames are offsets and lengths.
LEMMA FrameAdded ==
  ASSUME frames \in Seq([at : Nat, len : Nat]), NEW a \in Nat, NEW n \in Nat,
         frames' = Append(frames, [at |-> a, len |-> n])
  PROVE  frames' \in Seq([at : Nat, len : Nat])
<1>1. [at |-> a, len |-> n] \in [at : Nat, len : Nat]
  OBVIOUS
<1> QED
  BY <1>1

\* What is kept by each way a call ends: the place and the length.
LEMMA FailsKeeps ==
  ASSUME InputInv, UNCHANGED streamVars, NEW how \in {"end", "io", "throws"},
         NEW where \in 0..Len(data), NEW length \in Int,
         how = "io" => length >= -1,
         headerLenPrev' \in Int, CallFails(how, where, length)
  PROVE  InputInv'
<1>1. StreamOK'
  BY StreamStays DEF InputInv
<1>2. data' = data /\ Len(data) \in Nat
  BY DEF InputInv, StreamOK, streamVars
<1>3. /\ pos' \in 0..Len(data') /\ mContentLength' \in Int
      /\ result' \in {"none", "frame", "end", "io", "throws"}
  BY <1>2 DEF CallFails
<1>4. frames' \in Seq([at : Nat, len : Nat])
  BY DEF InputInv, InputTypeOK, CallFails
<1>5. result' \notin {"end", "throws"} => mContentLength' >= -1
  BY DEF CallFails
<1> QED
  BY <1>1, <1>3, <1>4, <1>5 DEF InputInv, InputTypeOK, LengthOK

LEMMA GivesKeeps ==
  ASSUME InputInv, UNCHANGED streamVars, NEW where \in Nat, NEW length \in Nat,
         where + length <= Len(data),
         headerLenPrev' \in Int, CallGives(where, length)
  PROVE  InputInv'
<1>1. StreamOK'
  BY StreamStays DEF InputInv
<1>2. data' = data /\ Len(data) \in Nat
  BY DEF InputInv, StreamOK, streamVars
<1>3. /\ pos' \in 0..Len(data') /\ mContentLength' \in Int
      /\ result' \in {"none", "frame", "end", "io", "throws"}
  BY <1>2 DEF CallGives
<1>4. frames' \in Seq([at : Nat, len : Nat])
  BY FrameAdded DEF InputInv, InputTypeOK, CallGives
<1>5. mContentLength' >= -1
  BY DEF CallGives
<1> QED
  BY <1>1, <1>3, <1>4, <1>5 DEF InputInv, InputTypeOK, LengthOK

LEMMA InputInvStep ==
  ASSUME InputInv, ReadFrame
  PROVE  InputInv'
<1> DEFINE hl == StartOfSequence(pos, SOI_MARKER)
           near == SimplifiedEnd(hl)
           far == EndOfSequence(pos, EOF_MARKER)
           n == Len(data)
<1>1. /\ n \in Nat /\ pos \in 0..n /\ LengthOK /\ StreamOK
      /\ UNCHANGED streamVars /\ result \notin {"end", "throws"}
      /\ headerLenPrev \in Int
  BY DEF InputInv, InputTypeOK, StreamOK, ReadFrame
<1>2. mContentLength \in Int /\ mContentLength >= -1
  BY <1>1 DEF LengthOK
<1>3. EndsBy(hl, near, far)
  BY <1>1, CallEnds
<1>4. StartSays(hl, pos) /\ FarSays(far)
  BY <1>1, StartSearch, FarSearch
<1>5. hl >= 0 => hl \in Nat /\ pos + hl + 2 <= n
  <2> HIDE DEF hl, n
  <2> QED
    BY <1>1, <1>4 DEF StartSays, n
<1>6. hl >= 0 => NearSays(near, hl)
  <2> HIDE DEF hl
  <2> QED
    BY <1>1, <1>2, <1>5, NearSearch
<1>7. headerLenPrev' \in Int
  <2>1. CASE NoHeader \/ LostHeader
    BY <1>1, <2>1 DEF NoHeader, LostHeader
  <2>2. CASE hl >= 0 /\ headerLenPrev' = hl
    <3> HIDE DEF hl
    <3> QED
      BY <1>5, <2>2
  <2> QED
    BY <2>1, <2>2 DEF ReadFrame
<1>8. \A b \in LengthsIn(hl) : b \in Int
  BY LengthAssumption DEF LengthsIn
<1> HIDE DEF hl, near, far, n
<1>9. CASE CallFails("end", pos, mContentLength) \/ CallFails("throws", pos, mContentLength)
  BY <1>1, <1>2, <1>7, <1>9, FailsKeeps DEF n
<1>10. CASE CallFails("io", Len(data), mContentLength)
  BY <1>1, <1>2, <1>7, <1>10, FailsKeeps DEF n
<1>11. ASSUME hl >= 0, NEW length \in LengthsIn(hl), length < 0, CallFails("throws", pos + hl, length)
       PROVE  InputInv'
  <2>1. pos + hl \in 0..Len(data) /\ length \in Int
    BY <1>1, <1>5, <1>8, <1>11 DEF n
  <2> QED
    BY <1>1, <1>7, <1>11, <2>1, FailsKeeps
<1>12. ASSUME hl >= 0, NEW length \in LengthsIn(hl), pos + hl + length > Len(data),
              CallFails("io", Len(data), length)
       PROVE  InputInv'
  <2>1. Len(data) \in 0..Len(data) /\ length \in Int /\ length >= -1
    BY <1>1, <1>5, <1>8, <1>12 DEF n
  <2> QED
    BY <1>1, <1>7, <1>12, <2>1, FailsKeeps
<1>13. ASSUME hl >= 0, NEW length \in Int, length >= 0, pos + hl + length <= Len(data),
              CallGives(pos + hl, length)
       PROVE  InputInv'
  <2>1. pos + hl \in Nat /\ length \in Nat
    BY <1>1, <1>5, <1>13 DEF n
  <2> QED
    BY <1>1, <1>7, <1>13, <2>1, GivesKeeps
<1>14. ASSUME hl >= 0, near >= 2, EndsNear(hl, SkipTo(hl) + near)
       PROVE  InputInv'
  <2> DEFINE e == SkipTo(hl) + near
  <2>1. /\ near \in Int /\ SkipTo(hl) \in Nat /\ SkipTo(hl) = pos + hl + Half(mContentLength) - 1
        /\ mContentLength >= 2 /\ e <= Len(data)
    BY <1>6, <1>14 DEF NearSays
  <2>2. Half(mContentLength) \in Int /\ Half(mContentLength) >= 0
    BY <1>2, HalfIs
  <2>3. e \in 0..Len(data) /\ e - pos - hl \in Nat
    <3> DEFINE half == Half(mContentLength)
               s == SkipTo(hl)
    <3>1. /\ n \in Nat /\ pos \in Nat /\ hl \in Nat /\ near \in Nat /\ near >= 2 /\ half \in Nat
          /\ s \in Nat /\ s = pos + hl + half - 1 /\ e = s + near /\ e <= n
      BY <1>1, <1>5, <1>14, <2>1, <2>2 DEF n
    <3> HIDE DEF half, s, e
    <3>2. e \in 0..n /\ e - pos - hl \in Nat
      BY <3>1
    <3> QED
      BY <3>2 DEF n
  <2> HIDE DEF e
  <2>4. CASE CallFails("io", e, e - pos - hl)
    BY <1>1, <1>7, <2>3, <2>4, FailsKeeps
  <2>5. CASE CallGives(pos + hl, e - pos - hl)
    <3>1. pos + hl + (e - pos - hl) <= Len(data)
      BY <1>1, <1>5, <1>14, <2>3 DEF n
    <3> QED
      BY <1>13, <1>14, <2>3, <2>5, <3>1
  <2>6. EndsNear(hl, e)
    BY <1>14 DEF e
  <2> QED
    BY <2>4, <2>5, <2>6 DEF EndsNear
<1>15. ASSUME hl >= 0, near = -1, EndsFar(hl, far, SkipTo(hl) + SimplifiedSpan)
       PROVE  InputInv'
  <2> DEFINE e == SkipTo(hl) + SimplifiedSpan
  <2>1. SkipTo(hl) \in Nat /\ SimplifiedSpan \in Nat /\ e <= Len(data)
    BY <1>6, <1>15 DEF NearSays
  <2>2. e \in 0..Len(data)
    BY <1>1, <2>1 DEF n
  <2> HIDE DEF e
  <2>3. far \in Int /\ pos + hl \in 0..Len(data) /\ Len(data) \in 0..Len(data)
    BY <1>1, <1>4, <1>5, <1>15 DEF FarSays, n
  <2>4. CASE CallFails("throws", pos + hl, far)
    BY <1>1, <1>7, <2>3, <2>4, FailsKeeps
  <2>5. CASE far >= 2 /\ CallFails("io", Len(data), far)
    <3>1. far >= -1
      BY <2>3, <2>5
    <3> QED
      BY <1>1, <1>7, <2>3, <2>5, <3>1, FailsKeeps
  <2>6. CASE far >= 2 /\ pos + hl + far <= Len(data) /\ CallGives(pos + hl, far)
    <3>1. far >= 0
      BY <2>3, <2>6
    <3> QED
      BY <1>13, <1>15, <2>3, <2>6, <3>1
  <2>7. CASE CallFails("io", e, mContentLength)
    BY <1>1, <1>2, <1>7, <2>2, <2>7, FailsKeeps
  <2>8. EndsFar(hl, far, e)
    BY <1>15 DEF e
  <2> QED
    BY <2>4, <2>5, <2>6, <2>7, <2>8 DEF EndsFar
<1>16. CASE hl >= 0 /\ EndsTold(hl)
  <2>1. PICK length \in LengthsIn(hl) :
           \/ length < 0 /\ CallFails("throws", pos + hl, length)
           \/ pos + hl + length > Len(data) /\ CallFails("io", Len(data), length)
           \/ /\ length >= 0 /\ pos + hl + length <= Len(data)
              /\ CallGives(pos + hl, length)
    BY <1>16 DEF EndsTold
  <2>2. length \in Int
    BY <1>8
  <2> QED
    BY <1>11, <1>12, <1>13, <1>16, <2>1, <2>2
<1> QED
  BY <1>3, <1>9, <1>10, <1>14, <1>15, <1>16 DEF EndsBy

LEMMA MinIn ==
  ASSUME NEW T, T \subseteq Nat, T # {}
  PROVE  Min(T) \in T /\ \A y \in T : Min(T) <= y
<1>1. \E x \in T : \A y \in T : x <= y
  BY LeastNatural
<1> QED
  BY <1>1 DEF Min

LEMMA TakenIs ==
  ASSUME Len(data) \in Nat, NEW end \in Nat, TakenFrom(end)
  PROVE  at' \in 0..Len(data) /\ (end <= Len(data) => at' >= end)
<1>1. PICK n \in ReadAhead : at' = Min({end + n, Len(data)})
  BY DEF TakenFrom
<1>2. n \in Nat
  BY ReadAheadAssumption
<1>3. at' = IF end + n <= Len(data) THEN end + n ELSE Len(data)
  <2>1. end + n \in Int /\ Len(data) \in Int
    BY <1>2
  <2> QED
    BY <1>1, <2>1, MinOfTwo
<1> QED
  BY <1>2, <1>3

LEMMA ParserTypes ==
  ASSUME Laid, ParserTypeOK, ParserThread \/ GetImage
  PROVE  ParserTypeOK'
<1>1. Len(data) \in Nat /\ at \in 0..Len(data) /\ lines \in 0..3 /\ Len(parts) \in Nat
  BY DEF Laid, ParserTypeOK
<1>2. MaxTries \in Nat
  BY MaxTriesAssumption
<1>3. CASE LineRead
  <2>1. data' = data /\ connected' = connected /\ next' = next /\ tries' = tries /\ found' = found
        /\ bimage' = bimage /\ ready' = ready /\ image' = image /\ lines > 0
    BY <1>3 DEF LineRead, streamVars
  <2>2. at' \in 0..Len(data) /\ newline' \in BOOLEAN /\ lines' \in 0..3
    <3>1. CASE at' = at /\ newline' = newline /\ lines' = lines - 1
      BY <1>1, <2>1, <3>1 DEF ParserTypeOK
    <3>2. CASE LineEnds # {} /\ at' = Min(LineEnds) /\ newline' = TRUE /\ lines' = lines - 1
      <4>1. LineEnds \subseteq 0..Len(data) /\ LineEnds \subseteq Nat
        BY <1>1 DEF LineEnds
      <4>2. Min(LineEnds) \in LineEnds
        BY <3>2, <4>1, MinIn
      <4> QED
        <5>1. newline' \in BOOLEAN
          BY <3>2, Zenon
        <5>2. lines' \in 0..3
          BY <1>1, <2>1, <3>2
        <5>3. at' \in 0..Len(data)
          BY <3>2, <4>1, <4>2, Zenon
        <5> QED
          BY <5>1, <5>2, <5>3
    <3>3. CASE at' = Len(data) /\ newline' = FALSE /\ lines' = lines
      <4>1. newline' \in BOOLEAN
        BY <3>3, Zenon
      <4> QED
        BY <1>1, <3>3, <4>1
    <3> QED
      BY <1>3, <3>1, <3>2, <3>3 DEF LineRead
  <2> QED
    BY <2>1, <2>2 DEF ParserTypeOK
<1>4. CASE ReadJPG
  <2>1. data' = data /\ connected' = connected /\ newline' = newline /\ tries' = tries
        /\ ready' = ready /\ image' = image /\ next' = "round" /\ lines' = 2
    BY <1>4 DEF ReadJPG, streamVars
  <2>2. /\ found' \in {-1, 0, 1} /\ bimage' \in Int /\ at' \in 0..Len(data)
    <3>1. ASSUME NEW f \in {-1, 0, 1}, NEW b \in Int, Outcome(f, b)
          PROVE  found' \in {-1, 0, 1} /\ bimage' \in Int
      BY <3>1 DEF Outcome
    <3>2. at \in Int /\ NoImage \in Int
      BY <1>1 DEF NoImage
    <3>3. CASE Outcome(-1, NoImage) /\ at' = at
      BY <1>1, <3>1, <3>2, <3>3
    <3>4. ASSUME NEW k \in DOMAIN parts, Outcome(1, at), TakenFrom(PictureEnd(k)), k \in 1..Len(parts)
          PROVE  found' \in {-1, 0, 1} /\ bimage' \in Int /\ at' \in 0..Len(data)
      <4>1. PictureEnd(k) \in Nat
        BY <3>4 DEF Laid, Placed
      <4> QED
        BY <1>1, <3>1, <3>2, <3>4, <4>1, TakenIs
    <3>5. CASE (Outcome(1, at) \/ Outcome(-1, NoImage)) /\ at' = Len(data)
      BY <1>1, <3>1, <3>2, <3>5
    <3>6. CASE Outcome(0, NoImage) /\ TakenFrom(at)
      <4>1. at \in Nat
        BY <1>1
      <4> QED
        BY <1>1, <3>1, <3>2, <3>6, <4>1, TakenIs
    <3> QED
      BY <1>4, <3>3, <3>4, <3>5, <3>6 DEF ReadJPG, PicturesHere
  <2> QED
    BY <2>1, <2>2 DEF ParserTypeOK
<1>5. CASE RoundEnds
  <2>1. data' = data /\ connected' = connected /\ at' = at /\ newline' = newline /\ found' = found
        /\ bimage' = bimage /\ image' = image
    BY <1>5 DEF RoundEnds, streamVars
  <2>2. tries' \in 0..(MaxTries + 1)
    BY <1>2, <1>5 DEF RoundEnds, ParserTypeOK
  <2>3. next' \in {"picture", "round", "ended"} /\ lines' \in 0..3
    BY <1>5 DEF RoundEnds, ParserTypeOK, HeaderLines
  <2>4. ready' \in BOOLEAN
    <3>1. ready' = TRUE \/ ready' = ready
      BY <1>5, Zenon DEF RoundEnds
    <3> QED
      BY <3>1, Zenon DEF ParserTypeOK
  <2> QED
    BY <2>1, <2>2, <2>3, <2>4 DEF ParserTypeOK
<1>6. CASE GetImage
  BY <1>6 DEF GetImage, ParserTypeOK, streamVars
<1> QED
  BY <1>3, <1>4, <1>5, <1>6 DEF ParserThread

ReadersInv == InputInv /\ ParserTypeOK

LEMMA ReadersInit == Init => ReadersInv
<1> SUFFICES ASSUME Init PROVE ReadersInv
  OBVIOUS
<1>1. InputInv
  BY InputInvInit DEF Init
<1>2. Len(data) \in Nat /\ MaxTries \in Nat
  BY <1>1, MaxTriesAssumption DEF InputInv, StreamOK
<1>3. connected \in BOOLEAN /\ newline \in BOOLEAN /\ ready \in BOOLEAN
  BY Zenon DEF Init, ParserInit
<1>4. /\ at \in 0..Len(data) /\ lines \in 0..3 /\ next \in {"picture", "round", "ended"}
      /\ tries \in 0..(MaxTries + 1) /\ found \in {-1, 0, 1} /\ bimage \in Int /\ image \in Int
  BY <1>2 DEF Init, ParserInit, HeaderLines, NoImage, Waiting
<1>5. ParserTypeOK
  BY <1>3, <1>4 DEF ParserTypeOK
<1> QED
  BY <1>1, <1>5 DEF ReadersInv

LEMMA InputStays ==
  ASSUME InputInv, UNCHANGED <<streamVars, inputVars>>
  PROVE  InputInv'
<1>1. StreamOK'
  BY StreamStays DEF InputInv
<1> QED
  BY <1>1 DEF InputInv, InputTypeOK, LengthOK, inputVars, streamVars

LEMMA ReadersStep == ReadersInv /\ [Next]_vars => ReadersInv'
<1> SUFFICES ASSUME ReadersInv, [Next]_vars PROVE ReadersInv'
  OBVIOUS
<1>1. Laid
  BY LaidOut DEF ReadersInv, InputInv
<1>2. CASE Tablet
  <2>1. InputInv'
    BY <1>2, InputInvStep DEF Tablet, ReadersInv
  <2>2. ParserTypeOK'
    BY <1>2 DEF Tablet, ReadFrame, ReadersInv, ParserTypeOK, parserVars, streamVars
  <2> QED
    BY <2>1, <2>2 DEF ReadersInv
<1>3. CASE Console
  <2>1. ParserTypeOK'
    BY <1>1, <1>3, ParserTypes DEF Console, ReadersInv
  <2>2. UNCHANGED streamVars
    BY <1>3 DEF Console, ParserThread, LineRead, ReadJPG, RoundEnds, GetImage
  <2>3. InputInv'
    BY <1>3, <2>2, InputStays DEF Console, ReadersInv
  <2> QED
    BY <2>1, <2>3 DEF ReadersInv
<1>4. CASE UNCHANGED vars
  <2>1. InputInv'
    BY <1>4, InputStays DEF vars, ReadersInv
  <2>2. ParserTypeOK'
    BY <1>4 DEF vars, ReadersInv, ParserTypeOK, parserVars, streamVars
  <2> QED
    BY <2>1, <2>2 DEF ReadersInv
<1> QED
  BY <1>2, <1>3, <1>4 DEF Next

LEMMA ReadersKeep == Spec => []ReadersInv
<1>1. ReadersInv /\ [Next]_vars => ReadersInv'
  BY ReadersStep
<1> QED
  BY <1>1, ReadersInit, PTL DEF Spec

\* Whatever the stream holds and wherever it ends, the reader's places lie in
\* it, a frame handed on has a length, and the flags and counts of the parser
\* are in their ranges.
THEOREM StreamTypesHold == Spec => []TypeOK
<1>1. ReadersInv => TypeOK
  BY DEF ReadersInv, InputInv, TypeOK
<1> QED
  BY <1>1, ReadersKeep, PTL

-----------------------------------------------------------------------------
(***************************************************************************)
(* The first picture.                                                      *)
(***************************************************************************)

\* The stream the property is about: the server's header, and all of the picture.
FirstSent ==
    /\ connected
    /\ parts[1].header = <<"nl", "nl", "nl">>
    /\ PictureEnd(1) <= Len(data)

\* Before the picture is read the lines before it are; then it has been.
BeforeFirst ==
    /\ found = 0 /\ next = "picture"
    /\ lines \in 0..3 /\ at = 3 - lines
    /\ ready = FALSE /\ image = Waiting

AfterFirst ==
    /\ found = 1 /\ next \in {"round", "ended"}
    /\ bimage = 3 /\ image \in {Waiting, 3}

FirstInv == FirstSent => BeforeFirst \/ AfterFirst

LEMMA FirstPlace ==
  ASSUME StreamOK, Laid, FirstSent
  PROVE  /\ PictureAt(1) = 3 /\ Len(data) >= 7
         /\ \A i \in 1..3 : data[i] = "nl"
         /\ \A k \in 1..Len(parts) : PictureAt(k) = 3 => k = 1
<1>1. 1 \in 1..Len(parts) /\ Len(parts) \in Nat /\ Len(data) \in Nat
  BY DEF Laid
<1>2. Placed(1) /\ End(0) = 0 /\ 1 \in Nat
  BY <1>1 DEF Laid
<1>3. Len(parts[1].header) = 3
  BY DEF FirstSent
<1>4. PictureAt(1) = 3 /\ PictureEnd(1) = End(1) /\ PictureEnd(1) >= 7
  <2>1. 1 - 1 = 0
    OBVIOUS
  <2>2. PictureAt(1) = End(0) + 3
    BY <1>2, <1>3, <2>1 DEF Placed
  <2> QED
    BY <1>2, <2>2 DEF Placed
<1>5. Len(data) >= 7
  BY <1>1, <1>2, <1>4 DEF FirstSent, Placed
<1>6. ASSUME NEW i \in 1..3 PROVE data[i] = "nl"
  <2>1. i \in Nat /\ i <= Len(data) /\ End(1 - 1) < i /\ i <= PictureAt(1) /\ i - End(1 - 1) = i
    BY <1>1, <1>2, <1>4, <1>5
  <2>2. data[i] = parts[1].header[i]
    BY <1>1, <2>1, ByteAt
  <2> QED
    BY <2>2 DEF FirstSent
<1>7. ASSUME NEW k \in 1..Len(parts), PictureAt(k) = 3 PROVE k = 1
  <2>1. SUFFICES ASSUME k # 1 PROVE FALSE
    OBVIOUS
  <2>2. k \in Nat /\ k - 1 \in 0..Len(parts) /\ 1 \in 0..Len(parts) /\ 1 <= k - 1 /\ Placed(k)
    BY <1>1, <2>1 DEF Laid
  <2>3. End(1) <= End(k - 1)
    BY <2>2, EndsGrow
  <2>4. End(k - 1) <= PictureAt(k) /\ End(k - 1) \in Nat
    BY <2>2, PartGrows
  <2>5. End(1) \in Nat /\ End(1) >= 7
    BY <1>2, <1>4, PartGrows
  <2> QED
    BY <1>7, <2>3, <2>4, <2>5
<1> QED
  BY <1>4, <1>5, <1>6, <1>7

LEMMA PlacesStay ==
  ASSUME UNCHANGED streamVars
  PROVE  /\ data' = data /\ parts' = parts
         /\ \A k : PictureAt(k)' = PictureAt(k) /\ PictureEnd(k)' = PictureEnd(k) /\ End(k)' = End(k)
BY DEF streamVars, PictureAt, PictureEnd, End, Written

LEMMA FirstInvStep ==
  ASSUME ReadersInv, FirstInv, [Next]_vars
  PROVE  FirstInv'
<1>1. UNCHANGED <<streamVars, connected>>
  BY DEF Next, Tablet, ReadFrame, Console, ParserThread, LineRead, ReadJPG, RoundEnds, GetImage,
         vars, parserVars
<1>2. FirstSent' <=> FirstSent
  <2>1. PictureEnd(1)' = PictureEnd(1) /\ data' = data /\ parts' = parts /\ connected' = connected
    BY <1>1, PlacesStay
  <2> QED
    BY <2>1 DEF FirstSent
<1> SUFFICES ASSUME FirstSent PROVE (BeforeFirst \/ AfterFirst)'
  BY <1>2 DEF FirstInv
<1>3. BeforeFirst \/ AfterFirst
  BY DEF FirstInv
<1>4. StreamOK /\ Laid /\ connected
  BY LaidOut DEF ReadersInv, InputInv, FirstSent
<1>5. /\ PictureAt(1) = 3 /\ Len(data) >= 7 /\ Len(data) \in Nat
      /\ \A i \in 1..3 : data[i] = "nl"
      /\ \A k \in 1..Len(parts) : PictureAt(k) = 3 => k = 1
      /\ 1 \in 1..Len(parts)
  BY <1>4, FirstPlace DEF Laid
<1>6. CASE UNCHANGED parserVars
  BY <1>3, <1>6 DEF parserVars, BeforeFirst, AfterFirst
<1>7. CASE LineRead /\ AfterFirst
  BY <1>7 DEF LineRead, AfterFirst
<1>8. CASE LineRead /\ BeforeFirst
  <2>1. BeforeFirst /\ lines > 0
    BY <1>8 DEF LineRead
  <2>2. at \in 0..2 /\ lines \in 1..3 /\ lines = 3 - at
    BY <2>1 DEF BeforeFirst
  <2>3. at + 1 \in LineEnds /\ LineEnds \subseteq Nat /\ \A i \in LineEnds : at + 1 <= i
    BY <1>5, <2>2 DEF LineEnds
  <2>4. Min(LineEnds) = at + 1
    <3>1. Min(LineEnds) \in LineEnds /\ Min(LineEnds) <= at + 1
      BY <2>3, MinIn
    <3>2. Min(LineEnds) \in Nat /\ at + 1 <= Min(LineEnds)
      BY <2>3, <3>1
    <3> QED
      BY <2>2, <3>1, <3>2
  <2>5. at' = at + 1 /\ lines' = lines - 1
    <3>1. LineEnds # {} /\ at # Len(data)
      BY <1>5, <2>2, <2>3
    <3> QED
      BY <1>4, <1>8, <2>4, <3>1 DEF LineRead
  <2> QED
    BY <1>8, <2>1, <2>2, <2>5 DEF LineRead, BeforeFirst
<1>9. CASE ReadJPG
  <2>1. BeforeFirst /\ lines = 0
    BY <1>3, <1>9 DEF ReadJPG, AfterFirst
  <2>2. at = 3
    BY <2>1 DEF BeforeFirst
  <2>3. 1 \in PicturesHere /\ \A k \in PicturesHere : k = 1
    <3>1. DOMAIN parts = 1..Len(parts)
      BY <1>4 DEF StreamOK
    <3> QED
      BY <1>5, <2>2, <3>1 DEF PicturesHere
  <2>4. PictureEnd(1) <= Len(data) /\ PictureEnd(1) \in Nat
    BY <1>4, <1>5 DEF FirstSent, Laid, Placed
  <2>5. Outcome(1, at)
    BY <1>4, <1>5, <1>9, <2>3, <2>4 DEF ReadJPG
  <2> QED
    BY <1>9, <2>1, <2>2, <2>5 DEF ReadJPG, Outcome, AfterFirst, BeforeFirst
<1>10. CASE RoundEnds
  <2>1. AfterFirst
    BY <1>3, <1>10 DEF RoundEnds, BeforeFirst
  <2> QED
    BY <1>10, <2>1 DEF RoundEnds, AfterFirst
<1>11. CASE GetImage
  <2>1. AfterFirst
    BY <1>3, <1>11, Zenon DEF GetImage, BeforeFirst
  <2> QED
    BY <1>11, <2>1 DEF GetImage, AfterFirst
<1> QED
  BY <1>3, <1>6, <1>7, <1>8, <1>9, <1>10, <1>11 DEF Next, Tablet, Console, ParserThread, vars

\* A first picture that was sent whole after the server's header is what the
\* console's get_image returns, whatever the stream holds after it and however
\* far ImageIO reads on (MJPEGParser.java:78-100, 134).
THEOREM FirstPictureIsRead == Spec => []FirstPictureRead
<1>1. ReadersInv /\ FirstInv /\ [Next]_vars => FirstInv'
  BY FirstInvStep
<1>2. Init => FirstInv
  BY DEF Init, ParserInit, FirstInv, BeforeFirst, HeaderLines
<1>3. ReadersInv /\ FirstInv => FirstPictureRead
  <2> SUFFICES ASSUME ReadersInv, FirstInv, FirstSent, image # Waiting
               PROVE  image = PictureAt(1)
    BY DEF FirstPictureRead, FirstSent
  <2>1. StreamOK /\ Laid
    BY LaidOut DEF ReadersInv, InputInv
  <2>2. image = 3
    BY DEF FirstInv, BeforeFirst, AfterFirst
  <2> QED
    BY <2>1, <2>2, FirstPlace
<1> QED
  BY <1>1, <1>2, <1>3, ReadersKeep, PTL DEF Spec
=============================================================================
