--------------------------- MODULE JpegTranProofs ---------------------------
(***************************************************************************)
(* A lossless command puts each sample where the geometry of its transform *)
(* puts it, the commands compose, and the markers follow: the invariants   *)
(* of JpegTran and what follows from them.  The theorems are in            *)
(* PicturePartsProofs.                                                     *)
(***************************************************************************)
EXTENDS TransformPart, Integers, Sequences, FiniteSets, SequenceTheorems, WellFoundedInduction, TLAPS

-----------------------------------------------------------------------------
(* Whole numbers first: iMCUs are divisions.                               *)
LEMMA Division ==
  ASSUME NEW a \in Nat, NEW k \in Nat \ {0}
  PROVE  /\ a \div k \in Nat /\ a % k \in Nat /\ a % k < k
         /\ a = k * (a \div k) + (a % k)
  OBVIOUS

LEMMA Product == ASSUME NEW a \in Nat, NEW b \in Nat PROVE a * b \in Nat
  OBVIOUS

(* Units compare as the numbers of them.                                   *)
LEMMA Smaller == ASSUME NEW a \in Nat, NEW b \in Nat, NEW k \in Nat \ {0}
  PROVE (a * k < b * k) <=> a < b
  OBVIOUS

(* Up(a, k) units of k are the least that hold a.                          *)
LEMMA UpTo ==
  ASSUME NEW a \in Nat, NEW k \in Nat \ {0}, NEW q \in Nat
  PROVE  Tran!Up(a, k) \in Nat /\ (q < Tran!Up(a, k) <=> q * k < a)
<1>1. a + k - 1 \in Nat OBVIOUS
<1>2. PICK u \in Nat, r \in Nat : Tran!Up(a, k) = u /\ a + k - 1 = k * u + r /\ r < k
  BY <1>1, Division DEF Tran!Up
<1>3. q < u => q * k < a
  <2>1. ASSUME q < u PROVE q * k + k <= u * k
    <3>1. q + 1 <= u BY <2>1
    <3> QED BY <3>1
  <2> QED BY <1>2, <2>1
<1>4. q >= u => q * k >= a
  <2>1. ASSUME q >= u PROVE q * k >= u * k
    BY <2>1
  <2> QED BY <1>2, <2>1
<1> QED BY <1>2, <1>3, <1>4

(* The place q, r in units of k is one number. *)
LEMMA Place ==
  ASSUME NEW q \in Nat, NEW k \in Nat \ {0}, NEW r \in Nat, r < k
  PROVE  (q * k + r) \div k = q /\ (q * k + r) % k = r
<1>1. q * k + r \in Nat OBVIOUS
<1>2. PICK u \in Nat, s \in Nat : /\ (q * k + r) \div k = u /\ (q * k + r) % k = s 
                       /\ q * k + r = k * u + s /\ s < k
  BY <1>1, Division
<1>3. ~(u > q)
  <2>1. u > q => k * u >= k * q + k
    <3>1. u > q => u >= q + 1 OBVIOUS
    <3> QED BY <3>1
  <2> QED BY <2>1, <1>2
<1>4. ~(u < q)
  <2>1. u < q => k * q >= k * u + k
    <3>1. u < q => q >= u + 1 OBVIOUS
    <3> QED BY <3>1
  <2> QED BY <2>1, <1>2
<1>5. u = q BY <1>3, <1>4
<1> QED BY <1>2, <1>5

(* The largest of some factors is one of them.                             *)
LEMMA LargestIs ==
  ASSUME NEW S \in SUBSET (1 .. 4), S # {}
  PROVE  Tran!Largest(S) \in S /\ \A k \in S : k <= Tran!Largest(S)
<1>1. \E n \in S : \A k \in S : k <= n
  <2>1. CASE 4 \in S BY <2>1
  <2>2. CASE 4 \notin S /\ 3 \in S BY <2>2
  <2>3. CASE 4 \notin S /\ 3 \notin S /\ 2 \in S BY <2>3
  <2>4. CASE 4 \notin S /\ 3 \notin S /\ 2 \notin S
    <3>1. \A k \in S : k \in Int /\ 1 <= k /\ k <= 4 /\ k # 4 /\ k # 3 /\ k # 2
      BY <2>4
    <3>2. \A k \in S : k = 1
      BY <3>1
    <3>3. PICK x \in S : TRUE
      OBVIOUS
    <3>4. x = 1 /\ \A k \in S : k <= x
      BY <3>2
    <3> QED BY <3>4
  <2> QED BY <2>1, <2>2, <2>3, <2>4
<1> QED BY <1>1 DEF Tran!Largest
Ratios == (1 .. 4) \X (1 .. 4)
WellFormed(f) ==
  /\ DOMAIN f = {"width", "height", "factors", "space", "samples", "markers", "damaged"}
  /\ f.width \in Nat /\ f.height \in Nat
  /\ f.factors \in Seq(Ratios) /\ f.factors # <<>>
Region(crop) ==
  \/ crop = Tran!NoCrop
  \/ crop.x \in Nat /\ crop.y \in Nat /\ crop.width \in Nat /\ crop.height \in Nat
Side == TranSize \in Nat \ {0}

(* The factors of a frame, and the largest of them.                        *)
LEMMA FactorsAre ==
  ASSUME NEW fs \in Seq(Ratios), fs # <<>>
  PROVE  /\ \A c \in DOMAIN fs : fs[c][1] \in 1 .. 4 /\ fs[c][2] \in 1 .. 4
         /\ Tran!max_h(fs) \in 1 .. 4 /\ Tran!max_v(fs) \in 1 .. 4
         /\ \A c \in DOMAIN fs : fs[c][1] <= Tran!max_h(fs) /\ fs[c][2] <= Tran!max_v(fs)
<1>1. \A c \in DOMAIN fs : fs[c] \in Ratios
  <2>1. DOMAIN fs = 1 .. Len(fs) /\ fs \in [1 .. Len(fs) -> Ratios]
    BY LenProperties
  <2> QED BY <2>1
<1>2. \A c \in DOMAIN fs : fs[c][1] \in 1 .. 4 /\ fs[c][2] \in 1 .. 4
  BY <1>1 DEF Ratios
<1>3. DOMAIN fs # {}
  <2>1. Len(fs) # 0 /\ Len(fs) \in Nat /\ DOMAIN fs = 1 .. Len(fs)
    BY EmptySeq, LenProperties
  <2>2. 1 \in 1 .. Len(fs)
    BY <2>1
  <2> QED BY <2>1, <2>2
<1> DEFINE H == {fs[c][1] : c \in DOMAIN fs}
           V == {fs[c][2] : c \in DOMAIN fs}
<1>4. H \in SUBSET (1 .. 4) /\ H # {} /\ V \in SUBSET (1 .. 4) /\ V # {}
  BY <1>2, <1>3
<1>5. \A c \in DOMAIN fs : fs[c][1] \in H /\ fs[c][2] \in V
  OBVIOUS
<1>8. Tran!max_h(fs) = Tran!Largest(H) /\ Tran!max_v(fs) = Tran!Largest(V)
  BY DEF Tran!max_h, Tran!max_v
<1> HIDE DEF H, V
<1>6. /\ Tran!Largest(H) \in H /\ \A k \in H : k <= Tran!Largest(H)
      /\ Tran!Largest(V) \in V /\ \A k \in V : k <= Tran!Largest(V)
  BY <1>4, LargestIs
<1> QED BY <1>2, <1>4, <1>5, <1>6, <1>8

(* The factors after a command are those of a frame.                       *)
LEMMA DestinationIs ==
  ASSUME NEW f, WellFormed(f), NEW t
  PROVE  /\ Tran!DestinationFactors(f, t) \in Seq(Ratios) /\ Tran!DestinationFactors(f, t) # <<>>
         /\ DOMAIN Tran!DestinationFactors(f, t) = DOMAIN f.factors
<1>1. f.factors \in Seq(Ratios) /\ f.factors # <<>>
  BY DEF WellFormed
<1>2. CASE Len(f.factors) = 1
  <2>1. << <<1, 1>> >> \in Seq(Ratios)
    BY DEF Ratios
  <2> QED BY <1>1, <1>2, <2>1 DEF Tran!DestinationFactors
<1>3. CASE Len(f.factors) # 1 /\ t \in Tran!Transposing
  <2> DEFINE fs == f.factors  gs == [c \in DOMAIN fs |-> <<fs[c][2], fs[c][1]>>]
  <2>1. Tran!DestinationFactors(f, t) = gs
    BY <1>3 DEF Tran!DestinationFactors
  <2>2. fs \in Seq(Ratios) /\ fs # <<>> BY <1>1
  <2> HIDE DEF fs
  <2>3. \A c \in DOMAIN fs : <<fs[c][2], fs[c][1]>> \in Ratios
    BY <2>2, FactorsAre DEF Ratios
  <2>4. DOMAIN fs = 1 .. Len(fs) /\ Len(fs) \in Nat BY <2>2
  <2>5. gs \in Seq(Ratios) BY <2>3, <2>4
  <2>6. gs # <<>> /\ DOMAIN gs = DOMAIN fs BY <2>2
  <2> QED BY <2>1, <2>5, <2>6 DEF fs
<1>4. CASE Len(f.factors) # 1 /\ t \notin Tran!Transposing
  BY <1>1, <1>4 DEF Tran!DestinationFactors
<1> QED BY <1>2, <1>3, <1>4

(* A side stays a whole number when it is trimmed.                         *)
LEMMA TrimmedIs ==
  ASSUME NEW size \in Nat, NEW full, NEW offset, NEW mcu \in Nat \ {0}
  PROVE  Tran!Trimmed(size, full, offset, mcu) \in Nat
<1>1. (size \div mcu) * mcu \in Nat
  BY Division
<1> QED BY <1>1 DEF Tran!Trimmed

(* What is worked out before a command makes sense.                        *)
LEMMA InfoIs ==
  ASSUME NEW f, WellFormed(f), NEW t, NEW crop, Region(crop), NEW trim \in BOOLEAN, Side
  PROVE  LET info == Tran!Info(f, t, crop, trim)
             fs == Tran!DestinationFactors(f, t)
             mw == Tran!max_h(fs) * TranSize
             mh == Tran!max_v(fs) * TranSize
             fullw == IF t \in Tran!Transposing THEN f.height ELSE f.width
             fullh == IF t \in Tran!Transposing THEN f.width ELSE f.height
             w == IF crop = Tran!NoCrop THEN fullw ELSE crop.width + (crop.x % mw)
             h == IF crop = Tran!NoCrop THEN fullh ELSE crop.height + (crop.y % mh) IN
         /\ info.factors = fs
         /\ info.x = (IF crop = Tran!NoCrop THEN 0 ELSE crop.x \div mw)
         /\ info.y = (IF crop = Tran!NoCrop THEN 0 ELSE crop.y \div mh)
         /\ info.cols = fullw \div mw /\ info.rows = fullh \div mh
         /\ info.width = IF trim /\ t \in Tran!MirrorsX THEN Tran!Trimmed(w, fullw, info.x, mw) ELSE w
         /\ info.height = IF trim /\ t \in Tran!MirrorsY THEN Tran!Trimmed(h, fullh, info.y, mh) ELSE h
         /\ mw \in Nat \ {0} /\ mh \in Nat \ {0} /\ fullw \in Nat /\ fullh \in Nat
         /\ w \in Nat /\ h \in Nat /\ info.x \in Nat /\ info.y \in Nat
         /\ info.cols \in Nat /\ info.rows \in Nat
         /\ info.width \in Nat /\ info.height \in Nat
<1> DEFINE info == Tran!Info(f, t, crop, trim)
           fs == Tran!DestinationFactors(f, t)
           mw == Tran!max_h(fs) * TranSize
           mh == Tran!max_v(fs) * TranSize
           fullw == IF t \in Tran!Transposing THEN f.height ELSE f.width
           fullh == IF t \in Tran!Transposing THEN f.width ELSE f.height
           w == IF crop = Tran!NoCrop THEN fullw ELSE crop.width + (crop.x % mw)
           h == IF crop = Tran!NoCrop THEN fullh ELSE crop.height + (crop.y % mh)
<1>1. /\ info.factors = fs
      /\ info.x = (IF crop = Tran!NoCrop THEN 0 ELSE crop.x \div mw)
      /\ info.y = (IF crop = Tran!NoCrop THEN 0 ELSE crop.y \div mh)
      /\ info.cols = fullw \div mw /\ info.rows = fullh \div mh
      /\ info.width = IF trim /\ t \in Tran!MirrorsX THEN Tran!Trimmed(w, fullw, info.x, mw) ELSE w
      /\ info.height = IF trim /\ t \in Tran!MirrorsY THEN Tran!Trimmed(h, fullh, info.y, mh) ELSE h
  BY DEF Tran!Info
<1>2. Tran!max_h(fs) \in 1 .. 4 /\ Tran!max_v(fs) \in 1 .. 4
  BY DestinationIs, FactorsAre
<1> HIDE DEF fs, info
<1>3. mw \in Nat \ {0} /\ mh \in Nat \ {0}
  BY <1>2 DEF Side
<1>4. fullw \in Nat /\ fullh \in Nat
  BY DEF WellFormed
<1> HIDE DEF mw, mh, fullw, fullh
<1>5. /\ w \in Nat /\ h \in Nat /\ info.x \in Nat /\ info.y \in Nat
      /\ info.cols \in Nat /\ info.rows \in Nat
  <2>1. CASE crop = Tran!NoCrop
    BY <1>1, <1>3, <1>4, <2>1, Division
  <2>2. CASE crop # Tran!NoCrop
    <3>1. /\ crop.x \in Nat /\ crop.y \in Nat /\ crop.width \in Nat /\ crop.height \in Nat
      BY <2>2 DEF Region
    <3>2. /\ crop.x % mw \in Nat /\ crop.y % mh \in Nat /\ crop.x \div mw \in Nat /\ crop.y \div mh \in Nat
      BY <1>3, <3>1, Division
    <3>3. fullw \div mw \in Nat /\ fullh \div mh \in Nat
      BY <1>3, <1>4, Division
    <3>4. info.x \in Nat /\ info.y \in Nat /\ info.cols \in Nat /\ info.rows \in Nat
      BY <1>1, <2>2, <3>2, <3>3
    <3> DEFINE rx == crop.x % mw  ry == crop.y % mh
    <3>5. rx \in Nat /\ ry \in Nat
      BY <3>2
    <3> HIDE DEF rx, ry
    <3>6. w = crop.width + rx /\ h = crop.height + ry
      BY <2>2 DEF rx, ry
    <3> QED BY <3>1, <3>4, <3>5, <3>6
  <2> QED BY <2>1, <2>2
<1>6. info.width \in Nat /\ info.height \in Nat
  <2>1. Tran!Trimmed(w, fullw, info.x, mw) \in Nat
    BY <1>3, <1>4, <1>5, TrimmedIs
  <2>2. Tran!Trimmed(h, fullh, info.y, mh) \in Nat
    BY <1>3, <1>4, <1>5, TrimmedIs
  <2> HIDE DEF w, h
  <2> QED BY <1>1, <1>5, <2>1, <2>2
<1> QED BY <1>1, <1>3, <1>4, <1>5, <1>6 DEF fs, info, mw, mh, fullw, fullh

(* What jpegtran writes. *)
LEMMA Written ==
  ASSUME NEW f, WellFormed(f), NEW t, NEW crop, Region(crop), NEW trim \in BOOLEAN, Side
  PROVE  LET info == Tran!Info(f, t, crop, trim)
             g == Tran!jpegtran(f, t, crop, trim) IN
         /\ WellFormed(g)
         /\ g.width = info.width /\ g.height = info.height /\ g.factors = info.factors
         /\ DOMAIN g.factors = DOMAIN f.factors
         /\ \E k : /\ k.width = g.width /\ k.height = g.height /\ k.factors = g.factors
                  /\ g.samples = Tran!Transformed(f, t, info, k)
<1> DEFINE info == Tran!Info(f, t, crop, trim)
           g0 == [f EXCEPT !.width = info.width, !.height = info.height, !.factors = info.factors]
           g == Tran!jpegtran(f, t, crop, trim)
<1>1. g = [g0 EXCEPT !.samples = Tran!Transformed(f, t, info, g0), !.markers = Tran!Copied(f, g0),
                     !.damaged = FALSE]
  BY DEF Tran!jpegtran
<1> HIDE DEF info
<1>2. /\ DOMAIN g0 = DOMAIN f /\ g0.width = info.width /\ g0.height = info.height /\ g0.factors = info.factors
  BY DEF WellFormed
<1> HIDE DEF g0
<1>3. /\ DOMAIN g = DOMAIN f /\ g.width = info.width /\ g.height = info.height /\ g.factors = info.factors
      /\ g.samples = Tran!Transformed(f, t, info, g0)
  BY <1>1, <1>2 DEF WellFormed
<1> HIDE DEF g
<1>5. /\ info.factors \in Seq(Ratios) /\ info.factors # <<>> /\ DOMAIN info.factors = DOMAIN f.factors
  BY InfoIs, DestinationIs DEF info
<1>6. info.width \in Nat /\ info.height \in Nat
  BY InfoIs DEF info
<1> QED BY <1>2, <1>3, <1>5, <1>6 DEF WellFormed, g, info
-----------------------------------------------------------------------------
(* Along one side of a component: size samples of the picture, n of the    *)
(* most m samples of a component on the side of an iMCU.                   *)
LEMMA SeenIsThere ==
  ASSUME Side, NEW size \in Nat, NEW m \in 1 .. 4, NEW n \in 1 .. 4, NEW p \in Nat,
         p < Tran!Up(size * n, m)
  PROVE  /\ p < Tran!Up(size, m * TranSize) * n * TranSize
         /\ p \div TranSize < Tran!Up(size * n, m * TranSize)
         /\ p * m < size * n
<1> DEFINE D == TranSize  b == p \div D  r == p % D  u == Tran!Up(size, m * D)
<1>1. D \in Nat \ {0} /\ m \in Nat \ {0} /\ n \in Nat \ {0} /\ size * n \in Nat /\ m * D \in Nat \ {0}
  BY DEF Side
<1>2. b \in Nat /\ r \in Nat /\ r < D /\ p = D * b + r
  BY <1>1, Division
<1> HIDE DEF D, b, r
<1>3. p * m < size * n
  BY <1>1, UpTo
<1>4. b * (m * D) <= p * m
  <2>1. D * b <= p
    BY <1>1, <1>2
  <2>2. D * b \in Nat
    BY <1>1, <1>2
  <2>3. (D * b) * m <= p * m
    BY <1>1, <2>1, <2>2
  <2> QED BY <1>1, <1>2, <2>3
<1>5. b < Tran!Up(size * n, m * D)
  <2>1. b * (m * D) \in Nat /\ p * m \in Nat
    BY <1>1, <1>2
  <2>2. b * (m * D) < size * n
    BY <1>1, <1>3, <1>4, <2>1
  <2> QED BY <1>1, <1>2, <2>2, UpTo
<1>6. u \in Nat /\ size <= u * (m * D)
  <2>1. u \in Nat
    BY <1>1, UpTo
  <2>2. ~(u < u) /\ u * (m * D) \in Nat
    BY <1>1, <2>1
  <2>3. ~(u * (m * D) < size)
    BY <1>1, <2>1, <2>2, UpTo
  <2> QED BY <2>1, <2>2, <2>3
<1> HIDE DEF u
<1>7. size * n <= (u * n * D) * m
  <2>1. size * n <= (u * (m * D)) * n
    BY <1>1, <1>6
  <2> QED BY <1>1, <1>6, <2>1
<1>8. u * n * D \in Nat /\ p * m \in Nat
  BY <1>1, <1>6
<1>9. p * m < (u * n * D) * m
  BY <1>1, <1>3, <1>7, <1>8
<1>10. p < u * n * D
  BY <1>1, <1>8, <1>9, Smaller
<1> QED BY <1>3, <1>5, <1>10 DEF D, b, u

(* The block and the place in it, x iMCUs further.                         *)
LEMMA MovedBy ==
  ASSUME Side, NEW n \in 1 .. 4, NEW p \in Nat, NEW x \in Nat
  PROVE  LET b == p \div TranSize + x * n  r == p % TranSize IN
         b \in Nat /\ r \in 0 .. TranSize - 1 /\ b * TranSize + r = p + x * n * TranSize
<1> DEFINE D == TranSize  b == p \div D  r == p % D
<1>1. D \in Nat \ {0} /\ n \in Nat
  BY DEF Side
<1>2. b \in Nat /\ r \in Nat /\ r < D /\ p = D * b + r
  BY <1>1, Division
<1> HIDE DEF D, b, r
<1>3. x * n \in Nat
  BY <1>1
<1>4. b + x * n \in Nat /\ r \in 0 .. D - 1 /\ (b + x * n) * D + r = p + x * n * D
  BY <1>1, <1>2, <1>3
<1> QED BY <1>4 DEF D, b, r

(* Of what can be mirrored, no more is seen than that.                     *)
LEMMA MirroredIn ==
  ASSUME Side, NEW size \in Nat, NEW m \in 1 .. 4, NEW n \in 1 .. 4, NEW p \in Nat,
         p * m < size * n, NEW x \in Nat, NEW cols \in Nat,
         x * (m * TranSize) + size <= cols * (m * TranSize)
  PROVE  p + x * n * TranSize < cols * n * TranSize
<1> DEFINE D == TranSize  q == p + x * n * D
<1>1. D \in Nat \ {0} /\ n \in Nat \ {0} /\ m \in Nat \ {0}
  BY DEF Side
<1>3. q \in Nat /\ cols * n \in Nat /\ cols * n * D \in Nat /\ x * n * D \in Nat
  BY <1>1
<1>4. q * m < (cols * n * D) * m
  <2>1. (x * (m * D) + size) * n <= (cols * (m * D)) * n
    <3>1. x * (m * D) + size \in Nat /\ cols * (m * D) \in Nat /\ x * (m * D) + size <= cols * (m * D)
      BY <1>1
    <3> HIDE DEF D
    <3> DEFINE k == x * (m * D) + size  l == cols * (m * D)
    <3>2. k \in Nat /\ l \in Nat /\ k <= l
      BY <3>1
    <3> HIDE DEF k, l
    <3>3. k * n <= l * n
      BY <1>1, <3>2
    <3> QED BY <3>3 DEF k, l
  <2> HIDE DEF D
  <2>2. q * m = p * m + (x * (m * D)) * n
    BY <1>1
  <2>3. (x * (m * D) + size) * n = (x * (m * D)) * n + size * n
    BY <1>1
  <2>4. (cols * (m * D)) * n = (cols * n * D) * m
    BY <1>1
  <2>5. p * m \in Nat /\ size * n \in Nat /\ (x * (m * D)) * n \in Nat /\ (cols * n * D) * m \in Nat
    BY <1>1
  <2> HIDE DEF q
  <2> QED BY <2>1, <2>2, <2>3, <2>4, <2>5
<1>5. q < cols * n * D
  <2> HIDE DEF q, D
  <2> QED BY <1>1, <1>3, <1>4, Smaller
<1> QED BY <1>5 DEF q, D

(* What a command that mirrors leaves of a side: nothing beyond the last   *)
(* whole iMCU.                                                             *)
LEMMA Whole ==
  ASSUME NEW w \in Nat, NEW full \in Nat, NEW x \in Nat, NEW k \in Nat \ {0}, NEW trim \in BOOLEAN,
         x * k + w <= full, x < full \div k, ~trim => full % k = 0
  PROVE  x * k + (IF trim THEN Tran!Trimmed(w, full, x, k) ELSE w) <= (full \div k) * k
<1> DEFINE cols == full \div k  n == w \div k
<1>1. cols \in Nat /\ full % k \in Nat /\ full % k < k /\ full = k * cols + (full % k)
  BY Division
<1>2. n \in Nat /\ w % k \in Nat /\ w % k < k /\ w = k * n + (w % k)
  BY Division
<1>3. CASE ~trim
  BY <1>1, <1>3
<1>4. CASE trim
  <2>1. Tran!Trimmed(w, full, x, k) = IF n > 0 /\ x + n = cols THEN n * k ELSE w
    BY DEF Tran!Trimmed
  <2>2. x < cols
    OBVIOUS
  <2> DEFINE rw == w % k  rf == full % k
  <2>3. rw \in Nat /\ rw < k /\ w = k * n + rw /\ rf \in Nat /\ rf < k /\ full = k * cols + rf
    BY <1>1, <1>2
  <2> HIDE DEF cols, n, rw, rf
  <2>4. x + n <= cols
    <3>1. ~(x + n >= cols + 1)
      <4>1. x + n >= cols + 1 => (x + n) * k >= (cols + 1) * k
        BY <1>1, <1>2
      <4>2. (x + n) * k = x * k + k * n /\ (cols + 1) * k = k * cols + k
        BY <1>1, <1>2
      <4>3. x * k \in Nat /\ k * n \in Nat /\ k * cols \in Nat
        BY <1>1, <1>2
      <4> QED BY <4>1, <4>2, <4>3, <2>3
    <3> QED BY <1>1, <1>2, <3>1
  <2>5. CASE x + n = cols /\ n > 0
    <3>1. x * k + n * k = cols * k
      BY <1>1, <1>2, <2>5
    <3>2. cols * k \in Nat
      BY <1>1
    <3> QED BY <1>4, <2>1, <2>5, <3>1, <3>2 DEF cols
  <2>6. CASE ~(x + n = cols /\ n > 0)
    <3>1. x + n + 1 <= cols
      BY <1>1, <1>2, <2>2, <2>4, <2>6
    <3>2. (x + n + 1) * k <= cols * k
      BY <1>1, <1>2, <3>1
    <3>3. (x + n + 1) * k = x * k + k * n + k
      BY <1>1, <1>2
    <3>4. x * k \in Nat /\ k * n \in Nat /\ cols * k \in Nat
      BY <1>1, <1>2
    <3> QED BY <1>4, <2>1, <2>3, <2>6, <3>2, <3>3, <3>4 DEF cols
  <2> QED BY <2>5, <2>6
<1> QED BY <1>3, <1>4
-----------------------------------------------------------------------------
(* Where a sample comes from, of the w by h that can be mirrored: what the *)
(* routines say of blocks, in samples.                                     *)
Flip(q, size) == IF q < size THEN size - 1 - q ELSE q
Where(t, x, y, w, h) ==
  CASE t = "JXFORM_NONE"       -> <<x, y>>
    [] t = "JXFORM_FLIP_H"     -> <<Flip(x, w), y>>
    [] t = "JXFORM_FLIP_V"     -> <<x, Flip(y, h)>>
    [] t = "JXFORM_TRANSPOSE"  -> <<y, x>>
    [] t = "JXFORM_TRANSVERSE" -> <<Flip(y, h), Flip(x, w)>>
    [] t = "JXFORM_ROT_90"     -> <<y, Flip(x, w)>>
    [] t = "JXFORM_ROT_180"    -> <<Flip(x, w), Flip(y, h)>>
    [] t = "JXFORM_ROT_270"    -> <<Flip(y, h), x>>
Kinds == Tran!Plain \cup Tran!Transposing

(* A block that is mirrored, and its samples in it, or neither.            *)
LEMMA BlockFlips ==
  ASSUME Side, NEW b \in Nat, NEW r \in 0 .. TranSize - 1, NEW w \in Nat
  PROVE  Tran!Mirrored(b, w) * TranSize + (IF b < w THEN TranSize - 1 - r ELSE r) = Flip(b * TranSize + r, w * TranSize)
<1> DEFINE D == TranSize
<1>1. D \in Nat \ {0} /\ r \in Nat /\ r < D
  BY DEF Side
<1> HIDE DEF D
<1>2. b * D \in Nat /\ w * D \in Nat
  BY <1>1
<1>3. CASE b < w
  <2>1. b + 1 <= w
    BY <1>3
  <2>2. (b + 1) * D <= w * D /\ (b + 1) * D = b * D + D
    BY <1>1, <2>1
  <2>3. b * D + r < w * D
    BY <1>1, <1>2, <2>2
  <2>4. (w - b - 1) * D = w * D - b * D - D
    BY <1>1
  <2>5. (w - b - 1) * D + (D - 1 - r) = w * D - 1 - (b * D + r)
    BY <1>1, <1>2, <2>4
  <2> QED BY <1>3, <2>3, <2>5 DEF Tran!Mirrored, Flip, D
<1>4. CASE ~(b < w)
  <2>1. b * D >= w * D
    BY <1>1, <1>4
  <2>2. ~(b * D + r < w * D)
    BY <1>1, <1>2, <2>1
  <2> QED BY <1>4, <2>2 DEF Tran!Mirrored, Flip, D
<1> QED BY <1>3, <1>4

(* A sample of a block that is taken over or transposed.                   *)
LEMMA SampleOfBlock ==
  ASSUME NEW col, NEW row, NEW negated, NEW u, NEW v
  PROVE  /\ Tran!SampleOf(Tran!Block(col, row, FALSE, negated), u, v) =
              <<col * TranSize + (IF <<0, 1>> \in negated THEN TranSize - 1 - u ELSE u),
                row * TranSize + (IF <<1, 0>> \in negated THEN TranSize - 1 - v ELSE v)>>
         /\ Tran!SampleOf(Tran!Block(col, row, TRUE, negated), u, v) =
              <<col * TranSize + (IF <<0, 1>> \in negated THEN TranSize - 1 - v ELSE v),
                row * TranSize + (IF <<1, 0>> \in negated THEN TranSize - 1 - u ELSE u)>>
  BY DEF Tran!SampleOf, Tran!Block

(* The routine for t, block by block and sample by sample, is Where.       *)
LEMMA SampleIsAt ==
  ASSUME Side, NEW t \in Kinds, NEW bx \in Nat, NEW by \in Nat, NEW w \in Nat, NEW h \in Nat,
         NEW u \in 0 .. TranSize - 1, NEW v \in 0 .. TranSize - 1
  PROVE  Tran!SampleOf(Tran!BlockFor(t, bx, by, w, h), u, v)
           = Where(t, bx * TranSize + u, by * TranSize + v, w * TranSize, h * TranSize)
<1> DEFINE D == TranSize
           X == Tran!Mirrored(bx, w) * D + (IF bx < w THEN D - 1 - u ELSE u)
           Y == Tran!Mirrored(by, h) * D + (IF by < h THEN D - 1 - v ELSE v)
<1>1. X = Flip(bx * D + u, w * D) /\ Y = Flip(by * D + v, h * D)
  BY BlockFlips
<1>2. /\ <<0, 1>> \in Tran!OddColumns /\ <<1, 0>> \notin Tran!OddColumns
      /\ <<1, 0>> \in Tran!OddRows /\ <<0, 1>> \notin Tran!OddRows
  BY DEF Tran!OddColumns, Tran!OddRows
<1> DEFINE xc == Tran!If(bx < w, Tran!OddColumns)  xr == Tran!If(bx < w, Tran!OddRows)
           yc == Tran!If(by < h, Tran!OddColumns)  yr == Tran!If(by < h, Tran!OddRows)
<1>3. /\ (<<0, 1>> \in xc <=> bx < w) /\ <<1, 0>> \notin xc
      /\ (<<1, 0>> \in xr <=> bx < w) /\ <<0, 1>> \notin xr
      /\ (<<0, 1>> \in yc <=> by < h) /\ <<1, 0>> \notin yc
      /\ (<<1, 0>> \in yr <=> by < h) /\ <<0, 1>> \notin yr
  BY <1>2 DEF Tran!If
<1> HIDE DEF xc, xr, yc, yr
<1>4. /\ <<0, 1>> \in Tran!Either(xc, yr) <=> bx < w
      /\ <<1, 0>> \in Tran!Either(xc, yr) <=> by < h
      /\ <<0, 1>> \in Tran!Either(xr, yc) <=> by < h
      /\ <<1, 0>> \in Tran!Either(xr, yc) <=> bx < w
  BY <1>3 DEF Tran!Either
<1> DEFINE Cu(n) == IF <<0, 1>> \in n THEN D - 1 - u ELSE u  Cv(n) == IF <<0, 1>> \in n THEN D - 1 - v ELSE v
           Ru(n) == IF <<1, 0>> \in n THEN D - 1 - u ELSE u  Rv(n) == IF <<1, 0>> \in n THEN D - 1 - v ELSE v
           mu == IF bx < w THEN D - 1 - u ELSE u  mv == IF by < h THEN D - 1 - v ELSE v
<1>5. /\ Cu(xc) = mu /\ Rv(xc) = v /\ Cu(yr) = u /\ Rv(yr) = mv
      /\ Cv(xr) = v /\ Ru(xr) = mu /\ Cv(yc) = mv /\ Ru(yc) = u
      /\ Cu(Tran!Either(xc, yr)) = mu /\ Rv(Tran!Either(xc, yr)) = mv
      /\ Cv(Tran!Either(xr, yc)) = mv /\ Ru(Tran!Either(xr, yc)) = mu
  BY <1>3, <1>4
<1>6. \A col, row, n :
        /\ Tran!SampleOf(Tran!Block(col, row, FALSE, n), u, v) = <<col * D + Cu(n), row * D + Rv(n)>>
        /\ Tran!SampleOf(Tran!Block(col, row, TRUE, n), u, v) = <<col * D + Cv(n), row * D + Ru(n)>>
  BY DEF Tran!SampleOf, Tran!Block
<1>7. X = Tran!Mirrored(bx, w) * D + mu /\ Y = Tran!Mirrored(by, h) * D + mv
  OBVIOUS
<1> HIDE DEF Cu, Cv, Ru, Rv, mu, mv, X, Y
<1> DEFINE B == Tran!BlockFor(t, bx, by, w, h)
<1>8. CASE t = "JXFORM_NONE"
  <2>1. B = Tran!Block(bx, by, FALSE, {})
    BY <1>8 DEF Tran!BlockFor, Tran!do_crop
  <2> QED BY <1>8, <2>1 DEF Tran!SampleOf, Tran!Block, Where
<1>9. CASE t = "JXFORM_FLIP_H"
  <2>1. B = Tran!Block(Tran!Mirrored(bx, w), by, FALSE, xc)
    BY <1>9 DEF Tran!BlockFor, Tran!do_flip_h, xc, xr, yc, yr
  <2>2. Tran!SampleOf(B, u, v) = <<X, by * D + v>>
    <3>1. Tran!SampleOf(B, u, v) = <<Tran!Mirrored(bx, w) * D + Cu(xc), by * D + Rv(xc)>>
      BY <1>6, <2>1
    <3> QED BY <1>5, <1>7, <3>1
  <2> QED BY <1>1, <1>9, <2>2 DEF Where
<1>10. CASE t = "JXFORM_FLIP_V"
  <2>1. B = Tran!Block(bx, Tran!Mirrored(by, h), FALSE, yr)
    BY <1>10 DEF Tran!BlockFor, Tran!do_flip_v, xc, xr, yc, yr
  <2>2. Tran!SampleOf(B, u, v) = <<bx * D + u, Y>>
    <3>1. Tran!SampleOf(B, u, v) = <<bx * D + Cu(yr), Tran!Mirrored(by, h) * D + Rv(yr)>>
      BY <1>6, <2>1
    <3> QED BY <1>5, <1>7, <3>1
  <2> QED BY <1>1, <1>10, <2>2 DEF Where
<1>11. CASE t = "JXFORM_TRANSPOSE"
  <2>1. B = Tran!Block(by, bx, TRUE, {})
    BY <1>11 DEF Tran!BlockFor, Tran!do_transpose, xc, xr, yc, yr
  <2> QED BY <1>11, <2>1 DEF Tran!SampleOf, Tran!Block, Where
<1>12. CASE t = "JXFORM_TRANSVERSE"
  <2>1. B = Tran!Block(Tran!Mirrored(by, h), Tran!Mirrored(bx, w), TRUE,
                       Tran!Either(xr, yc))
    BY <1>12 DEF Tran!BlockFor, Tran!do_transverse, xc, xr, yc, yr
  <2>2. Tran!SampleOf(B, u, v) = <<Y, X>>
    <3>1. Tran!SampleOf(B, u, v) = <<Tran!Mirrored(by, h) * D + Cv(Tran!Either(xr, yc)),
                                     Tran!Mirrored(bx, w) * D + Ru(Tran!Either(xr, yc))>>
      BY <1>6, <2>1
    <3> QED BY <1>5, <1>7, <3>1
  <2> QED BY <1>1, <1>12, <2>2 DEF Where
<1>13. CASE t = "JXFORM_ROT_90"
  <2>1. B = Tran!Block(by, Tran!Mirrored(bx, w), TRUE, xr)
    BY <1>13 DEF Tran!BlockFor, Tran!do_rot_90, xc, xr, yc, yr
  <2>2. Tran!SampleOf(B, u, v) = <<by * D + v, X>>
    <3>1. Tran!SampleOf(B, u, v) = <<by * D + Cv(xr), Tran!Mirrored(bx, w) * D + Ru(xr)>>
      BY <1>6, <2>1
    <3> QED BY <1>5, <1>7, <3>1
  <2> QED BY <1>1, <1>13, <2>2 DEF Where
<1>14. CASE t = "JXFORM_ROT_180"
  <2>1. B = Tran!Block(Tran!Mirrored(bx, w), Tran!Mirrored(by, h), FALSE,
                       Tran!Either(xc, yr))
    BY <1>14 DEF Tran!BlockFor, Tran!do_rot_180, xc, xr, yc, yr
  <2>2. Tran!SampleOf(B, u, v) = <<X, Y>>
    <3>1. Tran!SampleOf(B, u, v) = <<Tran!Mirrored(bx, w) * D + Cu(Tran!Either(xc, yr)),
                                     Tran!Mirrored(by, h) * D + Rv(Tran!Either(xc, yr))>>
      BY <1>6, <2>1
    <3> QED BY <1>5, <1>7, <3>1
  <2> QED BY <1>1, <1>14, <2>2 DEF Where
<1>15. CASE t = "JXFORM_ROT_270"
  <2>1. B = Tran!Block(Tran!Mirrored(by, h), bx, TRUE, yc)
    BY <1>15 DEF Tran!BlockFor, Tran!do_rot_270, xc, xr, yc, yr
  <2>2. Tran!SampleOf(B, u, v) = <<Y, bx * D + u>>
    <3>1. Tran!SampleOf(B, u, v) = <<Tran!Mirrored(by, h) * D + Cv(yc), bx * D + Ru(yc)>>
      BY <1>6, <2>1
    <3> QED BY <1>5, <1>7, <3>1
  <2> QED BY <1>1, <1>15, <2>2 DEF Where
<1> QED BY <1>8, <1>9, <1>10, <1>11, <1>12, <1>13, <1>14, <1>15 DEF Kinds, Tran!Plain, Tran!Transposing

(* A sample seen in what jpegtran writes is one of the photo.              *)
TakenFrom(t, info, c, p) ==
  LET h == info.factors[c][1]  v == info.factors[c][2] IN
  Where(t, p[1] + info.x * h * TranSize, p[2] + info.y * v * TranSize,
        info.cols * h * TranSize, info.rows * v * TranSize)

LEMMA SampleTaken ==
  ASSUME NEW f, WellFormed(f), NEW t \in Kinds, NEW crop, Region(crop), NEW trim \in BOOLEAN, Side,
         NEW c \in DOMAIN f.factors, NEW p \in Tran!Seen(Tran!jpegtran(f, t, crop, trim), c)
  PROVE  Tran!jpegtran(f, t, crop, trim).samples[c][p] =
           f.samples[c][TakenFrom(t, Tran!Info(f, t, crop, trim), c, p)]
<1> DEFINE info == Tran!Info(f, t, crop, trim)
           g == Tran!jpegtran(f, t, crop, trim)
           h == info.factors[c][1]
           v == info.factors[c][2]
           D == TranSize
           mw == Tran!max_h(info.factors)
           mh == Tran!max_v(info.factors)
<1>1. PICK k : /\ k.width = g.width /\ k.height = g.height /\ k.factors = g.factors
               /\ g.samples = Tran!Transformed(f, t, info, k)
  BY Written
<1>2. WellFormed(g) /\ g.factors = info.factors /\ DOMAIN g.factors = DOMAIN f.factors
  BY Written
<1>3. /\ info.x \in Nat /\ info.y \in Nat /\ info.cols \in Nat /\ info.rows \in Nat
  BY InfoIs
<1>4. p \in Tran!Seen(g, c)
  OBVIOUS
<1> HIDE DEF info, g
<1>5. /\ h \in 1 .. 4 /\ v \in 1 .. 4 /\ mw \in 1 .. 4 /\ mh \in 1 .. 4 /\ g.width \in Nat /\ g.height \in Nat
  BY <1>2, FactorsAre DEF WellFormed
<1> HIDE DEF h, v, mw, mh
<1>6. /\ p = <<p[1], p[2]>>
      /\ p[1] \in 0 .. Tran!Up(g.width * h, mw) - 1 /\ p[2] \in 0 .. Tran!Up(g.height * v, mh) - 1
  BY <1>2, <1>4 DEF Tran!Seen, h, v, mw, mh
<1>7. /\ Tran!Up(g.width * h, mw) \in Nat /\ Tran!Up(g.height * v, mh) \in Nat
  <2>1. g.width * h \in Nat /\ g.height * v \in Nat /\ mw \in Nat \ {0} /\ mh \in Nat \ {0}
    BY <1>5
  <2>2. \A a \in Nat, e \in Nat \ {0} : Tran!Up(a, e) \in Nat
    BY UpTo
  <2> QED BY <2>1, <2>2
<1>8. /\ p[1] \in Nat /\ p[2] \in Nat
      /\ p[1] < Tran!Up(g.width * h, mw) /\ p[2] < Tran!Up(g.height * v, mh)
  BY <1>6, <1>7
<1>9. /\ p[1] < Tran!Up(g.width, mw * D) * h * D /\ p[1] \div D < Tran!Up(g.width * h, mw * D)
      /\ p[2] < Tran!Up(g.height, mh * D) * v * D /\ p[2] \div D < Tran!Up(g.height * v, mh * D)
  BY <1>5, <1>8, SeenIsThere
<1> DEFINE bx == p[1] \div D  by == p[2] \div D  u == p[1] % D  w == p[2] % D
<1>10. D \in Nat \ {0}
  BY DEF Side
<1>11. /\ bx \in Nat /\ by \in Nat /\ u \in 0 .. D - 1 /\ w \in 0 .. D - 1
  BY <1>8, <1>10, Division
<1>12. /\ Tran!PaddedWidth(k, c) = Tran!Up(g.width, mw * D) * h * D
       /\ Tran!PaddedHeight(k, c) = Tran!Up(g.height, mh * D) * v * D
       /\ Tran!width_in_blocks(k, c) = Tran!Up(g.width * h, mw * D)
       /\ Tran!height_in_blocks(k, c) = Tran!Up(g.height * v, mh * D)
  BY <1>1, <1>2 DEF Tran!PaddedWidth, Tran!PaddedHeight, Tran!width_in_blocks, Tran!height_in_blocks, h, v, mw, mh
<1> DEFINE wib == Tran!width_in_blocks(k, c)  hib == Tran!height_in_blocks(k, c)
           pw == Tran!PaddedWidth(k, c)  ph == Tran!PaddedHeight(k, c)
<1>13. Tran!Up(g.width, mw * D) \in Nat /\ Tran!Up(g.height, mh * D) \in Nat
  <2>1. mw * D \in Nat \ {0} /\ mh * D \in Nat \ {0}
    BY <1>5, <1>10
  <2> HIDE DEF D
  <2>2. \A a \in Nat, i \in Nat \ {0} : Tran!Up(a, i) \in Nat
    BY UpTo
  <2> QED BY <1>5, <2>1, <2>2
<1>14. pw \in Nat /\ ph \in Nat /\ wib \in Nat /\ hib \in Nat
  <2>1. g.width * h \in Nat /\ g.height * v \in Nat /\ mw * D \in Nat \ {0} /\ mh * D \in Nat \ {0}
    BY <1>5, <1>10
  <2>2. wib \in Nat /\ hib \in Nat
    BY <1>12, <2>1, UpTo
  <2> QED BY <1>5, <1>10, <1>12, <1>13, <2>2
<1>15. p \in (0 .. pw - 1) \X (0 .. ph - 1)
  BY <1>6, <1>8, <1>9, <1>12, <1>14
<1>16. ~(bx >= wib \/ by >= hib)
  BY <1>9, <1>11, <1>12, <1>14
<1>17. g.samples[c] = [q \in (0 .. pw - 1) \X (0 .. ph - 1) |->
        LET x == q[1] \div D  y == q[2] \div D IN
        IF x >= wib \/ y >= hib THEN Tran!Dummy
        ELSE f.samples[c][Tran!SampleOf(Tran!BlockFor(t, x + info.x * h, y + info.y * v, info.cols * h, info.rows * v),
                                   q[1] % D, q[2] % D)]]
  BY <1>1 DEF Tran!Transformed, h, v
<1>18. g.samples[c][p] =
        f.samples[c][Tran!SampleOf(Tran!BlockFor(t, bx + info.x * h, by + info.y * v, info.cols * h, info.rows * v), u, w)]
  BY <1>15, <1>16, <1>17
<1>19. /\ bx + info.x * h \in Nat /\ by + info.y * v \in Nat /\ info.cols * h \in Nat /\ info.rows * v \in Nat
  BY <1>3, <1>5, <1>11
<1>20. /\ (bx + info.x * h) * D + u = p[1] + info.x * h * D
       /\ (by + info.y * v) * D + w = p[2] + info.y * v * D
  BY <1>3, <1>5, <1>8, MovedBy
<1>a. \A a, b, i, j \in Nat : \A q, r \in 0 .. D - 1 :
       Tran!SampleOf(Tran!BlockFor(t, a, b, i, j), q, r) = Where(t, a * D + q, b * D + r, i * D, j * D)
  BY SampleIsAt
<1>21. Tran!SampleOf(Tran!BlockFor(t, bx + info.x * h, by + info.y * v, info.cols * h, info.rows * v), u, w)
         = Where(t, (bx + info.x * h) * D + u, (by + info.y * v) * D + w, info.cols * h * D, info.rows * v * D)
  <2> DEFINE a == bx + info.x * h  b == by + info.y * v  i == info.cols * h  j == info.rows * v
  <2>1. a \in Nat /\ b \in Nat /\ i \in Nat /\ j \in Nat
    BY <1>19
  <2>2. u \in 0 .. D - 1 /\ w \in 0 .. D - 1
    BY <1>11
  <2> HIDE DEF a, b, i, j, u, w, D
  <2>3. Tran!SampleOf(Tran!BlockFor(t, a, b, i, j), u, w) = Where(t, a * D + u, b * D + w, i * D, j * D)
    BY <2>1, <2>2, <1>a
  <2> QED BY <2>3 DEF a, b, i, j
<1> QED BY <1>18, <1>20, <1>21 DEF TakenFrom, g, info, h, v
-----------------------------------------------------------------------------
(* The iMCUs of the destination are those of the source, turned over; a    *)
(* single component counts as 1x1.                                         *)
LEMMA DestinationSides ==
  ASSUME NEW f, WellFormed(f), NEW t
  PROVE  LET fs == Tran!DestinationFactors(f, t) IN
         /\ Len(f.factors) = 1 => Tran!max_h(fs) = 1 /\ Tran!max_v(fs) = 1
         /\ Len(f.factors) # 1 /\ t \in Tran!Transposing =>
              Tran!max_h(fs) = Tran!max_v(f.factors) /\ Tran!max_v(fs) = Tran!max_h(f.factors)
         /\ Len(f.factors) # 1 /\ t \notin Tran!Transposing => fs = f.factors
<1> DEFINE fs == Tran!DestinationFactors(f, t)
<1>1. CASE Len(f.factors) = 1
  <2>1. fs = << <<1, 1>> >>
    BY <1>1 DEF Tran!DestinationFactors
  <2>2. {fs[c][1] : c \in DOMAIN fs} = {1} /\ {fs[c][2] : c \in DOMAIN fs} = {1}
    BY <2>1
  <2> HIDE DEF fs
  <2>3. Tran!Largest({1}) = 1
    BY LargestIs
  <2>4. Tran!max_h(fs) = 1 /\ Tran!max_v(fs) = 1
    BY <2>2, <2>3 DEF Tran!max_h, Tran!max_v
  <2> QED BY <1>1, <2>4 DEF fs
<1>2. CASE Len(f.factors) # 1 /\ t \in Tran!Transposing
  <2> DEFINE gs == f.factors
  <2>1. fs = [c \in DOMAIN gs |-> <<gs[c][2], gs[c][1]>>]
    BY <1>2 DEF Tran!DestinationFactors
  <2> HIDE DEF gs, fs
  <2>2. DOMAIN fs = DOMAIN gs /\ \A c \in DOMAIN gs : fs[c][1] = gs[c][2] /\ fs[c][2] = gs[c][1]
    BY <2>1
  <2>3. {fs[c][1] : c \in DOMAIN fs} = {gs[c][2] : c \in DOMAIN gs}
    BY <2>2
  <2>4. {fs[c][2] : c \in DOMAIN fs} = {gs[c][1] : c \in DOMAIN gs}
    BY <2>2
  <2>5. Tran!max_h(fs) = Tran!max_v(gs) /\ Tran!max_v(fs) = Tran!max_h(gs)
    BY <2>3, <2>4 DEF Tran!max_h, Tran!max_v
  <2> QED BY <1>2, <2>5 DEF fs, gs
<1>3. CASE Len(f.factors) # 1 /\ t \notin Tran!Transposing
  BY <1>3 DEF Tran!DestinationFactors
<1> QED BY <1>1, <1>2, <1>3

(* Whole iMCUs are whole when they are counted in blocks.                  *)
LEMMA DividesToo ==
  ASSUME NEW a \in Nat, NEW k \in Nat \ {0}, Side, a % (k * TranSize) = 0
  PROVE  a % TranSize = 0
<1> DEFINE D == TranSize  n == a \div (k * D)
<1>1. D \in Nat \ {0} /\ k * D \in Nat \ {0}
  BY DEF Side
<1>2. n \in Nat /\ a = (k * D) * n + (a % (k * D))
  BY <1>1, Division
<1> HIDE DEF n, D
<1>3. a % (k * D) = 0
  BY DEF D
<1>4. a = (k * n) * D + 0 /\ k * n \in Nat /\ 0 \in Nat /\ 0 < D
  <2>1. a = (k * D) * n
    BY <1>1, <1>2, <1>3
  <2> QED BY <1>1, <1>2, <2>1
<1>5. ((k * n) * D + 0) % D = 0
  BY <1>1, <1>4, Place
<1> QED BY <1>4, <1>5 DEF D

(* A command that is not refused leaves nothing seen that it could not     *)
(* mirror, along each side.                                                *)
LEMMA InsideX ==
  ASSUME NEW f, WellFormed(f), NEW t \in Kinds, NEW crop, Region(crop), NEW trim \in BOOLEAN, Side,
         ~Tran!Refused(f, t, crop, ~trim), t \in Tran!MirrorsX,
         Tran!Info(f, t, crop, trim).x < Tran!Info(f, t, crop, trim).cols
  PROVE  LET info == Tran!Info(f, t, crop, trim)
             mw == Tran!max_h(info.factors) * TranSize IN
         info.x * mw + info.width <= info.cols * mw
<1> DEFINE info == Tran!Info(f, t, crop, trim)
           fs == Tran!DestinationFactors(f, t)
           mw == Tran!max_h(fs) * TranSize
           fullw == IF t \in Tran!Transposing THEN f.height ELSE f.width
           w == IF crop = Tran!NoCrop THEN fullw ELSE crop.width + (crop.x % mw)
<1>1. /\ info.factors = fs
      /\ info.x = (IF crop = Tran!NoCrop THEN 0 ELSE crop.x \div mw)
      /\ info.cols = fullw \div mw
      /\ info.width = IF trim THEN Tran!Trimmed(w, fullw, info.x, mw) ELSE w
      /\ mw \in Nat \ {0} /\ fullw \in Nat
      /\ w \in Nat /\ info.x \in Nat /\ info.cols \in Nat
  BY InfoIs
<1>2. crop # Tran!NoCrop => crop.x + crop.width <= fullw /\ crop.x \in Nat /\ crop.width \in Nat
  BY DEF Tran!Refused, Tran!BadCrop, Region, WellFormed
<1>3. ~trim => fullw % mw = 0
  <2>1. Tran!max_h(f.factors) \in Nat \ {0} /\ Tran!max_v(f.factors) \in Nat \ {0}
    BY FactorsAre DEF WellFormed
  <2>2. ASSUME ~trim, t \in Tran!Transposing PROVE f.height % mw = 0
    <3>1. f.height % (Tran!max_v(f.factors) * TranSize) = 0
      BY <2>2 DEF Tran!Refused, Tran!Perfect
    <3>2. f.height % TranSize = 0
      BY <3>1, <2>1, DividesToo DEF WellFormed
    <3> QED BY <2>2, <3>1, <3>2, DestinationSides DEF Side
  <2>3. ASSUME ~trim, t \notin Tran!Transposing PROVE f.width % mw = 0
    <3>1. f.width % (Tran!max_h(f.factors) * TranSize) = 0
      BY <2>3 DEF Tran!Refused, Tran!Perfect
    <3>2. f.width % TranSize = 0
      BY <3>1, <2>1, DividesToo DEF WellFormed
    <3> QED BY <2>3, <3>1, <3>2, DestinationSides DEF Side
  <2> QED BY <2>2, <2>3
<1>7. info.x < info.cols
  OBVIOUS
<1> HIDE DEF mw, fullw, info, fs
<1>4. info.x * mw + w <= fullw
  <2>1. CASE crop = Tran!NoCrop
    BY <1>1, <2>1
  <2>2. CASE crop # Tran!NoCrop
    <3> DEFINE r == crop.x % mw  x == crop.x \div mw
    <3>1. r \in Nat /\ x \in Nat /\ crop.x = mw * x + r
      BY <1>1, <1>2, <2>2, Division
    <3> HIDE DEF r, x
    <3>2. w = crop.width + r /\ info.x = x
      BY <1>1, <2>2 DEF r, x
    <3> QED BY <1>1, <1>2, <2>2, <3>1, <3>2
  <2> QED BY <2>1, <2>2
<1> HIDE DEF w
<1>5. info.x * mw + (IF trim THEN Tran!Trimmed(w, fullw, info.x, mw) ELSE w) <= (fullw \div mw) * mw
  BY <1>1, <1>3, <1>4, <1>7, Whole
<1>6. info.x * mw + info.width <= info.cols * mw
  BY <1>1, <1>5
<1> QED BY <1>1, <1>6 DEF info, mw, fs

LEMMA InsideY ==
  ASSUME NEW f, WellFormed(f), NEW t \in Kinds, NEW crop, Region(crop), NEW trim \in BOOLEAN, Side,
         ~Tran!Refused(f, t, crop, ~trim), t \in Tran!MirrorsY,
         Tran!Info(f, t, crop, trim).y < Tran!Info(f, t, crop, trim).rows
  PROVE  LET info == Tran!Info(f, t, crop, trim)
             mh == Tran!max_v(info.factors) * TranSize IN
         info.y * mh + info.height <= info.rows * mh
<1> DEFINE info == Tran!Info(f, t, crop, trim)
           fs == Tran!DestinationFactors(f, t)
           mh == Tran!max_v(fs) * TranSize
           fullh == IF t \in Tran!Transposing THEN f.width ELSE f.height
           h == IF crop = Tran!NoCrop THEN fullh ELSE crop.height + (crop.y % mh)
<1>1. /\ info.factors = fs
      /\ info.y = (IF crop = Tran!NoCrop THEN 0 ELSE crop.y \div mh)
      /\ info.rows = fullh \div mh
      /\ info.height = IF trim THEN Tran!Trimmed(h, fullh, info.y, mh) ELSE h
      /\ mh \in Nat \ {0} /\ fullh \in Nat
      /\ h \in Nat /\ info.y \in Nat /\ info.rows \in Nat
  BY InfoIs
<1>2. crop # Tran!NoCrop => crop.y + crop.height <= fullh /\ crop.y \in Nat /\ crop.height \in Nat
  BY DEF Tran!Refused, Tran!BadCrop, Region, WellFormed
<1>3. ~trim => fullh % mh = 0
  <2>1. Tran!max_v(f.factors) \in Nat \ {0} /\ Tran!max_h(f.factors) \in Nat \ {0}
    BY FactorsAre DEF WellFormed
  <2>2. ASSUME ~trim, t \in Tran!Transposing PROVE f.width % mh = 0
    <3>1. f.width % (Tran!max_h(f.factors) * TranSize) = 0
      BY <2>2 DEF Tran!Refused, Tran!Perfect
    <3>2. f.width % TranSize = 0
      BY <3>1, <2>1, DividesToo DEF WellFormed
    <3> QED BY <2>2, <3>1, <3>2, DestinationSides DEF Side
  <2>3. ASSUME ~trim, t \notin Tran!Transposing PROVE f.height % mh = 0
    <3>1. f.height % (Tran!max_v(f.factors) * TranSize) = 0
      BY <2>3 DEF Tran!Refused, Tran!Perfect
    <3>2. f.height % TranSize = 0
      BY <3>1, <2>1, DividesToo DEF WellFormed
    <3> QED BY <2>3, <3>1, <3>2, DestinationSides DEF Side
  <2> QED BY <2>2, <2>3
<1>7. info.y < info.rows
  OBVIOUS
<1> HIDE DEF mh, fullh, info, fs
<1>4. info.y * mh + h <= fullh
  <2>1. CASE crop = Tran!NoCrop
    BY <1>1, <2>1
  <2>2. CASE crop # Tran!NoCrop
    <3> DEFINE r == crop.y % mh  y == crop.y \div mh
    <3>1. r \in Nat /\ y \in Nat /\ crop.y = mh * y + r
      BY <1>1, <1>2, <2>2, Division
    <3> HIDE DEF r, y
    <3>2. h = crop.height + r /\ info.y = y
      BY <1>1, <2>2 DEF r, y
    <3> QED BY <1>1, <1>2, <2>2, <3>1, <3>2
  <2> QED BY <2>1, <2>2
<1> HIDE DEF h
<1>5. info.y * mh + (IF trim THEN Tran!Trimmed(h, fullh, info.y, mh) ELSE h) <= (fullh \div mh) * mh
  BY <1>1, <1>3, <1>4, <1>7, Whole
<1>6. info.y * mh + info.height <= info.rows * mh
  BY <1>1, <1>5
<1> QED BY <1>1, <1>6 DEF info, mh, fs

(* Where geometry takes a sample from.                                     *)
Source(f, t, crop, c, p) ==
  LET info == Tran!Info(f, t, crop, FALSE)
      h == info.factors[c][1]  v == info.factors[c][2]
      w0 == (IF t \in Tran!Transposing THEN info.rows * v ELSE info.cols * h) * TranSize
      h0 == (IF t \in Tran!Transposing THEN info.cols * h ELSE info.rows * v) * TranSize IN
  Tran!Moved(t, w0, h0, p[1] + info.x * h * TranSize, p[2] + info.y * v * TranSize)

(* Something of what is put out can be mirrored. *)
Mirrorable(f, t, crop) ==
  LET info == Tran!Info(f, t, crop, FALSE) IN
  (t \in Tran!MirrorsX => info.x < info.cols) /\ (t \in Tran!MirrorsY => info.y < info.rows)

(* A sample put out by a command that is not refused is the one geometry   *)
(* takes.                                                                  *)
LEMMA Placed ==
  ASSUME NEW f, WellFormed(f), NEW t \in Kinds, NEW crop, Region(crop), NEW trim \in BOOLEAN, Side,
         ~Tran!Refused(f, t, crop, ~trim),
         Mirrorable(f, t, crop),
         NEW c \in DOMAIN Tran!jpegtran(f, t, crop, trim).factors,
         NEW p \in Tran!Seen(Tran!jpegtran(f, t, crop, trim), c)
  PROVE  Tran!jpegtran(f, t, crop, trim).samples[c][p] = f.samples[c][Source(f, t, crop, c, p)]
<1> DEFINE info == Tran!Info(f, t, crop, trim)
           info0 == Tran!Info(f, t, crop, FALSE)
           g == Tran!jpegtran(f, t, crop, trim)
           h == info.factors[c][1]
           v == info.factors[c][2]
           mw == Tran!max_h(info.factors)
           mh == Tran!max_v(info.factors)
           D == TranSize
<1>1. /\ info.factors = info0.factors /\ info.x = info0.x /\ info.y = info0.y
      /\ info.cols = info0.cols /\ info.rows = info0.rows
  BY DEF Tran!Info
<1>2. /\ WellFormed(g) /\ g.width = info.width /\ g.height = info.height /\ g.factors = info.factors
      /\ DOMAIN g.factors = DOMAIN f.factors
  BY Written
<1>3. /\ info.x \in Nat /\ info.y \in Nat /\ info.cols \in Nat /\ info.rows \in Nat
  BY InfoIs
<1>4. g.samples[c][p] = f.samples[c][Where(t, p[1] + info.x * h * D, p[2] + info.y * v * D,
                                           info.cols * h * D, info.rows * v * D)]
  <2>1. g.samples[c][p] = f.samples[c][TakenFrom(t, info, c, p)]
    BY <1>2, SampleTaken
  <2> QED BY <2>1 DEF TakenFrom
<1>5. t \in Tran!MirrorsX => info.x * (mw * D) + g.width <= info.cols * (mw * D)
  <2>1. t \in Tran!MirrorsX => info.x < info.cols
    BY <1>1 DEF Mirrorable
  <2> QED BY <1>2, <2>1, InsideX
<1>6. t \in Tran!MirrorsY => info.y * (mh * D) + g.height <= info.rows * (mh * D)
  <2>1. t \in Tran!MirrorsY => info.y < info.rows
    BY <1>1 DEF Mirrorable
  <2> QED BY <1>2, <2>1, InsideY
<1>7. p \in Tran!Seen(g, c)
  OBVIOUS
<1> HIDE DEF info, info0, g
<1>8. /\ h \in 1 .. 4 /\ v \in 1 .. 4 /\ mw \in 1 .. 4 /\ mh \in 1 .. 4 /\ g.width \in Nat /\ g.height \in Nat
  <2>1. c \in DOMAIN info.factors /\ info.factors \in Seq(Ratios) /\ info.factors # <<>>
    BY <1>2 DEF WellFormed, g
  <2> QED BY <1>2, <2>1, FactorsAre DEF WellFormed
<1> HIDE DEF h, v, mw, mh
<1>9. p[1] \in 0 .. Tran!Up(g.width * h, mw) - 1 /\ p[2] \in 0 .. Tran!Up(g.height * v, mh) - 1
  BY <1>2, <1>7 DEF Tran!Seen, h, v, mw, mh
<1>10. /\ g.width * h \in Nat /\ g.height * v \in Nat /\ mw \in Nat \ {0} /\ mh \in Nat \ {0}
  BY <1>8
<1>11. \A a \in Nat, k \in Nat \ {0} : Tran!Up(a, k) \in Nat
  BY UpTo
<1>12. /\ p[1] \in Nat /\ p[2] \in Nat
       /\ p[1] < Tran!Up(g.width * h, mw) /\ p[2] < Tran!Up(g.height * v, mh)
  <2>1. Tran!Up(g.width * h, mw) \in Nat /\ Tran!Up(g.height * v, mh) \in Nat
    BY <1>10, <1>11
  <2> QED BY <1>9, <2>1
<1>13. p[1] * mw < g.width * h /\ p[2] * mh < g.height * v
  BY <1>8, <1>12, SeenIsThere
<1> DEFINE qx == p[1] + info.x * h * D  sx == info.cols * h * D
           qy == p[2] + info.y * v * D  sy == info.rows * v * D
<1>14. t \in Tran!MirrorsX => qx < sx
  BY <1>3, <1>5, <1>8, <1>12, <1>13, MirroredIn
<1>15. t \in Tran!MirrorsY => qy < sy
  BY <1>3, <1>6, <1>8, <1>12, <1>13, MirroredIn
<1> DEFINE w0 == (IF t \in Tran!Transposing THEN info.rows * v ELSE info.cols * h) * D
           h0 == (IF t \in Tran!Transposing THEN info.cols * h ELSE info.rows * v) * D
<1>16. /\ t \in Tran!Transposing => w0 = sy /\ h0 = sx
       /\ t \notin Tran!Transposing => w0 = sx /\ h0 = sy
  OBVIOUS
<1> HIDE DEF qx, sx, qy, sy, w0, h0
<1>17. Where(t, qx, qy, sx, sy) = Tran!Moved(t, w0, h0, qx, qy)
  BY <1>14, <1>15, <1>16
  DEF Where, Flip, Tran!Moved, Kinds, Tran!Plain, Tran!Transposing, Tran!MirrorsX, Tran!MirrorsY
<1> QED BY <1>1, <1>4, <1>17 DEF Source, g, info, info0, h, v, qx, sx, qy, sy, w0, h0

TranInv ==
  /\ t_attempt \in {"none", "idle", "perfect", "trim", "done", "failed"}
  /\ t_command.transform \in Kinds /\ Region(t_command.crop)
  /\ t_attempt # "none" => WellFormed(t_photo) /\ WellFormed(t_file)
  /\ t_attempt = "perfect" => t_file = t_photo
  /\ t_attempt = "trim" /\ ~t_photo.damaged => t_file = t_photo
  /\ t_attempt = "done" /\ ~t_photo.damaged =>
       \E trim \in BOOLEAN :
         /\ ~Tran!Refused(t_photo, t_command.transform, t_command.crop, ~trim)
         /\ t_file = Tran!jpegtran(t_photo, t_command.transform, t_command.crop, trim)

(* What the assumption on the frames gives.                                *)
LEMMA TranSideHolds == Side /\ \A c \in Crops \cup {Tran!NoCrop} : Region(c)
<1>1. Side
  BY FramesAssumption DEF Side, Tran!FramesAssumption
<1>2. \A c \in Crops : c.width \in Nat /\ c.height \in Nat /\ c.x \in Nat /\ c.y \in Nat
  BY FramesAssumption DEF Tran!FramesAssumption
<1>3. \A c \in Crops : Region(c)
  BY <1>2 DEF Region
<1>4. Region(Tran!NoCrop)
  BY DEF Region
<1> QED BY <1>1, <1>3, <1>4

(* TranInv holds at first, and each step keeps it.                         *)
LEMMA TranInit == Tran!Init => TranInv
<1>1. Region(Tran!NoCrop) /\ "JXFORM_NONE" \in Kinds
  BY DEF Region, Kinds, Tran!Plain
<1> QED BY <1>1 DEF Tran!Init, TranInv

LEMMA TranStep == ASSUME TranInv, Tran!Next PROVE TranInv'
<1>1. ASSUME NEW f \in Frames, NEW s, NEW d \in BOOLEAN, Tran!Open(f, s, d) PROVE TranInv'
  <2>1. WellFormed(Tran!Photo(f, s, d))
    BY FramesAssumption DEF Tran!FramesAssumption, WellFormed, Tran!Photo, Ratios
  <2> QED BY <1>1, <2>1 DEF Tran!Open, TranInv
<1>2. ASSUME NEW t \in Kinds, NEW c \in Crops \cup {Tran!NoCrop}, Tran!CallJPEGTranTryPerfect(t, c) PROVE TranInv'
  BY <1>2, TranSideHolds DEF Tran!CallJPEGTranTryPerfect, TranInv
<1>3. \A trim \in BOOLEAN : \A t \in Kinds : \A f : \A c : WellFormed(f) /\ Region(c) => WellFormed(Tran!jpegtran(f, t, c, trim))
  BY TranSideHolds, Written
<1>4. CASE Tran!subCallPerfect
  <2> DEFINE t == t_command.transform  c == t_command.crop  refused == Tran!Refused(t_file, t, c, TRUE)
  <2>1. /\ t_attempt = "perfect" /\ UNCHANGED <<t_photo, t_command>>
        /\ t_file' = (IF refused THEN t_file ELSE Tran!jpegtran(t_file, t, c, FALSE))
        /\ t_attempt' = IF refused \/ t_file.damaged THEN "trim" ELSE "done"
    BY <1>4 DEF Tran!subCallPerfect
  <2>2. /\ t \in Kinds /\ Region(c) /\ WellFormed(t_photo) /\ WellFormed(t_file) /\ t_file = t_photo
    BY <2>1 DEF TranInv
  <2>3. WellFormed(Tran!jpegtran(t_file, t, c, FALSE))
    BY <1>3, <2>2
  <2> HIDE DEF refused
  <2>4. CASE refused
    BY <2>1, <2>2, <2>4 DEF TranInv
  <2>5. CASE ~refused
    <3>1. ~t_photo.damaged => ~Tran!Refused(t_photo, t, c, ~FALSE)
      BY <2>2, <2>5 DEF refused
    <3> QED BY <2>1, <2>2, <2>3, <2>5, <3>1 DEF TranInv
  <2> QED BY <2>4, <2>5
<1>5. CASE Tran!subCallTrim
  <2> DEFINE t == t_command.transform  c == t_command.crop  refused == Tran!Refused(t_file, t, c, FALSE)
  <2>1. /\ t_attempt = "trim" /\ UNCHANGED <<t_photo, t_command>>
        /\ t_file' = (IF refused THEN t_file ELSE Tran!jpegtran(t_file, t, c, TRUE))
        /\ t_attempt' = IF refused \/ t_file.damaged THEN "failed" ELSE "done"
    BY <1>5 DEF Tran!subCallTrim
  <2>2. /\ t \in Kinds /\ Region(c) /\ WellFormed(t_photo) /\ WellFormed(t_file)
        /\ ~t_photo.damaged => t_file = t_photo
    BY <2>1 DEF TranInv
  <2>3. WellFormed(Tran!jpegtran(t_file, t, c, TRUE))
    BY <1>3, <2>2
  <2> HIDE DEF refused
  <2>4. CASE refused
    BY <2>1, <2>2, <2>4 DEF TranInv
  <2>5. CASE ~refused
    <3>1. ~t_photo.damaged => ~Tran!Refused(t_photo, t, c, ~TRUE)
      BY <2>2, <2>5 DEF refused
    <3> QED BY <2>1, <2>2, <2>3, <2>5, <3>1 DEF TranInv
  <2> QED BY <2>4, <2>5
<1> QED BY <1>1, <1>2, <1>4, <1>5 DEF Tran!Next, Kinds

(* A command that is done has placed the samples.                          *)
LEMMA TranPlaces == TranInv => SamplesPlaced
<1> SUFFICES ASSUME TranInv, t_attempt = "done", ~t_photo.damaged
             PROVE  SamplesPlaced
  BY DEF SamplesPlaced, Tran!SamplesPlaced
<1>1. PICK trim \in BOOLEAN :
        /\ ~Tran!Refused(t_photo, t_command.transform, t_command.crop, ~trim)
        /\ t_file = Tran!jpegtran(t_photo, t_command.transform, t_command.crop, trim)
  BY DEF TranInv
<1>2. WellFormed(t_photo) /\ t_command.transform \in Kinds /\ Region(t_command.crop) /\ Side
  BY TranSideHolds DEF TranInv
<1> DEFINE t == t_command.transform  crop == t_command.crop
           info == Tran!Info(t_photo, t, crop, FALSE)
<1> SUFFICES ASSUME t \in Tran!MirrorsX => info.x < info.cols,
                    t \in Tran!MirrorsY => info.y < info.rows,
                    NEW c \in DOMAIN t_file.factors, NEW p \in Tran!Seen(t_file, c)
             PROVE  t_file.samples[c][p] = t_photo.samples[c][Source(t_photo, t, crop, c, p)]
  BY DEF SamplesPlaced, Tran!SamplesPlaced, Source
<1>3. c \in DOMAIN Tran!jpegtran(t_photo, t, crop, trim).factors /\ p \in Tran!Seen(Tran!jpegtran(t_photo, t, crop, trim), c)
  BY <1>1
<1>4. /\ t_file = Tran!jpegtran(t_photo, t, crop, trim)
      /\ ~Tran!Refused(t_photo, t, crop, ~trim)
      /\ WellFormed(t_photo) /\ t \in Kinds /\ Region(crop) /\ Side
  BY <1>1, <1>2
<1>5. Mirrorable(t_photo, t, crop)
  BY DEF Mirrorable
<1> HIDE DEF t, crop
<1>6. Tran!jpegtran(t_photo, t, crop, trim).samples[c][p] = t_photo.samples[c][Source(t_photo, t, crop, c, p)]
  BY <1>3, <1>4, <1>5, Placed
<1> QED BY <1>4, <1>6

-----------------------------------------------------------------------------

(* The whole photo, what is left of it at the edges included.              *)
Turned(f, t) == Tran!jpegtran(f, t, Tran!NoCrop, FALSE)

(* How much of a component can be mirrored.                                *)
Across(g, c) == (g.width \div (Tran!max_h(g.factors) * TranSize)) * g.factors[c][1] * TranSize
Down(g, c) == (g.height \div (Tran!max_v(g.factors) * TranSize)) * g.factors[c][2] * TranSize
Alike(g, k) == g.width = k.width /\ g.height = k.height /\ g.factors = k.factors
Swapped(g, k) ==
  /\ g.width = k.height /\ g.height = k.width /\ DOMAIN g.factors = DOMAIN k.factors
  /\ Tran!max_h(g.factors) = Tran!max_v(k.factors) /\ Tran!max_v(g.factors) = Tran!max_h(k.factors)
  /\ \A c \in DOMAIN k.factors : g.factors[c][1] = k.factors[c][2] /\ g.factors[c][2] = k.factors[c][1]

(* A single component that has been written counts as 1x1.                 *)
Normal(f) == Len(f.factors) = 1 => f.factors = << <<1, 1>> >>

(* The frame of a photo that is turned.                                    *)
LEMMA TurnedIs ==
  ASSUME NEW f, WellFormed(f), NEW t, Side
  PROVE  /\ WellFormed(Turned(f, t)) /\ DOMAIN Turned(f, t).factors = DOMAIN f.factors
         /\ Turned(f, t).width = IF t \in Tran!Transposing THEN f.height ELSE f.width
         /\ Turned(f, t).height = IF t \in Tran!Transposing THEN f.width ELSE f.height
         /\ Turned(f, t).factors = Tran!DestinationFactors(f, t)
<1>1. Region(Tran!NoCrop)
  BY DEF Region
<1> DEFINE info == Tran!Info(f, t, Tran!NoCrop, FALSE)
<1>2. /\ info.factors = Tran!DestinationFactors(f, t)
      /\ info.width = IF t \in Tran!Transposing THEN f.height ELSE f.width
      /\ info.height = IF t \in Tran!Transposing THEN f.width ELSE f.height
  BY DEF Tran!Info
<1>3. /\ WellFormed(Turned(f, t)) /\ DOMAIN Turned(f, t).factors = DOMAIN f.factors
      /\ Turned(f, t).width = info.width /\ Turned(f, t).height = info.height
      /\ Turned(f, t).factors = info.factors
  BY <1>1, Written DEF Turned
<1> QED BY <1>2, <1>3

(* It has the same number of components.                                   *)
LEMMA SameLength ==
  ASSUME NEW f, WellFormed(f), NEW t, Side
  PROVE  Len(Turned(f, t).factors) = Len(f.factors)
<1>1. /\ Turned(f, t).factors \in Seq(Ratios) /\ f.factors \in Seq(Ratios)
      /\ DOMAIN Turned(f, t).factors = DOMAIN f.factors
  BY TurnedIs DEF WellFormed
<1> DEFINE a == Turned(f, t).factors  b == f.factors
<1>2. /\ Len(a) \in Nat /\ Len(b) \in Nat /\ 1 .. Len(a) = 1 .. Len(b)
  BY <1>1, LenProperties
<1>3. \A m, n \in Nat : 1 .. m = 1 .. n => m = n
  <2> SUFFICES ASSUME NEW m \in Nat, NEW n \in Nat, 1 .. m = 1 .. n, m # n PROVE FALSE
    OBVIOUS
  <2>1. CASE m < n
    <3>1. n \in 1 .. n /\ n \notin 1 .. m
      BY <2>1
    <3> QED BY <3>1
  <2>2. CASE n < m
    <3>1. m \in 1 .. m /\ m \notin 1 .. n
      BY <2>2
    <3> QED BY <3>1
  <2> QED BY <2>1, <2>2
<1> QED BY <1>2, <1>3

(* What has been written has a single component as 1x1.                    *)
LEMMA TurnedNormal ==
  ASSUME NEW f, WellFormed(f), NEW t, Side
  PROVE  Normal(Turned(f, t))
<1>1. Len(f.factors) = 1 => Turned(f, t).factors = << <<1, 1>> >>
  BY TurnedIs DEF Tran!DestinationFactors
<1> QED BY <1>1, SameLength DEF Normal

(* Turned two ways, it is alike when both transpose or neither does.       *)
LEMMA TurnedAlike ==
  ASSUME NEW f, WellFormed(f), NEW t, NEW s, Side, t \in Tran!Transposing <=> s \in Tran!Transposing
  PROVE  Alike(Turned(f, t), Turned(f, s))
<1>1. Tran!DestinationFactors(f, t) = Tran!DestinationFactors(f, s)
  BY DEF Tran!DestinationFactors
<1> QED BY <1>1, TurnedIs DEF Alike

(* The frame stays when nothing is transposed, and turns over otherwise.   *)
LEMMA TurnedKeeps ==
  ASSUME NEW f, WellFormed(f), Normal(f), NEW t, t \notin Tran!Transposing, Side
  PROVE  Alike(Turned(f, t), f)
<1>1. Tran!DestinationFactors(f, t) = f.factors
  BY DEF Tran!DestinationFactors, Normal
<1> QED BY <1>1, TurnedIs DEF Alike

LEMMA TurnedSwaps ==
  ASSUME NEW f, WellFormed(f), Normal(f), NEW t, t \in Tran!Transposing, Side
  PROVE  Swapped(Turned(f, t), f)
<1> DEFINE fs == Tran!DestinationFactors(f, t)
<1>1. /\ Turned(f, t).width = f.height /\ Turned(f, t).height = f.width
      /\ Turned(f, t).factors = fs /\ DOMAIN fs = DOMAIN f.factors
  BY TurnedIs
<1>2. CASE Len(f.factors) = 1
  <2>1. fs = << <<1, 1>> >> /\ f.factors = << <<1, 1>> >>
    BY <1>2 DEF Tran!DestinationFactors, Normal
  <2>2. \A c \in DOMAIN f.factors : fs[c][1] = f.factors[c][2] /\ fs[c][2] = f.factors[c][1]
    BY <2>1
  <2>3. Tran!max_h(fs) = 1 /\ Tran!max_v(fs) = 1
    BY <1>2, DestinationSides
  <2>4. Tran!max_h(f.factors) = 1 /\ Tran!max_v(f.factors) = 1
    BY <2>1, <2>3
  <2> QED BY <1>1, <2>2, <2>3, <2>4 DEF Swapped
<1>3. CASE Len(f.factors) # 1
  <2>1. \A c \in DOMAIN f.factors : fs[c][1] = f.factors[c][2] /\ fs[c][2] = f.factors[c][1]
    BY <1>3 DEF Tran!DestinationFactors
  <2>2. Tran!max_h(fs) = Tran!max_v(f.factors) /\ Tran!max_v(fs) = Tran!max_h(f.factors)
    BY <1>3, DestinationSides
  <2> QED BY <1>1, <2>1, <2>2 DEF Swapped
<1> QED BY <1>2, <1>3

(* Transposing at once or after a plain transform.                         *)
LEMMA TurnedAfter ==
  ASSUME NEW f, WellFormed(f), NEW t, t \in Tran!Transposing, NEW s, s \notin Tran!Transposing, Side
  PROVE  Alike(Turned(f, t), Turned(Turned(f, s), "JXFORM_TRANSPOSE"))
<1> DEFINE k == Turned(f, s)
<1>1. /\ WellFormed(k) /\ k.width = f.width /\ k.height = f.height
      /\ k.factors = Tran!DestinationFactors(f, s) /\ Len(k.factors) = Len(f.factors)
  BY TurnedIs, SameLength
<1>2. "JXFORM_TRANSPOSE" \in Tran!Transposing
  BY DEF Tran!Transposing
<1> HIDE DEF k
<1>3. Tran!DestinationFactors(k, "JXFORM_TRANSPOSE") = Tran!DestinationFactors(f, t)
  <2>1. CASE Len(f.factors) = 1
    BY <1>1, <2>1 DEF Tran!DestinationFactors
  <2>2. CASE Len(f.factors) # 1
    <3>1. k.factors = f.factors
      BY <1>1, <2>2 DEF Tran!DestinationFactors
    <3> QED BY <1>1, <1>2, <2>2, <3>1 DEF Tran!DestinationFactors
  <2> QED BY <2>1, <2>2
<1>4. Alike(Turned(f, t), Turned(k, "JXFORM_TRANSPOSE"))
  BY <1>1, <1>2, <1>3, TurnedIs DEF Alike
<1> QED BY <1>4 DEF k

(* A sample of the photo that is turned. *)
LEMMA TurnedSample ==
  ASSUME NEW f, WellFormed(f), NEW t \in Kinds, Side,
         NEW c \in DOMAIN f.factors, NEW p \in Tran!Seen(Turned(f, t), c)
  PROVE  Turned(f, t).samples[c][p] =
           f.samples[c][Where(t, p[1], p[2], Across(Turned(f, t), c), Down(Turned(f, t), c))]
<1> DEFINE info == Tran!Info(f, t, Tran!NoCrop, FALSE)
           h == info.factors[c][1]  v == info.factors[c][2]
<1>1. Region(Tran!NoCrop) /\ FALSE \in BOOLEAN
  BY DEF Region
<1>2. p \in Tran!Seen(Tran!jpegtran(f, t, Tran!NoCrop, FALSE), c)
  BY DEF Turned
<1>3. Turned(f, t).samples[c][p] =
           f.samples[c][Where(t, p[1] + info.x * h * TranSize, p[2] + info.y * v * TranSize,
                              info.cols * h * TranSize, info.rows * v * TranSize)]
  <2>1. Turned(f, t).samples[c][p] = f.samples[c][TakenFrom(t, info, c, p)]
    <3>1. \A trim \in BOOLEAN : p \in Tran!Seen(Tran!jpegtran(f, t, Tran!NoCrop, trim), c) =>
            Tran!jpegtran(f, t, Tran!NoCrop, trim).samples[c][p] =
              f.samples[c][TakenFrom(t, Tran!Info(f, t, Tran!NoCrop, trim), c, p)]
      BY <1>1, SampleTaken
    <3> QED BY <1>1, <1>2, <3>1 DEF Turned
  <2> QED BY <2>1 DEF TakenFrom
<1>4. /\ info.factors = Tran!DestinationFactors(f, t) /\ info.x = 0 /\ info.y = 0
      /\ info.cols = (IF t \in Tran!Transposing THEN f.height ELSE f.width)
                       \div (Tran!max_h(Tran!DestinationFactors(f, t)) * TranSize)
      /\ info.rows = (IF t \in Tran!Transposing THEN f.width ELSE f.height)
                       \div (Tran!max_v(Tran!DestinationFactors(f, t)) * TranSize)
  BY DEF Tran!Info
<1> HIDE DEF info
<1>5. info.cols * h * TranSize = Across(Turned(f, t), c) /\ info.rows * v * TranSize = Down(Turned(f, t), c)
  BY <1>4, TurnedIs DEF Across, Down
<1>6. /\ h \in 1 .. 4 /\ v \in 1 .. 4 /\ WellFormed(Turned(f, t)) /\ Turned(f, t).factors = info.factors
  <2>1. /\ info.factors \in Seq(Ratios) /\ info.factors # <<>> /\ c \in DOMAIN info.factors
    BY <1>4, DestinationIs
  <2> QED BY <1>4, <2>1, FactorsAre, TurnedIs
<1>7. p[1] \in Int /\ p[2] \in Int
  BY DEF Tran!Seen
<1> HIDE DEF h, v
<1>8. p[1] + info.x * h * TranSize = p[1] /\ p[2] + info.y * v * TranSize = p[2]
  BY <1>4, <1>6, <1>7 DEF Side
<1> QED BY <1>3, <1>5, <1>8

(* What is seen is seen when it is mirrored.                               *)
LEMMA FlipsWithin ==
  ASSUME Side, NEW size \in Nat, NEW m \in 1 .. 4, NEW n \in 1 .. 4, NEW p \in Nat,
         p < Tran!Up(size * n, m)
  PROVE  LET q == Flip(p, (size \div (m * TranSize)) * n * TranSize) IN
         q \in Nat /\ q < Tran!Up(size * n, m)
<1> DEFINE D == TranSize  k == size \div (m * D)  s == k * n * D  q == Flip(p, s)
<1>1. D \in Nat \ {0} /\ m \in Nat \ {0} /\ n \in Nat \ {0} /\ size * n \in Nat /\ m * D \in Nat \ {0}
  BY DEF Side
<1>2. k \in Nat /\ k * (m * D) <= size
  <2> DEFINE r == size % (m * D)
  <2>1. k \in Nat /\ r \in Nat /\ size = (m * D) * k + r
    BY <1>1, Division
  <2> HIDE DEF k, r, D
  <2> QED BY <1>1, <2>1
<1> HIDE DEF D, k
<1>3. s \in Nat
  BY <1>1, <1>2
<1>4. CASE p < s
  <2>1. q = s - 1 - p
    BY <1>4 DEF Flip
  <2>2. q \in Nat /\ q < s
    BY <1>3, <1>4, <2>1
  <2>3. s * m <= size * n
    <3>1. (k * (m * D)) * n <= size * n
      BY <1>1, <1>2
    <3>2. (k * (m * D)) * n = s * m
      BY <1>1, <1>2
    <3> QED BY <3>1, <3>2
  <2> HIDE DEF s, q
  <2>4. q * m < s * m
    BY <1>1, <1>3, <2>2, Smaller
  <2>5. q * m \in Nat /\ s * m \in Nat
    BY <1>1, <1>3, <2>2
  <2>6. q * m < size * n
    BY <1>1, <2>3, <2>4, <2>5
  <2> QED BY <1>1, <2>2, <2>6, UpTo DEF q, s, k, D
<1>5. CASE ~(p < s)
  <2>1. q = p
    BY <1>5 DEF Flip
  <2> QED BY <2>1 DEF q, s, k, D
<1> QED BY <1>4, <1>5

(* So in both directions.                                                  *)
LEMMA FlipsSeen ==
  ASSUME Side, NEW g, WellFormed(g), NEW c \in DOMAIN g.factors, NEW p \in Tran!Seen(g, c)
  PROVE  LET X == Flip(p[1], Across(g, c))  Y == Flip(p[2], Down(g, c)) IN
         <<X, p[2]>> \in Tran!Seen(g, c) /\ <<p[1], Y>> \in Tran!Seen(g, c) /\ <<X, Y>> \in Tran!Seen(g, c)
<1> DEFINE mw == Tran!max_h(g.factors)  mh == Tran!max_v(g.factors)
           h == g.factors[c][1]  v == g.factors[c][2]
           X == Flip(p[1], Across(g, c))  Y == Flip(p[2], Down(g, c))
           W == Tran!Up(g.width * h, mw)  H == Tran!Up(g.height * v, mh)
<1>1. /\ h \in 1 .. 4 /\ v \in 1 .. 4 /\ mw \in 1 .. 4 /\ mh \in 1 .. 4 /\ g.width \in Nat /\ g.height \in Nat
  BY FactorsAre DEF WellFormed
<1>2. Tran!Seen(g, c) = (0 .. W - 1) \X (0 .. H - 1)
  BY DEF Tran!Seen
<1>3. X = Flip(p[1], (g.width \div (mw * TranSize)) * h * TranSize)
      /\ Y = Flip(p[2], (g.height \div (mh * TranSize)) * v * TranSize)
  BY DEF Across, Down
<1> HIDE DEF h, v, mw, mh, X, Y
<1>4. W \in Nat /\ H \in Nat
  <2>1. g.width * h \in Nat /\ g.height * v \in Nat /\ mw \in Nat \ {0} /\ mh \in Nat \ {0}
    BY <1>1
  <2>2. \A a \in Nat, k \in Nat \ {0} : Tran!Up(a, k) \in Nat
    BY UpTo
  <2> QED BY <2>1, <2>2
<1>5. p[1] \in 0 .. W - 1 /\ p[2] \in 0 .. H - 1
  BY <1>2
<1>6. p[1] \in Nat /\ p[1] < W /\ p[2] \in Nat /\ p[2] < H
  BY <1>4, <1>5
<1>7. X \in Nat /\ X < W
  BY <1>1, <1>3, <1>6, FlipsWithin
<1>8. Y \in Nat /\ Y < H
  BY <1>1, <1>3, <1>6, FlipsWithin
<1> HIDE DEF W, H
<1>9. X \in 0 .. W - 1 /\ Y \in 0 .. H - 1
  BY <1>4, <1>7, <1>8
<1> QED BY <1>2, <1>5, <1>9 DEF X, Y

(* What is seen of like frames, and of one and the other turned over.      *)
LEMMA AlikeSeen ==
  ASSUME NEW g, NEW k, Alike(g, k), NEW c
  PROVE  Tran!Seen(g, c) = Tran!Seen(k, c) /\ Across(g, c) = Across(k, c) /\ Down(g, c) = Down(k, c)
  BY DEF Alike, Tran!Seen, Across, Down

LEMMA SwappedSeen ==
  ASSUME NEW g, NEW k, Swapped(g, k), NEW c \in DOMAIN k.factors, NEW p \in Tran!Seen(g, c)
  PROVE  /\ <<p[2], p[1]>> \in Tran!Seen(k, c)
         /\ Across(g, c) = Down(k, c) /\ Down(g, c) = Across(k, c)
  BY DEF Swapped, Tran!Seen, Across, Down

(* A place has two coordinates.                                            *)
LEMMA SeenPair ==
  ASSUME NEW g, NEW c, NEW p \in Tran!Seen(g, c)
  PROVE  p = <<p[1], p[2]>>
  BY DEF Tran!Seen

-----------------------------------------------------------------------------
(* transupp.h: the other transforms are combinations of the basic ones.    *)
LEMMA Rot90 ==
  ASSUME Side, NEW f, WellFormed(f)
  PROVE  Tran!SameSeen(Turned(f, "JXFORM_ROT_90"), Turned(Turned(f, "JXFORM_TRANSPOSE"), "JXFORM_FLIP_H"))
<1> DEFINE a == Turned(f, "JXFORM_ROT_90")
           k == Turned(f, "JXFORM_TRANSPOSE")
           g == Turned(k, "JXFORM_FLIP_H")
<1>1. /\ "JXFORM_ROT_90" \in Tran!Transposing /\ "JXFORM_TRANSPOSE" \in Tran!Transposing
      /\ "JXFORM_FLIP_H" \notin Tran!Transposing
      /\ "JXFORM_ROT_90" \in Kinds /\ "JXFORM_TRANSPOSE" \in Kinds /\ "JXFORM_FLIP_H" \in Kinds
  BY DEF Kinds, Tran!Plain, Tran!Transposing
<1>2. /\ WellFormed(k) /\ Normal(k) /\ DOMAIN k.factors = DOMAIN f.factors
      /\ WellFormed(a) /\ DOMAIN a.factors = DOMAIN f.factors
  BY TurnedIs, TurnedNormal
<1>3. WellFormed(g) /\ DOMAIN g.factors = DOMAIN f.factors
  BY <1>2, TurnedIs
<1>4. Alike(a, k)
  BY <1>1, TurnedAlike
<1>5. Alike(g, k)
  BY <1>1, <1>2, TurnedKeeps
<1>6. ASSUME NEW c \in DOMAIN a.factors, NEW p \in Tran!Seen(a, c) PROVE a.samples[c][p] = g.samples[c][p]
  <2> DEFINE X == Flip(p[1], Across(a, c))
  <2>1. a.samples[c][p] = f.samples[c][<<p[2], X>>]
    <3>1. a.samples[c][p] = f.samples[c][Where("JXFORM_ROT_90", p[1], p[2], Across(a, c), Down(a, c))]
      BY <1>1, <1>2, TurnedSample
    <3> QED BY <3>1 DEF Where
  <2>2. p \in Tran!Seen(g, c) /\ Across(g, c) = Across(a, c) /\ c \in DOMAIN g.factors /\ c \in DOMAIN k.factors
    BY <1>2, <1>3, <1>4, <1>5, AlikeSeen
  <2>3. g.samples[c][p] = k.samples[c][<<X, p[2]>>]
    <3>1. g.samples[c][p] = k.samples[c][Where("JXFORM_FLIP_H", p[1], p[2], Across(g, c), Down(g, c))]
      BY <1>1, <1>2, <2>2, TurnedSample
    <3> QED BY <2>2, <3>1 DEF Where
  <2>4. <<X, p[2]>> \in Tran!Seen(k, c)
    <3>1. <<X, p[2]>> \in Tran!Seen(g, c)
      BY <1>3, <2>2, FlipsSeen
    <3> QED BY <3>1, <1>5, AlikeSeen
  <2>5. k.samples[c][<<X, p[2]>>] = f.samples[c][<<p[2], X>>]
    <3> DEFINE q == <<X, p[2]>>
    <3>1. k.samples[c][q] = f.samples[c][Where("JXFORM_TRANSPOSE", q[1], q[2], Across(k, c), Down(k, c))]
      BY <1>1, <1>2, <2>2, <2>4, TurnedSample
    <3> QED BY <3>1 DEF Where
  <2> QED BY <2>1, <2>3, <2>5
<1> HIDE DEF a, k, g
<1>7. Tran!SameSeen(a, g)
  BY <1>4, <1>5, <1>6 DEF Tran!SameSeen, Alike
<1> QED BY <1>7 DEF a, k, g

LEMMA Rot270 ==
  ASSUME Side, NEW f, WellFormed(f)
  PROVE  Tran!SameSeen(Turned(f, "JXFORM_ROT_270"), Turned(Turned(f, "JXFORM_FLIP_H"), "JXFORM_TRANSPOSE"))
<1> DEFINE a == Turned(f, "JXFORM_ROT_270")
           k == Turned(f, "JXFORM_FLIP_H")
           g == Turned(k, "JXFORM_TRANSPOSE")
<1>1. /\ "JXFORM_ROT_270" \in Tran!Transposing /\ "JXFORM_TRANSPOSE" \in Tran!Transposing
      /\ "JXFORM_FLIP_H" \notin Tran!Transposing
      /\ "JXFORM_ROT_270" \in Kinds /\ "JXFORM_TRANSPOSE" \in Kinds /\ "JXFORM_FLIP_H" \in Kinds
  BY DEF Kinds, Tran!Plain, Tran!Transposing
<1>2. /\ WellFormed(k) /\ Normal(k) /\ DOMAIN k.factors = DOMAIN f.factors
      /\ WellFormed(a) /\ DOMAIN a.factors = DOMAIN f.factors
  BY TurnedIs, TurnedNormal
<1>3. WellFormed(g) /\ DOMAIN g.factors = DOMAIN f.factors
  BY <1>2, TurnedIs
<1>4. Alike(a, g)
  BY <1>1, TurnedAfter
<1>5. Swapped(g, k)
  BY <1>1, <1>2, TurnedSwaps
<1>6. ASSUME NEW c \in DOMAIN a.factors, NEW p \in Tran!Seen(a, c) PROVE a.samples[c][p] = g.samples[c][p]
  <2> DEFINE Y == Flip(p[2], Down(a, c))
  <2>1. a.samples[c][p] = f.samples[c][<<Y, p[1]>>]
    <3>1. a.samples[c][p] = f.samples[c][Where("JXFORM_ROT_270", p[1], p[2], Across(a, c), Down(a, c))]
      BY <1>1, <1>2, TurnedSample
    <3> QED BY <3>1 DEF Where
  <2>2. /\ p \in Tran!Seen(g, c) /\ Down(g, c) = Down(a, c)
        /\ c \in DOMAIN f.factors /\ c \in DOMAIN g.factors /\ c \in DOMAIN k.factors
    BY <1>2, <1>3, <1>4, AlikeSeen
  <2>3. g.samples[c][p] = k.samples[c][<<p[2], p[1]>>]
    <3>1. g.samples[c][p] = k.samples[c][Where("JXFORM_TRANSPOSE", p[1], p[2], Across(g, c), Down(g, c))]
      BY <1>1, <1>2, <2>2, TurnedSample
    <3> QED BY <3>1 DEF Where
  <2>4. <<p[2], p[1]>> \in Tran!Seen(k, c) /\ Down(g, c) = Across(k, c)
    BY <1>5, <2>2, SwappedSeen
  <2>5. k.samples[c][<<p[2], p[1]>>] = f.samples[c][<<Y, p[1]>>]
    <3> DEFINE q == <<p[2], p[1]>>
    <3>1. k.samples[c][q] = f.samples[c][Where("JXFORM_FLIP_H", q[1], q[2], Across(k, c), Down(k, c))]
      BY <1>1, <1>2, <2>2, <2>4, TurnedSample
    <3> QED BY <2>2, <2>4, <3>1 DEF Where
  <2> QED BY <2>1, <2>3, <2>5
<1> HIDE DEF a, k, g
<1>7. Tran!SameSeen(a, g)
  BY <1>4, <1>6 DEF Tran!SameSeen, Alike
<1> QED BY <1>7 DEF a, k, g

LEMMA Rot180 ==
  ASSUME Side, NEW f, WellFormed(f)
  PROVE  Tran!SameSeen(Turned(f, "JXFORM_ROT_180"), Turned(Turned(f, "JXFORM_FLIP_V"), "JXFORM_FLIP_H"))
<1> DEFINE a == Turned(f, "JXFORM_ROT_180")
           k == Turned(f, "JXFORM_FLIP_V")
           g == Turned(k, "JXFORM_FLIP_H")
<1>1. /\ "JXFORM_ROT_180" \notin Tran!Transposing /\ "JXFORM_FLIP_V" \notin Tran!Transposing
      /\ "JXFORM_FLIP_H" \notin Tran!Transposing
      /\ "JXFORM_ROT_180" \in Kinds /\ "JXFORM_FLIP_V" \in Kinds /\ "JXFORM_FLIP_H" \in Kinds
  BY DEF Kinds, Tran!Plain, Tran!Transposing
<1>2. /\ WellFormed(k) /\ Normal(k) /\ DOMAIN k.factors = DOMAIN f.factors
      /\ WellFormed(a) /\ DOMAIN a.factors = DOMAIN f.factors
  BY TurnedIs, TurnedNormal
<1>3. WellFormed(g) /\ DOMAIN g.factors = DOMAIN f.factors
  BY <1>2, TurnedIs
<1>4. Alike(a, k)
  BY <1>1, TurnedAlike
<1>5. Alike(g, k)
  BY <1>1, <1>2, TurnedKeeps
<1>6. ASSUME NEW c \in DOMAIN a.factors, NEW p \in Tran!Seen(a, c) PROVE a.samples[c][p] = g.samples[c][p]
  <2> DEFINE X == Flip(p[1], Across(a, c))  Y == Flip(p[2], Down(a, c))
  <2>1. a.samples[c][p] = f.samples[c][<<X, Y>>]
    <3>1. a.samples[c][p] = f.samples[c][Where("JXFORM_ROT_180", p[1], p[2], Across(a, c), Down(a, c))]
      BY <1>1, <1>2, TurnedSample
    <3> QED BY <3>1 DEF Where
  <2>2. /\ p \in Tran!Seen(g, c) /\ Across(g, c) = Across(a, c)
        /\ Across(k, c) = Across(a, c) /\ Down(k, c) = Down(a, c)
        /\ c \in DOMAIN f.factors /\ c \in DOMAIN g.factors /\ c \in DOMAIN k.factors
    BY <1>2, <1>3, <1>4, <1>5, AlikeSeen
  <2>3. g.samples[c][p] = k.samples[c][<<X, p[2]>>]
    <3>1. g.samples[c][p] = k.samples[c][Where("JXFORM_FLIP_H", p[1], p[2], Across(g, c), Down(g, c))]
      BY <1>1, <1>2, <2>2, TurnedSample
    <3> QED BY <2>2, <3>1 DEF Where
  <2>4. <<X, p[2]>> \in Tran!Seen(k, c)
    <3>1. <<X, p[2]>> \in Tran!Seen(g, c)
      BY <1>3, <2>2, FlipsSeen
    <3> QED BY <3>1, <1>5, AlikeSeen
  <2>5. k.samples[c][<<X, p[2]>>] = f.samples[c][<<X, Y>>]
    <3> DEFINE q == <<X, p[2]>>
    <3>1. k.samples[c][q] = f.samples[c][Where("JXFORM_FLIP_V", q[1], q[2], Across(k, c), Down(k, c))]
      BY <1>1, <1>2, <2>2, <2>4, TurnedSample
    <3> QED BY <2>2, <3>1 DEF Where
  <2> QED BY <2>1, <2>3, <2>5
<1> HIDE DEF a, k, g
<1>7. Tran!SameSeen(a, g)
  BY <1>4, <1>5, <1>6 DEF Tran!SameSeen, Alike
<1> QED BY <1>7 DEF a, k, g

LEMMA Transverse ==
  ASSUME Side, NEW f, WellFormed(f)
  PROVE  Tran!SameSeen(Turned(f, "JXFORM_TRANSVERSE"), Turned(Turned(f, "JXFORM_ROT_180"), "JXFORM_TRANSPOSE"))
<1> DEFINE a == Turned(f, "JXFORM_TRANSVERSE")
           k == Turned(f, "JXFORM_ROT_180")
           g == Turned(k, "JXFORM_TRANSPOSE")
<1>1. /\ "JXFORM_TRANSVERSE" \in Tran!Transposing /\ "JXFORM_TRANSPOSE" \in Tran!Transposing
      /\ "JXFORM_ROT_180" \notin Tran!Transposing
      /\ "JXFORM_TRANSVERSE" \in Kinds /\ "JXFORM_TRANSPOSE" \in Kinds /\ "JXFORM_ROT_180" \in Kinds
  BY DEF Kinds, Tran!Plain, Tran!Transposing
<1>2. /\ WellFormed(k) /\ Normal(k) /\ DOMAIN k.factors = DOMAIN f.factors
      /\ WellFormed(a) /\ DOMAIN a.factors = DOMAIN f.factors
  BY TurnedIs, TurnedNormal
<1>3. WellFormed(g) /\ DOMAIN g.factors = DOMAIN f.factors
  BY <1>2, TurnedIs
<1>4. Alike(a, g)
  BY <1>1, TurnedAfter
<1>5. Swapped(g, k)
  BY <1>1, <1>2, TurnedSwaps
<1>6. ASSUME NEW c \in DOMAIN a.factors, NEW p \in Tran!Seen(a, c) PROVE a.samples[c][p] = g.samples[c][p]
  <2> DEFINE X == Flip(p[1], Across(a, c))  Y == Flip(p[2], Down(a, c))
  <2>1. a.samples[c][p] = f.samples[c][<<Y, X>>]
    <3>1. a.samples[c][p] = f.samples[c][Where("JXFORM_TRANSVERSE", p[1], p[2], Across(a, c), Down(a, c))]
      BY <1>1, <1>2, TurnedSample
    <3> QED BY <3>1 DEF Where
  <2>2. /\ p \in Tran!Seen(g, c) /\ Down(g, c) = Down(a, c) /\ Across(g, c) = Across(a, c)
        /\ c \in DOMAIN f.factors /\ c \in DOMAIN g.factors /\ c \in DOMAIN k.factors
    BY <1>2, <1>3, <1>4, AlikeSeen
  <2>3. g.samples[c][p] = k.samples[c][<<p[2], p[1]>>]
    <3>1. g.samples[c][p] = k.samples[c][Where("JXFORM_TRANSPOSE", p[1], p[2], Across(g, c), Down(g, c))]
      BY <1>1, <1>2, <2>2, TurnedSample
    <3> QED BY <3>1 DEF Where
  <2>4. <<p[2], p[1]>> \in Tran!Seen(k, c) /\ Down(g, c) = Across(k, c) /\ Across(g, c) = Down(k, c)
    BY <1>5, <2>2, SwappedSeen
  <2>5. k.samples[c][<<p[2], p[1]>>] = f.samples[c][<<Y, X>>]
    <3> DEFINE q == <<p[2], p[1]>>
    <3>1. k.samples[c][q] = f.samples[c][Where("JXFORM_ROT_180", q[1], q[2], Across(k, c), Down(k, c))]
      BY <1>1, <1>2, <2>2, <2>4, TurnedSample
    <3> QED BY <2>2, <2>4, <3>1 DEF Where
  <2> QED BY <2>1, <2>3, <2>5
<1> HIDE DEF a, k, g
<1>7. Tran!SameSeen(a, g)
  BY <1>4, <1>6 DEF Tran!SameSeen, Alike
<1> QED BY <1>7 DEF a, k, g

(* The file is a frame that can be turned.                                 *)
LEMMA TranComposes == TranInv => TransformsCompose
<1> SUFFICES ASSUME TranInv, t_attempt \in {"idle", "done"} PROVE TransformsCompose
  BY DEF TransformsCompose, Tran!TransformsCompose
<1>1. WellFormed(t_file) /\ Side
  BY TranSideHolds DEF TranInv
<1> QED BY <1>1, Rot90, Rot270, Rot180, Transverse DEF TransformsCompose, Tran!TransformsCompose, Turned
-----------------------------------------------------------------------------
(* The markers.  Sets stand for what is shown by induction.                *)
LEMMA NatInduct ==
  ASSUME NEW T, 0 \in T, \A n \in Nat : n \in T => n + 1 \in T
  PROVE  Nat \subseteq T
<1> DEFINE Out == Nat \ T  R == OpToRel(<, Nat)
<1>1. SUFFICES ASSUME Out # {} PROVE FALSE
  OBVIOUS
<1>2. IsWellFoundedOn(R, Nat)
  BY NatLessThanWellFounded
<1>3. \A x \in Nat : x # 0 => x - 1 \in Nat /\ <<x - 1, x>> \in R
  BY DEF OpToRel
<1> HIDE DEF R
<1>4. PICK x \in Out : \A y \in Out : ~(<<y, x>> \in R)
  BY <1>1, <1>2, WFMin
<1>5. x \in Nat /\ x # 0 /\ x - 1 \in Nat
  BY <1>4
<1>6. x - 1 \in Out
  BY <1>4, <1>5
<1> QED BY <1>3, <1>4, <1>5, <1>6

LEMMA SeqInduct ==
  ASSUME NEW S, NEW T, <<>> \in T, \A s \in Seq(S), x \in S : s \in T => Append(s, x) \in T
  PROVE  Seq(S) \subseteq T
<1> DEFINE N == {n \in Nat : \A s \in Seq(S) : Len(s) = n => s \in T}
<1>1. 0 \in N
  BY EmptySeq
<1>2. ASSUME NEW n \in Nat, n \in N PROVE n + 1 \in N
  <2>1. ASSUME NEW s \in Seq(S), Len(s) = n + 1 PROVE s \in T
    <3>1. s # <<>>
      BY <2>1, EmptySeq
    <3> DEFINE f == SubSeq(s, 1, Len(s) - 1)  l == s[Len(s)]
    <3>2. f \in Seq(S) /\ l \in S /\ s = Append(f, l) /\ Len(f) = n
      BY <2>1, <3>1
    <3> QED BY <1>2, <3>2
  <2> QED BY <1>2, <2>1
<1>3. Nat \subseteq N
  BY <1>1, <1>2, NatInduct
<1> QED BY <1>3, LenProperties

(* How many markers are kept, one after another.                           *)
Markers == [kind : STRING \cup {"JFIF", "Adobe"}, size : {<<>>} \cup (Nat \X Nat)]
Keeps(ms, ks, n, g) ==
  g = [i \in 0 .. n |-> IF i = 0 THEN <<>>
                        ELSE IF ms[i].kind \in ks THEN g[i - 1] ELSE Append(g[i - 1], ms[i])]

LEMMA KeptExists ==
  ASSUME NEW ms, NEW ks
  PROVE  \A n \in Nat : \E g : Keeps(ms, ks, n, g)
<1> DEFINE T == {n \in Nat : \E g : Keeps(ms, ks, n, g)}
<1>1. 0 \in T
  <2> DEFINE g == [i \in 0 .. 0 |-> <<>>]
  <2>1. Keeps(ms, ks, 0, g)
    BY DEF Keeps
  <2> QED BY <2>1
<1>2. ASSUME NEW n \in Nat, n \in T PROVE n + 1 \in T
  <2>1. PICK g : Keeps(ms, ks, n, g)
    BY <1>2
  <2> DEFINE last == IF ms[n + 1].kind \in ks THEN g[n] ELSE Append(g[n], ms[n + 1])
             h == [i \in 0 .. n + 1 |-> IF i <= n THEN g[i] ELSE last]
  <2>2. \A i \in 0 .. n : g[i] = IF i = 0 THEN <<>>
                        ELSE IF ms[i].kind \in ks THEN g[i - 1] ELSE Append(g[i - 1], ms[i])
    BY <2>1 DEF Keeps
  <2>3. \A i \in 0 .. n + 1 : h[i] = IF i = 0 THEN <<>>
                        ELSE IF ms[i].kind \in ks THEN h[i - 1] ELSE Append(h[i - 1], ms[i])
    <3> SUFFICES ASSUME NEW i \in 0 .. n + 1
                 PROVE h[i] = IF i = 0 THEN <<>>
                        ELSE IF ms[i].kind \in ks THEN h[i - 1] ELSE Append(h[i - 1], ms[i])
      OBVIOUS
    <3>1. CASE i = n + 1
      <4>1. h[i] = last /\ h[i - 1] = g[n] /\ i # 0
        BY <3>1
      <4> QED BY <3>1, <4>1
    <3>2. CASE i \in 0 .. n
      <4>1. h[i] = g[i] /\ (i # 0 => h[i - 1] = g[i - 1])
        BY <3>2
      <4> QED BY <3>2, <4>1, <2>2
    <3> QED BY <3>1, <3>2
  <2> HIDE DEF h
  <2>4. DOMAIN h = 0 .. n + 1 /\ h = [i \in DOMAIN h |-> h[i]]
    BY DEF h
  <2>5. Keeps(ms, ks, n + 1, h)
    BY <2>3, <2>4 DEF Keeps
  <2> QED BY <2>5
<1>3. Nat \subseteq T
  BY <1>1, <1>2, NatInduct
<1> QED BY <1>3

(* Without, one marker after another.                                      *)
LEMMA WithoutIs ==
  ASSUME NEW ms \in Seq(Markers), NEW ks
  PROVE  \E g : Keeps(ms, ks, Len(ms), g) /\ Tran!Without(ms, ks) = g[Len(ms)]
<1>1. Len(ms) \in Nat
  OBVIOUS
<1>2. \E g : Keeps(ms, ks, Len(ms), g)
  BY <1>1, KeptExists
<1> DEFINE kept == CHOOSE g : Keeps(ms, ks, Len(ms), g)
<1>3. Keeps(ms, ks, Len(ms), kept)
  BY <1>2
<1>4. Tran!Without(ms, ks) = kept[Len(ms)]
  BY DEF Tran!Without, Keeps
<1> QED BY <1>3, <1>4

Grown(s, m, ks) == IF m.kind \in ks THEN s ELSE Append(s, m)

(* The first value, and each from the one before.                          *)
LEMMA KeepsFirst ==
  ASSUME NEW ms, NEW ks, NEW n \in Nat, NEW g, Keeps(ms, ks, n, g)
  PROVE  g[0] = <<>>
  BY DEF Keeps

LEMMA KeepsNext ==
  ASSUME NEW ms, NEW ks, NEW n \in Nat, NEW g, Keeps(ms, ks, n, g), NEW i \in Nat, i < n
  PROVE  g[i + 1] = Grown(g[i], ms[i + 1], ks)
<1> DEFINE F(k) == IF k = 0 THEN <<>> ELSE IF ms[k].kind \in ks THEN g[k - 1] ELSE Append(g[k - 1], ms[k])
<1>1. g = [k \in 0 .. n |-> F(k)]
  BY DEF Keeps
<1>2. i + 1 \in 0 .. n /\ i + 1 # 0 /\ (i + 1) - 1 = i
  OBVIOUS
<1>3. F(i + 1) = Grown(g[i], ms[i + 1], ks)
  BY <1>2 DEF Grown
<1> HIDE DEF F
<1>4. g[i + 1] = F(i + 1)
  BY <1>1, <1>2
<1> QED BY <1>3, <1>4

(* Two such functions agree as far as the markers do.                      *)
LEMMA KeepsAlike ==
  ASSUME NEW a, NEW b, NEW ks, NEW m \in Nat, NEW n \in Nat, NEW g, NEW h,
         Keeps(a, ks, m, g), Keeps(b, ks, n, h), NEW k \in Nat, k <= m, k <= n,
         \A i \in 1 .. k : a[i] = b[i]
  PROVE  g[k] = h[k]
<1> DEFINE T == {i \in Nat : i <= k => g[i] = h[i]}
<1>1. 0 \in T
  <2>1. g[0] = <<>> /\ h[0] = <<>>
    BY KeepsFirst
  <2> QED BY <2>1
<1>2. ASSUME NEW i \in Nat, i \in T PROVE i + 1 \in T
  <2>1. SUFFICES ASSUME i + 1 <= k PROVE g[i + 1] = h[i + 1]
    OBVIOUS
  <2>2. g[i] = h[i] /\ a[i + 1] = b[i + 1] /\ i < m /\ i < n
    BY <1>2, <2>1
  <2>3. g[i + 1] = Grown(g[i], a[i + 1], ks) /\ h[i + 1] = Grown(h[i], b[i + 1], ks)
    BY <2>2, KeepsNext
  <2> QED BY <2>2, <2>3
<1>3. Nat \subseteq T
  BY <1>1, <1>2, NatInduct
<1> QED BY <1>3

LEMMA WithoutNone == ASSUME NEW ks PROVE Tran!Without(<<>>, ks) = <<>>
<1>1. <<>> \in Seq(Markers) /\ Len(<<>>) = 0
  OBVIOUS
<1>2. PICK g : Keeps(<<>>, ks, 0, g) /\ Tran!Without(<<>>, ks) = g[0]
  BY <1>1, WithoutIs
<1> QED BY <1>2, KeepsFirst

LEMMA WithoutAppend ==
  ASSUME NEW s \in Seq(Markers), NEW x \in Markers, NEW ks
  PROVE  Tran!Without(Append(s, x), ks) =
           IF x.kind \in ks THEN Tran!Without(s, ks) ELSE Append(Tran!Without(s, ks), x)
<1> DEFINE a == Append(s, x)  n == Len(s)
<1>1. n \in Nat /\ a \in Seq(Markers) /\ Len(a) = n + 1 /\ a[n + 1] = x /\ \A i \in 1 .. n : a[i] = s[i]
  OBVIOUS
<1>2. PICK g : Keeps(s, ks, n, g) /\ Tran!Without(s, ks) = g[n]
  BY WithoutIs
<1>3. PICK h : Keeps(a, ks, n + 1, h) /\ Tran!Without(a, ks) = h[n + 1]
  BY <1>1, WithoutIs
<1> HIDE DEF a
<1>4. h[n] = g[n]
  BY <1>1, <1>2, <1>3, KeepsAlike
<1>5. h[n + 1] = Grown(h[n], a[n + 1], ks)
  <2>1. n + 1 \in Nat /\ n < n + 1
    BY <1>1
  <2> QED BY <1>1, <1>3, <2>1, KeepsNext
<1>6. h[n + 1] = Grown(g[n], x, ks)
  BY <1>1, <1>4, <1>5
<1> QED BY <1>2, <1>3, <1>6 DEF a, Grown

LEMMA WithoutType ==
  ASSUME NEW ks
  PROVE  \A s \in Seq(Markers) : Tran!Without(s, ks) \in Seq(Markers)
<1> DEFINE T == {s \in Seq(Markers) : Tran!Without(s, ks) \in Seq(Markers)}
<1>1. <<>> \in T
  <2>1. <<>> \in Seq(Markers)
    OBVIOUS
  <2>2. Tran!Without(<<>>, ks) = <<>>
    BY WithoutNone
  <2> QED BY <2>1, <2>2
<1>2. ASSUME NEW s \in Seq(Markers), NEW x \in Markers, s \in T PROVE Append(s, x) \in T
  <2>1. Tran!Without(Append(s, x), ks) =
          IF x.kind \in ks THEN Tran!Without(s, ks) ELSE Append(Tran!Without(s, ks), x)
    BY WithoutAppend
  <2>2. Append(s, x) \in Seq(Markers) /\ Tran!Without(s, ks) \in Seq(Markers)
    BY <1>2
  <2> DEFINE w == Tran!Without(s, ks)
  <2> HIDE DEF w
  <2>3. Tran!Without(Append(s, x), ks) \in Seq(Markers)
    <3>1. w \in Seq(Markers) /\ Tran!Without(Append(s, x), ks) = IF x.kind \in ks THEN w ELSE Append(w, x)
      BY <2>1, <2>2 DEF w
    <3> QED BY <3>1
  <2> QED BY <2>2, <2>3
<1>3. Seq(Markers) \subseteq T
  BY <1>1, <1>2, SeqInduct
<1> QED BY <1>3

(* A marker that is taken out may have been put before the others.         *)
LEMMA WithoutFirst ==
  ASSUME NEW ks, NEW m \in Markers, m.kind \in ks
  PROVE  \A s \in Seq(Markers) : Tran!Without(<<m>> \o s, ks) = Tran!Without(s, ks)
<1> DEFINE T == {s \in Seq(Markers) : Tran!Without(<<m>> \o s, ks) = Tran!Without(s, ks)}
<1>1. <<>> \in T
  <2>1. <<m>> \o <<>> = Append(<<>>, m) /\ <<>> \in Seq(Markers)
    OBVIOUS
  <2> QED BY <2>1, WithoutNone, WithoutAppend
<1>2. ASSUME NEW s \in Seq(Markers), NEW x \in Markers, s \in T PROVE Append(s, x) \in T
  <2>1. <<m>> \o Append(s, x) = Append(<<m>> \o s, x) /\ <<m>> \o s \in Seq(Markers) /\ Append(s, x) \in Seq(Markers)
    OBVIOUS
  <2>2. Tran!Without(<<m>> \o s, ks) = Tran!Without(s, ks)
    BY <1>2
  <2>3. Tran!Without(Append(<<m>> \o s, x), ks) =
          IF x.kind \in ks THEN Tran!Without(<<m>> \o s, ks) ELSE Append(Tran!Without(<<m>> \o s, ks), x)
    BY <2>1, WithoutAppend
  <2>4. Tran!Without(Append(s, x), ks) = IF x.kind \in ks THEN Tran!Without(s, ks) ELSE Append(Tran!Without(s, ks), x)
    BY WithoutAppend
  <2>5. Tran!Without(Append(<<m>> \o s, x), ks) = Tran!Without(Append(s, x), ks)
    BY <2>2, <2>3, <2>4, Zenon
  <2> QED BY <2>1, <2>5
<1>3. Seq(Markers) \subseteq T
  BY <1>1, <1>2, SeqInduct
<1> QED BY <1>3

(* Those that are taken out may have been taken out before.                *)
LEMMA WithoutTwice ==
  ASSUME NEW ks, NEW some, some \subseteq ks
  PROVE  \A s \in Seq(Markers) : Tran!Without(Tran!Without(s, some), ks) = Tran!Without(s, ks)
<1> DEFINE T == {s \in Seq(Markers) : Tran!Without(Tran!Without(s, some), ks) = Tran!Without(s, ks)}
<1>1. <<>> \in T
  <2>1. <<>> \in Seq(Markers)
    OBVIOUS
  <2>2. Tran!Without(<<>>, some) = <<>> /\ Tran!Without(<<>>, ks) = <<>>
    BY WithoutNone
  <2> QED BY <2>1, <2>2
<1>2. ASSUME NEW s \in Seq(Markers), NEW x \in Markers, s \in T PROVE Append(s, x) \in T
  <2>1. Tran!Without(s, some) \in Seq(Markers) /\ Append(s, x) \in Seq(Markers)
    BY WithoutType
  <2>2. Tran!Without(Tran!Without(s, some), ks) = Tran!Without(s, ks)
    BY <1>2
  <2>3. Tran!Without(Append(s, x), ks) = IF x.kind \in ks THEN Tran!Without(s, ks) ELSE Append(Tran!Without(s, ks), x)
    BY WithoutAppend
  <2>4. Tran!Without(Append(s, x), some) =
          IF x.kind \in some THEN Tran!Without(s, some) ELSE Append(Tran!Without(s, some), x)
    BY WithoutAppend
  <2> DEFINE w == Tran!Without(s, some)
  <2> HIDE DEF w
  <2>5. Tran!Without(Append(w, x), ks) = IF x.kind \in ks THEN Tran!Without(w, ks) ELSE Append(Tran!Without(w, ks), x)
    BY <2>1, WithoutAppend DEF w
  <2>6. Tran!Without(w, ks) = Tran!Without(s, ks)
    BY <2>2 DEF w
  <2>7. CASE x.kind \in some
    <3>1. x.kind \in ks
      BY <2>7
    <3>2. Tran!Without(Append(s, x), some) = w /\ Tran!Without(Append(s, x), ks) = Tran!Without(s, ks)
      BY <2>3, <2>4, <2>7, <3>1, Zenon DEF w
    <3> QED BY <2>1, <2>6, <3>2
  <2>8. CASE x.kind \notin some
    <3>1. Tran!Without(Append(s, x), some) = Append(w, x)
      BY <2>4, <2>8, Zenon DEF w
    <3>2. Tran!Without(Append(w, x), ks) = Tran!Without(Append(s, x), ks)
      BY <2>3, <2>5, <2>6, Zenon
    <3> QED BY <2>1, <3>1, <3>2
  <2> QED BY <2>7, <2>8
<1>3. Seq(Markers) \subseteq T
  BY <1>1, <1>2, SeqInduct
<1> QED BY <1>3

(* The sizes that the markers give do not matter to which are taken out.   *)
Sized(s, v) == [i \in DOMAIN s |-> [s[i] EXCEPT !.size = v[i]]]
LEMMA KindsSized ==
  ASSUME NEW ks, NEW v, \A i \in Nat : v[i] \in {<<>>} \cup (Nat \X Nat)
  PROVE  \A s \in Seq(Markers) :
           /\ Sized(s, v) \in Seq(Markers)
           /\ Tran!Kinds(Tran!Without(Sized(s, v), ks)) = Tran!Kinds(Tran!Without(s, ks))
<1> DEFINE T == {s \in Seq(Markers) : Tran!Kinds(Tran!Without(Sized(s, v), ks)) = Tran!Kinds(Tran!Without(s, ks))}
<1>0. \A s \in Seq(Markers) : Sized(s, v) \in Seq(Markers) /\ Len(Sized(s, v)) = Len(s)
  <2> SUFFICES ASSUME NEW s \in Seq(Markers) PROVE Sized(s, v) \in Seq(Markers) /\ Len(Sized(s, v)) = Len(s)
    OBVIOUS
  <2>1. DOMAIN s = 1 .. Len(s) /\ Len(s) \in Nat /\ \A i \in 1 .. Len(s) : s[i] \in Markers /\ i \in Nat
    OBVIOUS
  <2>2. \A i \in 1 .. Len(s) : [s[i] EXCEPT !.size = v[i]] \in Markers
    BY <2>1 DEF Markers
  <2> QED BY <2>1, <2>2 DEF Sized
<1>1. <<>> \in T
  <2>1. Sized(<<>>, v) = <<>>
    BY DEF Sized
  <2> QED BY <2>1
<1>2. ASSUME NEW s \in Seq(Markers), NEW x \in Markers, s \in T PROVE Append(s, x) \in T
  <2> DEFINE n == Len(s) + 1  y == [x EXCEPT !.size = v[n]]
             a == Tran!Without(Sized(s, v), ks)  b == Tran!Without(s, ks)
  <2>1. n \in Nat /\ DOMAIN s = 1 .. Len(s) /\ DOMAIN Append(s, x) = 1 .. n /\ Append(s, x) \in Seq(Markers)
        /\ Append(s, x)[n] = x /\ (\A i \in 1 .. Len(s) : Append(s, x)[i] = s[i]) /\ Len(s) \in Nat
    OBVIOUS
  <2>2. y \in Markers /\ y.kind = x.kind
    BY <2>1 DEF Markers
  <2>3. Sized(Append(s, x), v) = Append(Sized(s, v), y)
    <3> DEFINE l == Sized(Append(s, x), v)  r == Append(Sized(s, v), y)
    <3>1. l \in Seq(Markers) /\ r \in Seq(Markers) /\ Len(l) = n /\ Len(r) = n
      <4>1. Sized(s, v) \in Seq(Markers) /\ Len(Sized(s, v)) = Len(s)
        BY <1>0
      <4>2. Len(Append(s, x)) = n
        BY <2>1
      <4>3. l \in Seq(Markers) /\ Len(l) = Len(Append(s, x))
        BY <1>0, <2>1
      <4> QED BY <2>2, <4>1, <4>2, <4>3
    <3>2. \A i \in 1 .. n : l[i] = [Append(s, x)[i] EXCEPT !.size = v[i]]
      BY <2>1 DEF Sized
    <3>3. r[n] = y /\ \A i \in 1 .. Len(s) : r[i] = Sized(s, v)[i]
      BY <1>0, <2>2
    <3>4. \A i \in 1 .. Len(s) : Sized(s, v)[i] = [s[i] EXCEPT !.size = v[i]]
      BY <2>1 DEF Sized
    <3>5. \A i \in 1 .. n : l[i] = r[i]
      <4> SUFFICES ASSUME NEW i \in 1 .. n PROVE l[i] = r[i]
        OBVIOUS
      <4> HIDE DEF l, r
      <4>1. CASE i = n
        BY <4>1, <2>1, <3>2, <3>3
      <4>2. CASE i \in 1 .. Len(s)
        <5>1. l[i] = [s[i] EXCEPT !.size = v[i]]
          BY <4>2, <2>1, <3>2
        <5>2. r[i] = [s[i] EXCEPT !.size = v[i]]
          BY <4>2, <3>3, <3>4
        <5> QED BY <5>1, <5>2
      <4> QED BY <4>1, <4>2, <2>1
    <3> HIDE DEF l, r
    <3>6. l = r
      BY <3>1, <3>5, SeqEqual
    <3> QED BY <3>6 DEF l, r
  <2>4. /\ Tran!Without(Sized(Append(s, x), v), ks) = IF x.kind \in ks THEN a ELSE Append(a, y)
        /\ Tran!Without(Append(s, x), ks) = IF x.kind \in ks THEN b ELSE Append(b, x)
    <3> HIDE DEF y
    <3>1. Sized(s, v) \in Seq(Markers)
      BY <1>0
    <3>2. Tran!Without(Append(Sized(s, v), y), ks) =
            IF y.kind \in ks THEN Tran!Without(Sized(s, v), ks) ELSE Append(Tran!Without(Sized(s, v), ks), y)
      BY <2>2, <3>1, WithoutAppend
    <3>3. Tran!Without(Append(s, x), ks) = IF x.kind \in ks THEN Tran!Without(s, ks) ELSE Append(Tran!Without(s, ks), x)
      BY WithoutAppend
    <3> QED BY <2>2, <2>3, <3>2, <3>3, Zenon
  <2>5. a \in Seq(Markers) /\ b \in Seq(Markers) /\ Tran!Kinds(a) = Tran!Kinds(b)
    BY <1>0, <1>2, WithoutType
  <2> HIDE DEF a, b, y
  <2>6. Tran!Kinds(Append(a, y)) = Tran!Kinds(Append(b, x))
    <3>1. Len(a) = Len(b)
      BY <2>5 DEF Tran!Kinds
    <3>2. \A i \in 1 .. Len(a) : a[i].kind = b[i].kind
      BY <2>5, <3>1 DEF Tran!Kinds
    <3>3. \A i \in 1 .. Len(a) + 1 : Append(a, y)[i].kind = Append(b, x)[i].kind
      BY <2>2, <2>5, <3>1, <3>2
    <3>4. DOMAIN Append(a, y) = 1 .. Len(a) + 1 /\ DOMAIN Append(b, x) = 1 .. Len(a) + 1
      BY <2>2, <2>5, <3>1
    <3> QED BY <3>3, <3>4 DEF Tran!Kinds
  <2>7. Append(s, x) \in Seq(Markers)
    BY <2>1
  <2> QED BY <2>4, <2>5, <2>6, <2>7
<1>3. Seq(Markers) \subseteq T
  BY <1>1, <1>2, SeqInduct
<1> QED BY <1>0, <1>3

(* Nothing is taken out when nothing is to be, and what stays stays first. *)
LEMMA WithoutNothing == \A s \in Seq(Markers) : Tran!Without(s, {}) = s
<1> DEFINE T == {s \in Seq(Markers) : Tran!Without(s, {}) = s}
<1>1. <<>> \in T
  <2>1. <<>> \in Seq(Markers)
    OBVIOUS
  <2>2. Tran!Without(<<>>, {}) = <<>>
    BY WithoutNone
  <2> QED BY <2>1, <2>2
<1>2. ASSUME NEW s \in Seq(Markers), NEW x \in Markers, s \in T PROVE Append(s, x) \in T
  <2>1. Tran!Without(Append(s, x), {}) =
          IF x.kind \in {} THEN Tran!Without(s, {}) ELSE Append(Tran!Without(s, {}), x)
    BY WithoutAppend
  <2>2. Tran!Without(Append(s, x), {}) = Append(s, x)
    BY <1>2, <2>1, Zenon
  <2>3. Append(s, x) \in Seq(Markers)
    OBVIOUS
  <2> QED BY <2>2, <2>3
<1>3. Seq(Markers) \subseteq T
  BY <1>1, <1>2, SeqInduct
<1> QED BY <1>3

LEMMA WithoutHead ==
  ASSUME NEW ks, NEW m \in Markers, m.kind \notin ks
  PROVE  \A s \in Seq(Markers) : Tran!Without(<<m>> \o s, ks) = <<m>> \o Tran!Without(s, ks)
<1> DEFINE T == {s \in Seq(Markers) : Tran!Without(<<m>> \o s, ks) = <<m>> \o Tran!Without(s, ks)}
<1>1. <<>> \in T
  <2>1. <<m>> \o <<>> = Append(<<>>, m) /\ <<>> \in Seq(Markers) /\ Append(<<>>, m) = <<m>>
    OBVIOUS
  <2>2. Tran!Without(<<>>, ks) = <<>>
    BY WithoutNone
  <2>3. Tran!Without(Append(<<>>, m), ks) =
          IF m.kind \in ks THEN Tran!Without(<<>>, ks) ELSE Append(Tran!Without(<<>>, ks), m)
    BY <2>1, WithoutAppend
  <2>4. Tran!Without(Append(<<>>, m), ks) = Append(<<>>, m)
    BY <2>2, <2>3, Zenon
  <2> QED BY <2>1, <2>2, <2>4
<1>2. ASSUME NEW s \in Seq(Markers), NEW x \in Markers, s \in T PROVE Append(s, x) \in T
  <2> DEFINE w == Tran!Without(s, ks)
  <2>1. <<m>> \o Append(s, x) = Append(<<m>> \o s, x) /\ <<m>> \o s \in Seq(Markers) /\ Append(s, x) \in Seq(Markers)
    OBVIOUS
  <2>2. Tran!Without(<<m>> \o s, ks) = <<m>> \o w
    BY <1>2
  <2>3. Tran!Without(Append(<<m>> \o s, x), ks) =
          IF x.kind \in ks THEN Tran!Without(<<m>> \o s, ks) ELSE Append(Tran!Without(<<m>> \o s, ks), x)
    BY <2>1, WithoutAppend
  <2>4. Tran!Without(Append(s, x), ks) = IF x.kind \in ks THEN w ELSE Append(w, x)
    BY WithoutAppend
  <2>5. w \in Seq(Markers)
    BY WithoutType
  <2> HIDE DEF w
  <2>6. <<m>> \o Append(w, x) = Append(<<m>> \o w, x)
    BY <2>5
  <2>7. Tran!Without(Append(<<m>> \o s, x), ks) = <<m>> \o Tran!Without(Append(s, x), ks)
    BY <2>2, <2>3, <2>4, <2>6, Zenon
  <2> QED BY <2>1, <2>7
<1>3. Seq(Markers) \subseteq T
  BY <1>1, <1>2, SeqInduct
<1> QED BY <1>3

(* What the command leaves of the header: f goes in, g comes out.          *)
Others(ms) == Tran!Kinds(Tran!Without(ms, {"JFIF", "Adobe"}))
ExifAt(f, i) == f.markers[i].kind = "Exif" /\ f.markers[i].size \in {<<>>, <<f.width, f.height>>}
ExifRight(f) == Tran!ExifFirst(f) => ExifAt(f, 1)
(* Whether an Adobe marker comes before it, and whether the colours can be *)
(* told by the markers.                                                    *)
Adobed(f) == f.space \in Tran!AdobeSpaces
Sees(ms, k) == \E i \in DOMAIN ms : ms[i].kind = k
Told(space, n, ms) == space \in Tran!default_decompress_parms(n, ms)
Coloured(f) == Told(f.space, Len(f.factors), f.markers)
HeadKept(f, g) ==
  /\ Others(g.markers) = Others(f.markers)
  /\ g.space = f.space
  /\ Tran!ExifFirst(f) => IF Adobed(f) THEN ExifAt(g, 2) ELSE Tran!ExifFirst(g)

LEMMA AdjustedIs ==
  ASSUME NEW f, f.markers \in Seq(Markers), NEW g, g.width \in Nat, g.height \in Nat, ExifRight(f)
  PROVE  LET a == Tran!Adjusted(f, g) IN
         /\ a \in Seq(Markers) /\ Others(a) = Others(f.markers) /\ Len(a) = Len(f.markers)
         /\ f.markers # <<>> => a[1].kind = f.markers[1].kind
         /\ \A k : Sees(a, k) <=> Sees(f.markers, k)
         /\ Tran!ExifFirst(f) => a[1].size \in {<<>>, <<g.width, g.height>>}
<1> DEFINE ms == f.markers  a == Tran!Adjusted(f, g)
           adjusts(i) == i = 1 /\ ms[i].kind = "Exif" /\ ms[i].size # <<>> /\ <<g.width, g.height>> # <<f.width, f.height>>
           size(i) == IF i \notin DOMAIN ms THEN <<>> ELSE IF adjusts(i) THEN <<g.width, g.height>> ELSE ms[i].size
           v == [i \in Nat |-> size(i)]
<1>1. DOMAIN ms = 1 .. Len(ms) /\ Len(ms) \in Nat /\ \A i \in 1 .. Len(ms) : ms[i] \in Markers /\ i \in Nat
  OBVIOUS
<1>2. \A i \in Nat : size(i) \in {<<>>} \cup (Nat \X Nat)
  <2> SUFFICES ASSUME NEW i \in Nat PROVE size(i) \in {<<>>} \cup (Nat \X Nat)
    OBVIOUS
  <2>1. i \in DOMAIN ms => ms[i].size \in {<<>>} \cup (Nat \X Nat)
    BY <1>1 DEF Markers
  <2>2. <<g.width, g.height>> \in Nat \X Nat
    OBVIOUS
  <2> QED BY <2>1, <2>2
<1>3. \A i \in DOMAIN ms : [ms[i] EXCEPT !.size = size(i)] =
        IF adjusts(i) THEN [ms[i] EXCEPT !.size = <<g.width, g.height>>] ELSE ms[i]
  BY <1>1 DEF Markers
<1>4. a = Sized(ms, v)
  <2>1. \A i \in DOMAIN ms : v[i] = size(i)
    BY <1>1
  <2>2. Sized(ms, v) = [i \in DOMAIN ms |-> IF adjusts(i) THEN [ms[i] EXCEPT !.size = <<g.width, g.height>>] ELSE ms[i]]
    <3> HIDE DEF v, size, adjusts
    <3> QED BY <2>1, <1>3 DEF Sized
  <2> QED BY <2>2 DEF Tran!Adjusted
<1>5. \A i \in Nat : v[i] \in {<<>>} \cup (Nat \X Nat)
  BY <1>2
<1>6. /\ Sized(ms, v) \in Seq(Markers)
      /\ Tran!Kinds(Tran!Without(Sized(ms, v), {"JFIF", "Adobe"})) = Tran!Kinds(Tran!Without(ms, {"JFIF", "Adobe"}))
  <2> HIDE DEF v
  <2> QED BY <1>5, KindsSized
<1>7. Len(a) = Len(ms)
  <2>1. DOMAIN a = DOMAIN ms /\ a \in Seq(Markers)
    BY <1>4, <1>6 DEF Tran!Adjusted
  <2> HIDE DEF a
  <2> QED BY <2>1, <1>1
<1>8. ms # <<>> => 1 \in DOMAIN ms
  BY <1>1
<1>9. \A i \in DOMAIN ms : a[i] = IF adjusts(i) THEN [ms[i] EXCEPT !.size = <<g.width, g.height>>] ELSE ms[i]
  BY DEF Tran!Adjusted
<1>10. ms # <<>> => a[1].kind = ms[1].kind
  BY <1>1, <1>8, <1>9 DEF Markers
<1>12. \A k : Sees(a, k) <=> Sees(ms, k)
  <2>1. DOMAIN a = DOMAIN ms
    BY DEF Tran!Adjusted
  <2>2. \A i \in DOMAIN ms : a[i].kind = ms[i].kind
    BY <1>1, <1>9 DEF Markers
  <2> HIDE DEF a, ms
  <2> QED BY <2>1, <2>2 DEF Sees
<1>11. Tran!ExifFirst(f) => a[1].size \in {<<>>, <<g.width, g.height>>}
  <2> SUFFICES ASSUME Tran!ExifFirst(f) PROVE a[1].size \in {<<>>, <<g.width, g.height>>}
    OBVIOUS
  <2>1. ms[1] \in Markers /\ ms[1].kind = "Exif" /\ 1 \in DOMAIN ms /\ ms[1].size \in {<<>>, <<f.width, f.height>>}
    BY <1>1, <1>8 DEF Tran!ExifFirst, ExifRight, ExifAt
  <2>2. CASE adjusts(1)
    BY <1>9, <2>1, <2>2 DEF Markers
  <2>3. CASE ~adjusts(1)
    <3>1. a[1] = ms[1]
      BY <1>9, <2>1, <2>3
    <3>2. ms[1].size = <<>> \/ <<g.width, g.height>> = <<f.width, f.height>>
      BY <2>1, <2>3
    <3> QED BY <2>1, <3>1, <3>2
  <2> QED BY <2>2, <2>3
<1> QED BY <1>4, <1>6, <1>7, <1>10, <1>11, <1>12 DEF Others

(* No kind of marker comes in by taking others out, and the colours can be *)
(* told as long as no JFIF marker comes in and an Adobe marker stays.      *)
LEMMA SeesWithout ==
  ASSUME NEW ks, NEW k
  PROVE  \A s \in Seq(Markers) : Sees(Tran!Without(s, ks), k) => Sees(s, k)
<1> DEFINE T == {s \in Seq(Markers) : Sees(Tran!Without(s, ks), k) => Sees(s, k)}
<1>1. <<>> \in T
  <2>1. <<>> \in Seq(Markers)
    OBVIOUS
  <2>2. Tran!Without(<<>>, ks) = <<>>
    BY WithoutNone
  <2> QED BY <2>1, <2>2
<1>2. ASSUME NEW s \in Seq(Markers), NEW x \in Markers, s \in T PROVE Append(s, x) \in T
  <2> DEFINE w == Tran!Without(s, ks)
  <2>1. /\ w \in Seq(Markers)
        /\ Tran!Without(Append(s, x), ks) = IF x.kind \in ks THEN w ELSE Append(w, x)
    BY WithoutType, WithoutAppend
  <2>2. Sees(w, k) => Sees(s, k)
    BY <1>2
  <2> HIDE DEF w
  <2>3. \A r \in Seq(Markers) : Sees(Append(r, x), k) <=> Sees(r, k) \/ x.kind = k
    <3> SUFFICES ASSUME NEW r \in Seq(Markers) PROVE Sees(Append(r, x), k) <=> Sees(r, k) \/ x.kind = k
      OBVIOUS
    <3>1. /\ DOMAIN r = 1 .. Len(r) /\ Len(r) \in Nat /\ DOMAIN Append(r, x) = 1 .. Len(r) + 1
          /\ \A i \in 1 .. Len(r) : Append(r, x)[i] = r[i]
          /\ Append(r, x)[Len(r) + 1] = x
      OBVIOUS
    <3> DEFINE q == Append(r, x)  n == Len(r)
    <3> HIDE DEF q, n
    <3>2. /\ DOMAIN r = 1 .. n /\ n \in Nat /\ DOMAIN q = 1 .. n + 1
          /\ (\A i \in 1 .. n : q[i] = r[i]) /\ q[n + 1] = x
      BY <3>1 DEF q, n
    <3>3. Sees(q, k) <=> Sees(r, k) \/ x.kind = k
      <4>1. \A i \in 1 .. n + 1 : i \in 1 .. n \/ i = n + 1
        BY <3>2
      <4>2. (\A i \in 1 .. n : i \in 1 .. n + 1) /\ n + 1 \in 1 .. n + 1
        BY <3>2
      <4> QED BY <3>2, <4>1, <4>2, Zenon DEF Sees
    <3> QED BY <3>3 DEF q
  <2>4. Sees(Tran!Without(Append(s, x), ks), k) => Sees(Append(s, x), k)
    <3>1. CASE x.kind \in ks
      BY <2>1, <2>2, <2>3, <3>1, Zenon
    <3>2. CASE x.kind \notin ks
      BY <2>1, <2>2, <2>3, <3>2, Zenon
    <3> QED BY <3>1, <3>2
  <2>5. Append(s, x) \in Seq(Markers)
    OBVIOUS
  <2> QED BY <2>4, <2>5
<1>3. Seq(Markers) \subseteq T
  BY <1>1, <1>2, SeqInduct
<1> QED BY <1>3

LEMMA ToldKept ==
  ASSUME NEW space, NEW n, NEW ms, NEW c, Told(space, n, ms),
         space = "RGB" /\ Sees(c, "JFIF") => Sees(ms, "JFIF"),
         space = "YCCK" => Sees(c, "Adobe")
  PROVE  Told(space, n, c)
<1>1. CASE n = 1
  BY <1>1 DEF Told, Tran!default_decompress_parms
<1>2. CASE n = 3
  BY <1>2 DEF Told, Tran!default_decompress_parms, Sees
<1>3. CASE n = 4
  BY <1>3 DEF Told, Tran!default_decompress_parms, Sees
<1>4. CASE n \notin {1, 3, 4}
  BY <1>4 DEF Told, Tran!default_decompress_parms
<1> QED BY <1>1, <1>2, <1>3, <1>4

LEMMA CopiedKeeps ==
  ASSUME NEW f, f.markers \in Seq(Markers), ExifRight(f), Coloured(f),
         NEW g, g.width \in Nat, g.height \in Nat
  PROVE  LET c == Tran!Copied(f, g) IN
         /\ c \in Seq(Markers)
         /\ Others(c) = Others(f.markers)
         /\ Told(f.space, Len(f.factors), c)
         /\ c # <<>> /\ c[1].kind = "Exif" => c[1].size \in {<<>>, <<g.width, g.height>>}
         /\ Tran!ExifFirst(f) => IF Adobed(f) THEN c[2].kind = "Exif" /\ c[2].size \in {<<>>, <<g.width, g.height>>}
                                             ELSE c # <<>> /\ c[1].kind = "Exif"
<1> DEFINE a == Tran!Adjusted(f, g)  c == Tran!Copied(f, g)
           both == {"JFIF", "Adobe"}  M(k) == Tran!Marker(k)
<1>1. /\ a \in Seq(Markers) /\ Others(a) = Others(f.markers) /\ Len(a) = Len(f.markers)
      /\ f.markers # <<>> => a[1].kind = f.markers[1].kind
      /\ \A k : Sees(a, k) <=> Sees(f.markers, k)
      /\ Tran!ExifFirst(f) => a[1].size \in {<<>>, <<g.width, g.height>>}
  BY AdjustedIs
<1>2. M("JFIF") \in Markers /\ M("Adobe") \in Markers /\ M("JFIF").kind = "JFIF" /\ M("Adobe").kind = "Adobe"
  <2>1. \A k \in STRING \cup {"JFIF", "Adobe"} : M(k) \in Markers /\ M(k).kind = k
    BY Zenon DEF Tran!Marker, Markers
  <2> HIDE DEF M
  <2> QED BY <2>1
<1> DEFINE own == IF Adobed(f) THEN <<M("Adobe")>>
                  ELSE IF f.space \in Tran!JFIFSpaces /\ ~Tran!ExifFirst(f) THEN <<M("JFIF")>>
                  ELSE <<>>
<1>7. c = own \o Tran!Without(a, {own[i].kind : i \in DOMAIN own})
  BY DEF Tran!Copied, Tran!CopiedAs, Adobed
<1> HIDE DEF a, c, M
<1>8. \A k \in both : {<<M(k)>>[i].kind : i \in DOMAIN <<M(k)>>} = {k}
  <2> SUFFICES ASSUME NEW k \in both PROVE {<<M(k)>>[i].kind : i \in DOMAIN <<M(k)>>} = {k}
    OBVIOUS
  <2> DEFINE m == M(k)  S == {<<m>>[i].kind : i \in DOMAIN <<m>>}
  <2>1. m.kind = k
    BY <1>2
  <2> HIDE DEF m
  <2>2. DOMAIN <<m>> = {1} /\ <<m>>[1] = m
    OBVIOUS
  <2>3. S = {k}
    BY <2>1, <2>2, Zenon
  <2> QED BY <2>3 DEF m
<1>3. CASE own = <<>>
  <2>1. ~Adobed(f)
    BY <1>3
  <2>2. c = <<>> \o Tran!Without(a, {})
    <3>1. {own[i].kind : i \in DOMAIN own} = {}
      BY <1>3
    <3> HIDE DEF own
    <3> QED BY <1>3, <1>7, <3>1
  <2>3. c = a
    BY <1>1, <2>2, WithoutNothing
  <2>4. f.space # "RGB" /\ f.space # "YCCK"
    BY <2>1 DEF Adobed, Tran!AdobeSpaces
  <2>5. Told(f.space, Len(f.factors), c)
    BY <2>4, ToldKept DEF Coloured
  <2>6. a # <<>> <=> f.markers # <<>>
    BY <1>1
  <2> QED BY <1>1, <2>1, <2>3, <2>5, <2>6 DEF Tran!ExifFirst, c
<1>4. ASSUME NEW k \in both, c = <<M(k)>> \o Tran!Without(a, {k}), Tran!ExifFirst(f) => k = "Adobe"
      PROVE  /\ c \in Seq(Markers) /\ Others(c) = Others(f.markers) /\ c[1].kind # "Exif"
             /\ Sees(c, k) /\ \A j : Sees(c, j) => j = k \/ Sees(f.markers, j)
             /\ Tran!ExifFirst(f) => c[2].kind = "Exif" /\ c[2].size \in {<<>>, <<g.width, g.height>>}
  <2> DEFINE w == Tran!Without(a, {k})
  <2>1. w \in Seq(Markers) /\ M(k) \in Markers /\ M(k).kind = k /\ {k} \subseteq both
    BY <1>1, <1>2, WithoutType
  <2>2. Tran!Without(w, both) = Tran!Without(a, both)
    BY <1>1, <2>1, WithoutTwice
  <2>3. Tran!ExifFirst(f) => w[1] = a[1]
    <3> SUFFICES ASSUME Tran!ExifFirst(f) PROVE w[1] = a[1]
      OBVIOUS
    <3> DEFINE r == Tail(a)
    <3>1. a # <<>> /\ a[1].kind = "Exif"
      BY <1>1 DEF Tran!ExifFirst
    <3>2. a = <<a[1]>> \o r /\ r \in Seq(Markers) /\ a[1] \in Markers
      BY <1>1, <3>1
    <3>3. a[1].kind \notin {k}
      BY <3>1
    <3> HIDE DEF r
    <3>4. Tran!Without(<<a[1]>> \o r, {k}) = <<a[1]>> \o Tran!Without(r, {k})
      BY <3>2, <3>3, WithoutHead
    <3>5. Tran!Without(r, {k}) \in Seq(Markers)
      BY <3>2, WithoutType
    <3>6. w = <<a[1]>> \o Tran!Without(r, {k})
      BY <3>2, <3>4, Zenon
    <3> HIDE DEF w
    <3> QED BY <3>2, <3>5, <3>6
  <2>4. Tran!ExifFirst(f) => w # <<>>
    <3> SUFFICES ASSUME Tran!ExifFirst(f) PROVE w # <<>>
      OBVIOUS
    <3> DEFINE r == Tail(a)
    <3>1. a # <<>> /\ a[1].kind = "Exif"
      BY <1>1 DEF Tran!ExifFirst
    <3>2. a = <<a[1]>> \o r /\ r \in Seq(Markers) /\ a[1] \in Markers
      BY <1>1, <3>1
    <3>3. a[1].kind \notin {k}
      BY <3>1
    <3> HIDE DEF r
    <3>4. Tran!Without(<<a[1]>> \o r, {k}) = <<a[1]>> \o Tran!Without(r, {k})
      BY <3>2, <3>3, WithoutHead
    <3>5. Tran!Without(r, {k}) \in Seq(Markers)
      BY <3>2, WithoutType
    <3>6. w = <<a[1]>> \o Tran!Without(r, {k})
      BY <3>2, <3>4, Zenon
    <3> HIDE DEF w
    <3> QED BY <3>2, <3>5, <3>6
  <2> DEFINE m == M(k)
  <2> HIDE DEF w, c, m
  <2>5. c = <<m>> \o w /\ m \in Markers /\ m.kind = k
    BY <1>4, <2>1 DEF w, m
  <2>6. c \in Seq(Markers) /\ c[1] = m /\ (w # <<>> => c[2] = w[1])
    BY <2>1, <2>5
  <2>7. Tran!Without(c, both) = Tran!Without(w, both)
    <3>1. Tran!Without(<<m>> \o w, both) = Tran!Without(w, both)
      BY <2>1, <2>5, WithoutFirst
    <3> QED BY <2>5, <3>1, Zenon
  <2>8. Others(c) = Others(f.markers)
    BY <1>1, <2>2, <2>7 DEF Others, w
  <2>9. Tran!ExifFirst(f) => c[2] = a[1] /\ a[1].kind = "Exif"
    BY <1>1, <2>3, <2>4, <2>6 DEF Tran!ExifFirst
  <2>10. c[1].kind # "Exif"
    BY <2>5, <2>6
  <2>11. Sees(c, k) /\ \A j : Sees(c, j) => j = k \/ Sees(f.markers, j)
    <3>1. /\ DOMAIN w = 1 .. Len(w) /\ DOMAIN c = 1 .. Len(w) + 1 /\ Len(w) \in Nat
          /\ c[1] = m /\ \A i \in 2 .. Len(w) + 1 : c[i] = w[i - 1]
      BY <2>1, <2>5
    <3>2. \A i \in DOMAIN c : i = 1 \/ (i \in 2 .. Len(w) + 1 /\ i - 1 \in DOMAIN w)
      BY <3>1
    <3>3. 1 \in DOMAIN c
      BY <3>1
    <3>4. \A j : Sees(c, j) => j = k \/ Sees(w, j)
      BY <2>5, <3>1, <3>2 DEF Sees
    <3>5. \A j : Sees(w, j) => Sees(a, j)
      BY <1>1, SeesWithout DEF w
    <3>6. Sees(c, k)
      BY <2>5, <3>1, <3>3, Zenon DEF Sees
    <3> QED BY <1>1, <3>4, <3>5, <3>6
  <2> QED BY <1>1, <2>6, <2>8, <2>9, <2>10, <2>11
<1>5. CASE own = <<M("JFIF")>> /\ ~Adobed(f) /\ ~Tran!ExifFirst(f)
  <2>1. c = <<M("JFIF")>> \o Tran!Without(a, {"JFIF"})
    <3> HIDE DEF own
    <3> QED BY <1>5, <1>7, <1>8
  <2> DEFINE k == "JFIF"
  <2>2. k \in both /\ c = <<M(k)>> \o Tran!Without(a, {k}) /\ (Tran!ExifFirst(f) => k = "Adobe")
    BY <1>5, <2>1
  <2>3. c \in Seq(Markers) /\ Others(c) = Others(f.markers) /\ c[1].kind # "Exif"
    <3> HIDE DEF k, own
    <3> QED BY <1>4, <2>2
  <2>4. f.space # "RGB" /\ f.space # "YCCK"
    BY <1>5 DEF Adobed, Tran!AdobeSpaces
  <2>5. Told(f.space, Len(f.factors), c)
    BY <2>4, ToldKept DEF Coloured
  <2> QED BY <1>5, <2>3, <2>5 DEF c
<1>6. CASE own = <<M("Adobe")>> /\ Adobed(f)
  <2>1. c = <<M("Adobe")>> \o Tran!Without(a, {"Adobe"})
    <3> HIDE DEF own
    <3> QED BY <1>6, <1>7, <1>8
  <2> DEFINE k == "Adobe"
  <2>2. k \in both /\ c = <<M(k)>> \o Tran!Without(a, {k}) /\ (Tran!ExifFirst(f) => k = "Adobe")
    BY <2>1
  <2>3. /\ c \in Seq(Markers) /\ Others(c) = Others(f.markers) /\ c[1].kind # "Exif"
        /\ Sees(c, k) /\ \A j : Sees(c, j) => j = k \/ Sees(f.markers, j)
        /\ Tran!ExifFirst(f) => c[2].kind = "Exif" /\ c[2].size \in {<<>>, <<g.width, g.height>>}
    <3> HIDE DEF k, own
    <3> QED BY <1>4, <2>2
  <2>4. Sees(c, "Adobe") /\ (Sees(c, "JFIF") => Sees(f.markers, "JFIF"))
    <3>1. "JFIF" # k
      OBVIOUS
    <3> QED BY <2>3, <3>1
  <2>5. Told(f.space, Len(f.factors), c)
    BY <2>4, ToldKept DEF Coloured
  <2> QED BY <1>6, <2>3, <2>5 DEF c
<1> QED BY <1>3, <1>5, <1>6

LEMMA TurnedHead ==
  ASSUME NEW f, WellFormed(f), f.markers \in Seq(Markers), ExifRight(f), Coloured(f),
         NEW t, NEW crop, Region(crop), NEW trim \in BOOLEAN, Side
  PROVE  LET g == Tran!jpegtran(f, t, crop, trim) IN
         g.markers \in Seq(Markers) /\ ExifRight(g) /\ Coloured(g) /\ HeadKept(f, g)
<1> DEFINE info == Tran!Info(f, t, crop, trim)
           g0 == [f EXCEPT !.width = info.width, !.height = info.height, !.factors = info.factors]
           g == Tran!jpegtran(f, t, crop, trim)
<1>1. g = [g0 EXCEPT !.samples = Tran!Transformed(f, t, info, g0), !.markers = Tran!Copied(f, g0),
                     !.damaged = FALSE]
  BY DEF Tran!jpegtran
<1>2. /\ WellFormed(g) /\ g.width = info.width /\ g.height = info.height
      /\ DOMAIN g.factors = DOMAIN f.factors
  BY Written
<1> HIDE DEF info
<1>3. DOMAIN g0 = DOMAIN f /\ g0.width = info.width /\ g0.height = info.height /\ g0.space = f.space
  BY DEF WellFormed
<1> HIDE DEF g0
<1>4. g.markers = Tran!Copied(f, g0) /\ g.space = g0.space
  BY <1>1, <1>3 DEF WellFormed
<1> HIDE DEF g
<1>5. g0.width = g.width /\ g0.height = g.height /\ g0.width \in Nat /\ g0.height \in Nat
  BY <1>2, <1>3 DEF WellFormed
<1>6. f.factors \in Seq(Ratios) /\ g.factors \in Seq(Ratios)
  BY <1>2 DEF WellFormed
<1>7. Len(g.factors) = Len(f.factors)
  BY <1>2, <1>6
<1>8. LET c == Tran!Copied(f, g0) IN
         /\ c \in Seq(Markers)
         /\ Others(c) = Others(f.markers)
         /\ Told(f.space, Len(f.factors), c)
         /\ c # <<>> /\ c[1].kind = "Exif" => c[1].size \in {<<>>, <<g0.width, g0.height>>}
         /\ Tran!ExifFirst(f) => IF Adobed(f) THEN c[2].kind = "Exif" /\ c[2].size \in {<<>>, <<g0.width, g0.height>>}
                                             ELSE c # <<>> /\ c[1].kind = "Exif"
  BY <1>5, CopiedKeeps
<1> DEFINE ms == g.markers
<1>9. /\ ms \in Seq(Markers) /\ Others(ms) = Others(f.markers) /\ Told(f.space, Len(f.factors), ms)
      /\ ms # <<>> /\ ms[1].kind = "Exif" => ms[1].size \in {<<>>, <<g.width, g.height>>}
      /\ Tran!ExifFirst(f) => IF Adobed(f) THEN ms[2].kind = "Exif" /\ ms[2].size \in {<<>>, <<g.width, g.height>>}
                                          ELSE ms # <<>> /\ ms[1].kind = "Exif"
  BY <1>4, <1>5, <1>8
<1>10. g.space = f.space
  BY <1>3, <1>4
<1> QED BY <1>7, <1>9, <1>10 DEF ExifRight, HeadKept, ExifAt, Tran!ExifFirst, Coloured, g

(* Through a command in two attempts, a damaged photo through two.         *)
HeadSame(f, g) ==
  /\ Others(g.markers) = Others(f.markers)
  /\ g.space = f.space
  /\ Tran!ExifFirst(f) /\ ~Adobed(f) => Tran!ExifFirst(g)
HeadInv ==
  t_attempt # "none" =>
    /\ t_photo.markers \in Seq(Markers) /\ ExifRight(t_photo) /\ Coloured(t_photo)
    /\ t_file.markers \in Seq(Markers) /\ ExifRight(t_file) /\ Coloured(t_file)
    /\ t_attempt \in {"trim", "done"} => HeadSame(t_photo, t_file)
    /\ t_attempt = "done" /\ ~t_photo.damaged => HeadKept(t_photo, t_file)

LEMMA OpenedHead ==
  ASSUME NEW f \in Frames, NEW space, NEW d, Told(space, Len(f.factors), f.markers)
  PROVE  LET p == Tran!Photo(f, space, d) IN p.markers \in Seq(Markers) /\ ExifRight(p) /\ Coloured(p)
<1> DEFINE p == Tran!Photo(f, space, d)  h == f.markers
           M(i) == IF h[i].size = <<>> THEN h[i] ELSE [h[i] EXCEPT !.size = <<f.width, f.height>>]
<1>1. f.width \in Nat /\ f.height \in Nat /\ h \in Seq([kind : STRING, size : {<<>>} \cup (Nat \X Nat)])
  BY FramesAssumption DEF Tran!FramesAssumption
<1>2. p.width = f.width /\ p.height = f.height /\ p.factors = f.factors /\ p.space = space
      /\ p.markers = [i \in DOMAIN h |-> M(i)]
  BY DEF Tran!Photo
<1>3. DOMAIN h = 1 .. Len(h) /\ Len(h) \in Nat /\ \A i \in DOMAIN h : h[i] \in [kind : STRING, size : {<<>>} \cup (Nat \X Nat)]
  <2> DEFINE S == [kind : STRING, size : {<<>>} \cup (Nat \X Nat)]
  <2>1. h \in Seq(S)
    BY <1>1
  <2> HIDE DEF h, S
  <2>2. DOMAIN h = 1 .. Len(h) /\ Len(h) \in Nat /\ \A i \in DOMAIN h : h[i] \in S
    BY <2>1
  <2> QED BY <2>2 DEF S
<1>4. \A i \in DOMAIN h : M(i) \in Markers /\ M(i).kind = h[i].kind /\ M(i).size \in {<<>>, <<f.width, f.height>>}
  BY <1>1, <1>3 DEF Markers
<1> HIDE DEF M, p, h
<1>5. p.markers \in Seq(Markers) /\ DOMAIN p.markers = DOMAIN h
  BY <1>2, <1>3, <1>4
<1>6. ExifRight(p)
  <2>1. SUFFICES ASSUME p.markers # <<>> PROVE p.markers[1].size \in {<<>>, <<p.width, p.height>>}
    BY DEF ExifRight, Tran!ExifFirst, ExifAt
  <2>2. 1 \in DOMAIN p.markers
    BY <1>5, <2>1
  <2> QED BY <1>2, <1>4, <1>5, <2>2
<1>7. \A k : Sees(p.markers, k) <=> Sees(h, k)
  BY <1>2, <1>4, <1>5 DEF Sees
<1>8. Coloured(p)
  <2>1. Told(space, Len(f.factors), h)
    BY DEF h
  <2> QED BY <1>2, <1>7, <2>1, Zenon DEF Coloured, Told, Tran!default_decompress_parms, Sees
<1> QED BY <1>5, <1>6, <1>8 DEF p

LEMMA HeadStep == ASSUME TranInv, HeadInv, Tran!Next PROVE HeadInv'
<1> DEFINE Right(f) == f.markers \in Seq(Markers) /\ ExifRight(f) /\ Coloured(f)
<1>1. ASSUME NEW f \in Frames, NEW s, NEW d \in BOOLEAN, Tran!Open(f, s, d) PROVE HeadInv'
  <2>1. Right(Tran!Photo(f, s, d))
    BY <1>1, OpenedHead DEF Tran!Open, Told
  <2>2. /\ t_photo' = Tran!Photo(f, s, d) /\ t_file' = Tran!Photo(f, s, d) /\ t_attempt' = "idle"
    BY <1>1 DEF Tran!Open
  <2>3. Right(t_photo') /\ Right(t_file')
    BY <2>1, <2>2
  <2> QED BY <2>2, <2>3 DEF HeadInv, ExifRight, Tran!ExifFirst, ExifAt, Coloured, Told
<1>2. ASSUME NEW t, NEW c, Tran!CallJPEGTranTryPerfect(t, c) PROVE HeadInv'
  BY <1>2 DEF Tran!CallJPEGTranTryPerfect, HeadInv, ExifRight, Tran!ExifFirst, ExifAt, Coloured, Told
<1>3. ASSUME NEW f, WellFormed(f), Right(f), NEW t, NEW c, Region(c), NEW trim \in BOOLEAN
      PROVE  LET g == Tran!jpegtran(f, t, c, trim) IN Right(g) /\ HeadKept(f, g) /\ HeadSame(f, g)
  <2>1. LET g == Tran!jpegtran(f, t, c, trim) IN Right(g) /\ HeadKept(f, g)
    BY <1>3, TranSideHolds, TurnedHead
  <2> QED BY <2>1 DEF HeadKept, HeadSame
<1>4. CASE Tran!subCallPerfect
  <2> DEFINE t == t_command.transform  c == t_command.crop  refused == Tran!Refused(t_file, t, c, TRUE)
             g == Tran!jpegtran(t_file, t, c, FALSE)
  <2>1. /\ t_attempt = "perfect" /\ t_photo' = t_photo
        /\ t_file' = (IF refused THEN t_file ELSE g)
        /\ t_attempt' = IF refused \/ t_file.damaged THEN "trim" ELSE "done"
    BY <1>4 DEF Tran!subCallPerfect
  <2>2. /\ Region(c) /\ WellFormed(t_file) /\ t_file = t_photo /\ Right(t_file)
    BY <2>1 DEF TranInv, HeadInv
  <2>3. Right(g) /\ HeadKept(t_file, g) /\ HeadSame(t_file, g)
    BY <1>3, <2>2
  <2>4. HeadSame(t_file, t_file)
    BY DEF HeadSame
  <2> HIDE DEF refused, g
  <2>5. /\ t_photo' = t_file /\ t_file' \in {t_file, g} /\ (t_attempt' = "done" => t_file' = g)
    BY <2>1, <2>2
  <2>6. /\ Right(t_photo') /\ Right(t_file') /\ HeadSame(t_photo', t_file')
        /\ t_attempt' = "done" => HeadKept(t_photo', t_file')
    BY <2>2, <2>3, <2>4, <2>5
  <2> QED BY <2>6 DEF HeadInv, ExifRight, Tran!ExifFirst, ExifAt, HeadSame, HeadKept, Coloured, Told, Adobed
<1>5. CASE Tran!subCallTrim
  <2> DEFINE t == t_command.transform  c == t_command.crop  refused == Tran!Refused(t_file, t, c, FALSE)
             g == Tran!jpegtran(t_file, t, c, TRUE)
  <2>1. /\ t_attempt = "trim" /\ t_photo' = t_photo
        /\ t_file' = (IF refused THEN t_file ELSE g)
        /\ t_attempt' = IF refused \/ t_file.damaged THEN "failed" ELSE "done"
    BY <1>5 DEF Tran!subCallTrim
  <2>2. /\ Region(c) /\ WellFormed(t_file) /\ (~t_photo.damaged => t_file = t_photo) /\ HeadSame(t_photo, t_file)
        /\ Right(t_photo) /\ Right(t_file)
    BY <2>1 DEF TranInv, HeadInv
  <2>3. Right(g) /\ HeadKept(t_file, g) /\ HeadSame(t_file, g)
    BY <1>3, <2>2
  <2>4. HeadSame(t_photo, g)
    BY <2>2, <2>3 DEF HeadSame, Adobed
  <2> HIDE DEF refused, g
  <2>5. t_file' \in {t_file, g} /\ t_attempt' \in {"failed", "done"} /\ (t_attempt' = "done" => t_file' = g)
    BY <2>1
  <2>6. /\ Right(t_photo') /\ Right(t_file') /\ HeadSame(t_photo', t_file')
        /\ t_attempt' = "done" /\ ~t_photo'.damaged => HeadKept(t_photo', t_file')
    BY <2>1, <2>2, <2>3, <2>4, <2>5
  <2> QED BY <2>6 DEF HeadInv, ExifRight, Tran!ExifFirst, ExifAt, HeadSame, HeadKept, Coloured, Told, Adobed
<1> QED BY <1>1, <1>2, <1>4, <1>5 DEF Tran!Next

LEMMA HeadFollows == TranInv /\ HeadInv => HeaderFollows
<1> SUFFICES ASSUME TranInv, HeadInv, t_attempt = "done" PROVE HeaderFollows
  BY DEF HeaderFollows, Tran!HeaderFollows
<1>1. /\ HeadSame(t_photo, t_file) /\ ExifRight(t_file) /\ Coloured(t_file)
      /\ ~t_photo.damaged => HeadKept(t_photo, t_file)
  BY DEF HeadInv
<1>2. Others(t_file.markers) = Others(t_photo.markers)
  BY <1>1 DEF HeadSame
<1>3. t_photo.space \in Tran!default_decompress_parms(Len(t_file.factors), t_file.markers)
  BY <1>1 DEF HeadSame, Coloured, Told
<1>4. ASSUME Tran!ExifFirst(t_photo), ~Adobed(t_photo) PROVE ExifAt(t_file, 1)
  BY <1>1, <1>4 DEF HeadSame, ExifRight
<1>5. ASSUME Tran!ExifFirst(t_photo), Adobed(t_photo), ~t_photo.damaged PROVE ExifAt(t_file, 2)
  BY <1>1, <1>5 DEF HeadKept
<1> QED BY <1>2, <1>3, <1>4, <1>5 DEF HeaderFollows, Tran!HeaderFollows, Others, ExifAt, Adobed
=============================================================================
