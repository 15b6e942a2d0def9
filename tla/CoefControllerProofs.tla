------------------------ MODULE CoefControllerProofs ------------------------
(***************************************************************************)
(* A pass of the decompressor shows all of the scan asked for: the         *)
(* invariant of CoefController.  The theorem is in PicturePartsProofs.     *)
(***************************************************************************)
EXTENDS CoefPart, Integers, Sequences, FiniteSets, SequenceTheorems, TLAPS

-----------------------------------------------------------------------------
(* Whole numbers first: iMCUs are divisions.                               *)
LEMMA Quotient ==
  ASSUME NEW a \in Nat, NEW k \in Nat \ {0}
  PROVE  /\ a \div k \in Nat /\ a % k \in Nat /\ a % k < k
         /\ a = k * (a \div k) + (a % k)
  OBVIOUS

LEMMA Times == ASSUME NEW a \in Nat, NEW b \in Nat PROVE a * b \in Nat
  OBVIOUS

(* Up(a, k) units of k are the least that hold a.                          *)
LEMMA CeilTo ==
  ASSUME NEW a \in Nat, NEW k \in Nat \ {0}, NEW q \in Nat
  PROVE  Coefs!ceil(a, k) \in Nat /\ (q < Coefs!ceil(a, k) <=> q * k < a)
<1>1. a + k - 1 \in Nat OBVIOUS
<1>2. PICK u \in Nat, r \in Nat : Coefs!ceil(a, k) = u /\ a + k - 1 = k * u + r /\ r < k
  BY <1>1, Quotient DEF Coefs!ceil
<1>3. q < u => q * k < a
  <2>1. ASSUME q < u PROVE q * k + k <= u * k
    <3>1. q + 1 <= u BY <2>1
    <3> QED BY <3>1
  <2> QED BY <1>2, <2>1
<1>4. q >= u => q * k >= a
  <2>1. ASSUME q >= u PROVE q * k >= u * k
    BY <2>1
  <2> QED BY <1>2, <2>1
<1> QED BY <1>2, <1>3, <1>4

(* The place q, r in units of k is one number. *)
LEMMA Unit ==
  ASSUME NEW q \in Nat, NEW k \in Nat \ {0}, NEW r \in Nat, r < k
  PROVE  (q * k + r) \div k = q /\ (q * k + r) % k = r
<1>1. q * k + r \in Nat OBVIOUS
<1>2. PICK u \in Nat, s \in Nat : /\ (q * k + r) \div k = u /\ (q * k + r) % k = s 
                       /\ q * k + r = k * u + s /\ s < k
  BY <1>1, Quotient
<1>3. ~(u > q)
  <2>1. u > q => k * u >= k * q + k
    <3>1. u > q => u >= q + 1 OBVIOUS
    <3> QED BY <3>1
  <2> QED BY <2>1, <1>2
<1>4. ~(u < q)
  <2>1. u < q => k * q >= k * u + k
    <3>1. u < q => q >= u + 1 OBVIOUS
    <3> QED BY <3>1
  <2> QED BY <2>1, <1>2
<1>5. u = q BY <1>3, <1>4
<1> QED BY <1>2, <1>5

-----------------------------------------------------------------------------
(* The coefficients between input and output.  A picture that has been     *)
(* opened, and what is worked out from it.                                 *)
Samplings == (1 .. 4) \X (1 .. 4)
Scanning(fs) == [comps : Seq(DOMAIN fs), Ss : Nat, Se : Nat, Al : Nat]
Opened(im) ==
  /\ im.width \in Nat \ {0} /\ im.height \in Nat \ {0}
  /\ im.factors \in Seq(Samplings) /\ im.factors # <<>>
  /\ im.scans \in Seq(Scanning(im.factors)) /\ im.scans # <<>>
  /\ \A n \in DOMAIN im.scans : im.scans[n].comps # <<>>
  /\ \/ im.progressive \/ Len(im.scans[1].comps) < Len(im.factors)
     \/ Len(im.scans) = 1 /\ Coefs!ToSet(im.scans[1].comps) = DOMAIN im.factors

MaxH(im) == Coefs!Max({im.factors[c][1] : c \in DOMAIN im.factors})
MaxV(im) == Coefs!Max({im.factors[c][2] : c \in DOMAIN im.factors})
Columns(im, c) == Coefs!ceil(im.width * im.factors[c][1], MaxH(im))
Lines(im, c) == Coefs!ceil(im.height * im.factors[c][2], MaxV(im))
IRows(im) == Coefs!ceil(im.height, MaxV(im))
LastLines(im, c) == IF Lines(im, c) % im.factors[c][2] = 0 THEN im.factors[c][2]
                    ELSE Lines(im, c) % im.factors[c][2]
(* A block that is none of the dummies. *)
Seen(im, b) ==
  /\ b[1] \in DOMAIN im.factors /\ b[2] \in Nat /\ b[3] \in Nat /\ b = <<b[1], b[2], b[3]>>
  /\ b[2] < Lines(im, b[1]) /\ b[3] < Columns(im, b[1])
PerRow(im, n) == IF Len(im.scans[n].comps) > 1 THEN Coefs!ceil(im.width, MaxH(im))
                 ELSE Columns(im, im.scans[n].comps[1])
(* The MCU rows of an iMCU row, and where in them a block of scan n is. *)
Deep(im, n, row) ==
  IF Len(im.scans[n].comps) > 1 THEN 1
  ELSE IF row < IRows(im) - 1 THEN im.factors[im.scans[n].comps[1]][2]
  ELSE LastLines(im, im.scans[n].comps[1])
At(im, n, b) ==
  IF Len(im.scans[n].comps) > 1 THEN b[3] \div im.factors[b[1]][1]
  ELSE (b[2] % im.factors[b[1]][2]) * PerRow(im, n) + b[3]
InScan(im, n) == {im.scans[n].comps[k] : k \in DOMAIN im.scans[n].comps}
(* The scans of a component, up to the nth. *)
Upto(im, c, n) == {s \in DOMAIN im.scans : s <= n /\ c \in InScan(im, s)}

LEMMA GreatestIs ==
  ASSUME NEW S \in SUBSET (1 .. 4), S # {}
  PROVE  Coefs!Max(S) \in S /\ \A k \in S : k <= Coefs!Max(S)
<1>1. \A n \in S : n \in {1, 2, 3, 4}
  OBVIOUS
<1>2. \E n \in S : \A k \in S : n >= k
  <2>1. CASE 4 \in S BY <1>1, <2>1
  <2>2. CASE 4 \notin S /\ 3 \in S BY <1>1, <2>2
  <2>3. CASE 4 \notin S /\ 3 \notin S /\ 2 \in S BY <1>1, <2>3
  <2>4. CASE 4 \notin S /\ 3 \notin S /\ 2 \notin S
    <3>1. \A k \in S : k = 1
      BY <1>1, <2>4
    <3>2. PICK x \in S : TRUE
      OBVIOUS
    <3>3. x \in S /\ \A k \in S : x >= k
      BY <3>1
    <3> QED BY <3>3
  <2> QED BY <2>1, <2>2, <2>3, <2>4
<1>3. Coefs!Max(S) \in S /\ \A k \in S : Coefs!Max(S) >= k
  BY <1>2 DEF Coefs!Max
<1> QED BY <1>3

LEMMA SizesAre ==
  ASSUME NEW im, Opened(im)
  PROVE  /\ im.width \in Nat \ {0} /\ im.height \in Nat \ {0}
         /\ MaxH(im) \in 1 .. 4 /\ MaxV(im) \in 1 .. 4
         /\ \A c \in DOMAIN im.factors :
              /\ im.factors[c][1] \in 1 .. 4 /\ im.factors[c][1] <= MaxH(im)
              /\ im.factors[c][2] \in 1 .. 4 /\ im.factors[c][2] <= MaxV(im)
<1> DEFINE fs == im.factors
<1>1. fs \in Seq(Samplings) /\ fs # <<>>
  BY DEF Opened
<1> DEFINE H == {fs[c][1] : c \in DOMAIN fs}  V == {fs[c][2] : c \in DOMAIN fs}
<1>2. /\ \A c \in DOMAIN fs : fs[c][1] \in 1 .. 4 /\ fs[c][2] \in 1 .. 4
      /\ DOMAIN fs # {}
  <2>1. \A c \in DOMAIN fs : fs[c][1] \in 1 .. 4 /\ fs[c][2] \in 1 .. 4
    <3>1. DOMAIN fs = 1 .. Len(fs) /\ fs \in [1 .. Len(fs) -> Samplings]
      BY <1>1, LenProperties
    <3>2. \A c \in DOMAIN fs : fs[c] \in Samplings
      BY <3>1
    <3> QED BY <3>2 DEF Samplings
  <2>2. Len(fs) # 0 /\ Len(fs) \in Nat /\ DOMAIN fs = 1 .. Len(fs)
    BY <1>1, EmptySeq, LenProperties
  <2>3. 1 \in 1 .. Len(fs)
    BY <2>2
  <2> QED BY <2>1, <2>2, <2>3
<1>3. H \in SUBSET (1 .. 4) /\ H # {} /\ V \in SUBSET (1 .. 4) /\ V # {}
  BY <1>2
<1>4. MaxH(im) = Coefs!Max(H) /\ MaxV(im) = Coefs!Max(V)
  BY DEF MaxH, MaxV
<1>5. \A c \in DOMAIN fs : fs[c][1] \in H /\ fs[c][2] \in V
  OBVIOUS
<1> HIDE DEF H, V
<1>6. /\ Coefs!Max(H) \in H /\ \A k \in H : k <= Coefs!Max(H)
      /\ Coefs!Max(V) \in V /\ \A k \in V : k <= Coefs!Max(V)
  BY <1>3, GreatestIs
<1>7. MaxH(im) \in 1 .. 4 /\ MaxV(im) \in 1 .. 4
  BY <1>3, <1>4, <1>6
<1> QED BY <1>2, <1>4, <1>5, <1>6, <1>7 DEF Opened

(* n blocks of f to m, the last of them perhaps in part: of rows of f,     *)
(* each but the last one is whole. *)
LEMMA RowsOf ==
  ASSUME NEW size \in Nat \ {0}, NEW m \in 1 .. 4, NEW f \in 1 .. m
  PROVE  LET n == Coefs!ceil(size * f, m)  rows == Coefs!ceil(size, m) IN
         /\ n \in Nat \ {0} /\ rows \in Nat \ {0} /\ n <= size
         /\ (rows - 1) * f < n /\ n <= rows * f
<1>1. m \in Nat \ {0} /\ f \in Nat \ {0} /\ f <= m /\ size * f \in Nat \ {0} /\ size * f <= size * m
  <2>1. m \in Nat \ {0} /\ f \in Nat \ {0} /\ f <= m
    OBVIOUS
  <2> QED BY <2>1
<1> DEFINE n == Coefs!ceil(size * f, m)  rows == Coefs!ceil(size, m)
<1>2. n \in Nat /\ rows \in Nat /\ (\A q \in Nat : q < n <=> q * m < size * f)
      /\ (\A q \in Nat : q < rows <=> q * m < size)
  BY <1>1, CeilTo
<1> HIDE DEF n, rows
<1>3. rows # 0
  BY <1>2
<1>4. n <= size
  <2>1. ~(size * m < size * f)
    BY <1>1
  <2> QED BY <1>2, <2>1
<1>5. (rows - 1) * f < n
  <2>1. rows - 1 \in Nat /\ (rows - 1) * m < size
    BY <1>2, <1>3
  <2>2. (rows - 1) * m * f < size * f
    BY <1>1, <2>1
  <2>3. (rows - 1) * f \in Nat /\ ((rows - 1) * f) * m = (rows - 1) * m * f
    BY <1>1, <2>1
  <2> QED BY <1>2, <2>2, <2>3
<1>6. n <= rows * f
  <2>1. ~(rows * m < size)
    BY <1>2
  <2>2. rows * m \in Nat /\ size <= rows * m
    BY <1>1, <1>2, <2>1
  <2>3. size * f <= (rows * m) * f
    BY <1>1, <2>2
  <2>4. (rows * f) * m = (rows * m) * f /\ rows * f \in Nat
    BY <1>1, <1>2
  <2>5. ~((rows * f) * m < size * f)
    BY <1>1, <1>2, <2>2, <2>3, <2>4
  <2> QED BY <1>2, <2>4, <2>5
<1>7. n # 0
  BY <1>1, <1>2
<1> QED BY <1>2, <1>3, <1>4, <1>5, <1>6, <1>7 DEF n, rows

LEMMA SidesAre ==
  ASSUME NEW im, Opened(im)
  PROVE  /\ IRows(im) \in Nat \ {0}
         /\ \A c \in DOMAIN im.factors :
              /\ Lines(im, c) \in Nat /\ Lines(im, c) <= im.height
              /\ Columns(im, c) \in Nat \ {0} /\ Columns(im, c) <= im.width
              /\ (IRows(im) - 1) * im.factors[c][2] < Lines(im, c)
              /\ Lines(im, c) <= IRows(im) * im.factors[c][2]
              /\ Coefs!ceil(im.width, MaxH(im)) \in Nat \ {0}
              /\ Columns(im, c) <= Coefs!ceil(im.width, MaxH(im)) * im.factors[c][1]
<1>1. /\ im.width \in Nat \ {0} /\ im.height \in Nat \ {0}
      /\ MaxH(im) \in 1 .. 4 /\ MaxV(im) \in 1 .. 4
      /\ \A c \in DOMAIN im.factors :
           im.factors[c][1] \in 1 .. MaxH(im) /\ im.factors[c][2] \in 1 .. MaxV(im)
  BY SizesAre
<1>2. /\ IRows(im) = Coefs!ceil(im.height, MaxV(im))
      /\ \A c : Lines(im, c) = Coefs!ceil(im.height * im.factors[c][2], MaxV(im))
      /\ \A c : Columns(im, c) = Coefs!ceil(im.width * im.factors[c][1], MaxH(im))
  BY DEF IRows, Lines, Columns
<1>3. ASSUME NEW c \in DOMAIN im.factors
      PROVE  /\ IRows(im) \in Nat \ {0}
             /\ Lines(im, c) \in Nat /\ Lines(im, c) <= im.height
             /\ Columns(im, c) \in Nat \ {0} /\ Columns(im, c) <= im.width
             /\ (IRows(im) - 1) * im.factors[c][2] < Lines(im, c)
             /\ Lines(im, c) <= IRows(im) * im.factors[c][2]
             /\ Coefs!ceil(im.width, MaxH(im)) \in Nat \ {0}
             /\ Columns(im, c) <= Coefs!ceil(im.width, MaxH(im)) * im.factors[c][1]
  <2> DEFINE h == im.factors[c][1]  v == im.factors[c][2]  m == MaxH(im)  n == MaxV(im)  w == im.width  t == im.height
  <2>1. w \in Nat \ {0} /\ t \in Nat \ {0} /\ m \in 1 .. 4 /\ n \in 1 .. 4 /\ h \in 1 .. m /\ v \in 1 .. n
    BY <1>1
  <2>2. /\ IRows(im) = Coefs!ceil(t, n) /\ Coefs!ceil(im.width, MaxH(im)) = Coefs!ceil(w, m)
        /\ Lines(im, c) = Coefs!ceil(t * v, n) /\ Columns(im, c) = Coefs!ceil(w * h, m)
    BY <1>2
  <2> HIDE DEF h, v, m, n, w, t
  <2>3. /\ Coefs!ceil(t * v, n) \in Nat /\ Coefs!ceil(t, n) \in Nat \ {0} /\ Coefs!ceil(t * v, n) <= t
        /\ (Coefs!ceil(t, n) - 1) * v < Coefs!ceil(t * v, n) /\ Coefs!ceil(t * v, n) <= Coefs!ceil(t, n) * v
    BY <2>1, RowsOf
  <2>4. /\ Coefs!ceil(w * h, m) \in Nat \ {0} /\ Coefs!ceil(w, m) \in Nat \ {0} /\ Coefs!ceil(w * h, m) <= w
        /\ Coefs!ceil(w * h, m) <= Coefs!ceil(w, m) * h
    BY <2>1, RowsOf
  <2> QED BY <2>2, <2>3, <2>4 DEF h, v, w, t
<1>4. DOMAIN im.factors # {}
  <2>1. im.factors \in Seq(Samplings) /\ im.factors # <<>>
    BY DEF Opened
  <2>2. Len(im.factors) # 0 /\ Len(im.factors) \in Nat /\ DOMAIN im.factors = 1 .. Len(im.factors)
    BY <2>1, EmptySeq, LenProperties
  <2>3. 1 \in 1 .. Len(im.factors)
    BY <2>2
  <2> QED BY <2>2, <2>3
<1> QED BY <1>3, <1>4

LEMMA LastLinesAre ==
  ASSUME NEW im, Opened(im), NEW c \in DOMAIN im.factors
  PROVE  /\ LastLines(im, c) \in 1 .. im.factors[c][2]
         /\ Lines(im, c) = (IRows(im) - 1) * im.factors[c][2] + LastLines(im, c)
<1> DEFINE v == im.factors[c][2]  n == Lines(im, c)  q == IRows(im) - 1
<1>1. v \in Nat \ {0} /\ n \in Nat /\ q \in Nat /\ q * v < n /\ n <= (q + 1) * v
  BY SizesAre, SidesAre
<1>2. LastLines(im, c) = IF n % v = 0 THEN v ELSE n % v
  BY DEF LastLines
<1> HIDE DEF v, n, q
<1>3. q * v \in Nat /\ (q + 1) * v = q * v + v
  BY <1>1
<1> DEFINE r == n - q * v
<1>4. r \in Nat /\ 0 < r /\ r <= v /\ n = q * v + r
  BY <1>1, <1>3
<1> HIDE DEF r
<1>5. CASE r < v
  <2>1. n % v = r
    BY <1>1, <1>4, <1>5, Unit
  <2> QED BY <1>1, <1>2, <1>4, <2>1 DEF v, n, q
<1>6. CASE r = v
  <2>1. n = (q + 1) * v + 0 /\ q + 1 \in Nat
    BY <1>1, <1>3, <1>4, <1>6
  <2>2. ((q + 1) * v + 0) % v = 0
    BY <1>1, <2>1, Unit
  <2>3. n % v = 0
    BY <2>1, <2>2
  <2> QED BY <1>1, <1>2, <1>4, <1>6, <2>3 DEF v, n, q
<1> QED BY <1>1, <1>4, <1>5, <1>6

(* A line of a component that is there, by its iMCU row. *)
LEMMA LineIn ==
  ASSUME NEW im, Opened(im), NEW c \in DOMAIN im.factors, NEW y \in Nat
  PROVE  LET v == im.factors[c][2]  row == y \div v IN
         /\ row \in Nat /\ row * v <= y /\ y - row * v < v /\ y % v = y - row * v
         /\ y < Lines(im, c) => row < IRows(im)
         /\ row < IRows(im) - 1 => y < Lines(im, c)
         /\ row = IRows(im) - 1 => (y < Lines(im, c) <=> y - row * v < LastLines(im, c))
<1> DEFINE v == im.factors[c][2]  row == y \div v  n == Lines(im, c)  l == LastLines(im, c)  rows == IRows(im)
<1>1. /\ v \in Nat \ {0} /\ n \in Nat /\ rows \in Nat \ {0}
      /\ l \in 1 .. v /\ n = (rows - 1) * v + l
  BY SizesAre, SidesAre, LastLinesAre
<1>2. row \in Nat /\ y % v \in Nat /\ y % v < v /\ y = v * row + (y % v)
  BY <1>1, Quotient
<1> DEFINE r == y % v
<1> HIDE DEF v, row, n, l, rows, r
<1>3. r \in Nat /\ r < v /\ y = v * row + r /\ v * row = row * v /\ row * v \in Nat
  BY <1>1, <1>2 DEF r
<1>4. row * v <= y /\ y - row * v = r
  BY <1>3, <1>1, <1>2
<1>5. y < n => row < rows
  <2>1. row >= rows => row * v >= rows * v
    BY <1>1, <1>2
  <2>2. (rows - 1) * v = rows * v - v /\ rows * v \in Nat
    BY <1>1
  <2> QED BY <1>1, <1>2, <1>4, <2>1, <2>2
<1>6. row < rows - 1 => y < n
  <2>1. row < rows - 1 => (row + 1) * v <= (rows - 1) * v
    BY <1>1, <1>2
  <2>2. (row + 1) * v = row * v + v /\ (rows - 1) * v \in Nat
    BY <1>1, <1>2
  <2> QED BY <1>1, <1>3, <1>4, <2>1, <2>2
<1>7. row = rows - 1 => (y < n <=> y - row * v < l)
  BY <1>1, <1>2, <1>3, <1>4
<1> QED BY <1>2, <1>3, <1>4, <1>5, <1>6, <1>7 DEF v, row, n, l, rows, r

LEMMA OpenedScans ==
  ASSUME NEW im, Opened(im)
  PROVE  Len(im.scans) \in Nat \ {0} /\ DOMAIN im.scans = 1 .. Len(im.scans) /\ 1 \in DOMAIN im.scans
<1>1. im.scans \in Seq(Scanning(im.factors)) /\ im.scans # <<>>
  BY DEF Opened
<1>2. Len(im.scans) \in Nat /\ Len(im.scans) # 0 /\ DOMAIN im.scans = 1 .. Len(im.scans)
  BY <1>1, LenProperties, EmptySeq
<1> QED BY <1>2

LEMMA SavedIs == SAVED_COEFS \in Nat
  BY ScannedAssumption DEF Coefs!ImagesAssumption

LEMMA ScanIs ==
  ASSUME NEW im, Opened(im), NEW n \in DOMAIN im.scans
  PROVE  /\ Len(im.scans) \in Nat \ {0} /\ DOMAIN im.scans = 1 .. Len(im.scans)
         /\ 1 \in DOMAIN im.scans /\ n \in Nat \ {0}
         /\ InScan(im, n) \subseteq DOMAIN im.factors
         /\ im.scans[n].comps[1] \in InScan(im, n)
         /\ ~(Len(im.scans[n].comps) > 1) => InScan(im, n) = {im.scans[n].comps[1]}
         /\ im.scans[n].Ss \in Nat /\ im.scans[n].Se \in Nat /\ im.scans[n].Al \in Nat
<1>1. im.scans \in Seq(Scanning(im.factors)) /\ im.scans # <<>> /\ im.scans[n].comps # <<>>
  BY DEF Opened
<1>2. /\ Len(im.scans) \in Nat /\ DOMAIN im.scans = 1 .. Len(im.scans)
      /\ Len(im.scans) # 0 /\ im.scans[n] \in Scanning(im.factors)
  BY <1>1, LenProperties, EmptySeq
<1> DEFINE cs == im.scans[n].comps
<1>3. /\ cs \in Seq(DOMAIN im.factors) /\ cs # <<>>
      /\ im.scans[n].Ss \in Nat /\ im.scans[n].Se \in Nat /\ im.scans[n].Al \in Nat
  BY <1>1, <1>2 DEF Scanning
<1> HIDE DEF cs
<1>4. /\ Len(cs) \in Nat /\ DOMAIN cs = 1 .. Len(cs) /\ Len(cs) # 0
      /\ \A k \in DOMAIN cs : cs[k] \in DOMAIN im.factors
  BY <1>3, LenProperties, EmptySeq
<1>5. InScan(im, n) = {cs[k] : k \in DOMAIN cs}
  BY DEF InScan, cs
<1>6. 1 \in DOMAIN cs
  BY <1>4
<1>7. ~(Len(cs) > 1) => DOMAIN cs = {1}
  BY <1>4
<1>8. n \in Nat \ {0} /\ 1 \in DOMAIN im.scans /\ Len(im.scans) \in Nat \ {0}
  BY <1>2
<1> QED BY <1>2, <1>3, <1>4, <1>5, <1>6, <1>7, <1>8 DEF cs

(* A block of a scan has its place in the iMCU row it is in. *)
LEMMA PlaceIs ==
  ASSUME NEW im, Opened(im), NEW n \in DOMAIN im.scans, NEW b, Seen(im, b), b[1] \in InScan(im, n)
  PROVE  /\ PerRow(im, n) \in Nat \ {0} /\ At(im, n, b) \in Nat
         /\ At(im, n, b) < PerRow(im, n) * Deep(im, n, b[2] \div im.factors[b[1]][2])
<1> DEFINE c == b[1]  y == b[2]  x == b[3]  h == im.factors[b[1]][1]  v == im.factors[b[1]][2]
           w == Columns(im, c)  row == y \div v  m == Coefs!ceil(im.width, MaxH(im))
<1>1. /\ c \in DOMAIN im.factors /\ y \in Nat /\ x \in Nat /\ y < Lines(im, c) /\ x < w
  BY DEF Seen
<1>2. /\ h \in Nat \ {0} /\ v \in Nat \ {0} /\ w \in Nat \ {0} /\ m \in Nat \ {0} /\ w <= m * h
  BY <1>1, SizesAre, SidesAre
<1>3. CASE Len(im.scans[n].comps) > 1
  <2>1. PerRow(im, n) = m /\ At(im, n, b) = x \div h /\ Deep(im, n, row) = 1
    BY <1>3 DEF PerRow, At, Deep
  <2> HIDE DEF x, h, w, m, row
  <2> DEFINE q == x \div h
  <2>2. q \in Nat /\ x % h \in Nat /\ x = h * q + (x % h)
    BY <1>1, <1>2, Quotient
  <2> HIDE DEF q
  <2>3. q < m
    <3>1. q >= m => q * h >= m * h
      BY <1>2, <2>2
    <3>2. m * h \in Nat /\ q * h = h * q /\ h * q \in Nat
      BY <1>2, <2>2
    <3> QED BY <1>1, <1>2, <2>2, <3>1, <3>2
  <2>4. m * 1 = m
    BY <1>2
  <2> QED BY <1>2, <2>1, <2>2, <2>3, <2>4 DEF row, q
<1>4. CASE ~(Len(im.scans[n].comps) > 1)
  <2>1. im.scans[n].comps[1] = c
    BY <1>4, ScanIs
  <2> DEFINE d == Deep(im, n, row)
  <2>2. /\ PerRow(im, n) = w /\ At(im, n, b) = (y % v) * w + x
        /\ d = IF row < IRows(im) - 1 THEN v ELSE LastLines(im, c)
    BY <1>4, <2>1 DEF PerRow, At, Deep
  <2>3. /\ row \in Nat /\ row * v <= y /\ y - row * v < v /\ y % v = y - row * v
        /\ row < IRows(im)
        /\ row = IRows(im) - 1 => y - row * v < LastLines(im, c)
    BY <1>1, LineIn
  <2>4. IRows(im) \in Nat \ {0} /\ LastLines(im, c) \in 1 .. v
    BY <1>1, SidesAre, LastLinesAre
  <2> HIDE DEF x, y, h, v, w, m, row, d
  <2>5. y % v \in Nat /\ y % v < d /\ d \in Nat
    <3>1. row * v \in Nat /\ y % v \in Nat
      BY <1>1, <1>2, <2>3
    <3> QED BY <1>2, <2>2, <2>3, <2>4, <3>1
  <2>6. (y % v) * w + x < w * d
    <3>1. (y % v) + 1 <= d
      BY <2>5
    <3>2. ((y % v) + 1) * w <= d * w
      BY <1>2, <2>5, <3>1
    <3>3. ((y % v) + 1) * w = (y % v) * w + w /\ (y % v) * w \in Nat /\ d * w = w * d
      BY <1>2, <2>5
    <3> QED BY <1>1, <1>2, <2>5, <3>2, <3>3
  <2>7. (y % v) * w + x \in Nat
    BY <1>1, <1>2, <2>5
  <2> QED BY <1>2, <2>2, <2>6, <2>7 DEF d, row, y, v
<1> QED BY <1>3, <1>4

-----------------------------------------------------------------------------
(* The same of the picture that is open.                                   *)
LEMMA OfImage ==
  /\ Coefs!Comps = DOMAIN f_image.factors
  /\ Coefs!total_iMCU_rows = IRows(f_image)
  /\ Coefs!max_h = MaxH(f_image) /\ Coefs!max_v = MaxV(f_image)
  /\ \A c \in DOMAIN f_image.factors :
       /\ Coefs!h_samp(c) = f_image.factors[c][1] /\ Coefs!v_samp(c) = f_image.factors[c][2]
       /\ Coefs!width_in_blocks(c) = Columns(f_image, c) /\ Coefs!height_in_blocks(c) = Lines(f_image, c)
       /\ Coefs!last_row_height(c) = LastLines(f_image, c)
  /\ \A c, n : Coefs!ScansOf(c, n) = Upto(f_image, c, n)
<1>1. Coefs!Comps = DOMAIN f_image.factors
  BY DEF Coefs!Comps
<1>2. \A c : Coefs!h_samp(c) = f_image.factors[c][1] /\ Coefs!v_samp(c) = f_image.factors[c][2]
  BY DEF Coefs!h_samp, Coefs!v_samp
<1>3. Coefs!max_h = MaxH(f_image) /\ Coefs!max_v = MaxV(f_image)
  BY DEF Coefs!max_h, Coefs!max_v, MaxH, MaxV, Coefs!Comps, Coefs!h_samp, Coefs!v_samp
<1>4. Coefs!total_iMCU_rows = IRows(f_image)
  BY <1>3 DEF Coefs!total_iMCU_rows, IRows
<1>5. \A c : Coefs!width_in_blocks(c) = Columns(f_image, c) /\ Coefs!height_in_blocks(c) = Lines(f_image, c)
  BY <1>2, <1>3 DEF Coefs!width_in_blocks, Coefs!height_in_blocks, Columns, Lines
<1>6. \A c : Coefs!last_row_height(c) = LastLines(f_image, c)
  BY <1>2, <1>5 DEF Coefs!last_row_height, LastLines
<1>7. \A c, n : Coefs!ScansOf(c, n) = Upto(f_image, c, n)
  BY DEF Coefs!ScansOf, Upto, InScan, Coefs!ToSet
<1> QED BY <1>1, <1>2, <1>3, <1>4, <1>5, <1>6, <1>7

LEMMA OfScan ==
  ASSUME Opened(f_image), f_i.scan \in DOMAIN f_image.scans, f_i.iMCU_row \in Nat
  PROVE  /\ Coefs!MCUs_per_row = PerRow(f_image, f_i.scan)
         /\ Coefs!MCU_rows_per_iMCU_row = Deep(f_image, f_i.scan, f_i.iMCU_row)
         /\ PerRow(f_image, f_i.scan) \in Nat \ {0}
         /\ Deep(f_image, f_i.scan, f_i.iMCU_row) \in Nat \ {0}
<1> DEFINE c == f_image.scans[f_i.scan].comps[1]
<1>1. c \in DOMAIN f_image.factors
  BY ScanIs
<1>2. Coefs!MCUs_per_row = PerRow(f_image, f_i.scan)
  BY <1>1, OfImage DEF Coefs!MCUs_per_row, PerRow, Coefs!Interleaved, Coefs!Scan
<1>3. Coefs!MCU_rows_per_iMCU_row = Deep(f_image, f_i.scan, f_i.iMCU_row)
  BY <1>1, OfImage DEF Coefs!MCU_rows_per_iMCU_row, Deep, Coefs!Interleaved, Coefs!Scan
<1>4. PerRow(f_image, f_i.scan) \in Nat \ {0}
  BY <1>1, SidesAre DEF PerRow
<1>5. LastLines(f_image, c) \in 1 .. f_image.factors[c][2] /\ f_image.factors[c][2] \in 1 .. 4
  BY <1>1, LastLinesAre, SizesAre
<1>6. Deep(f_image, f_i.scan, f_i.iMCU_row) \in Nat \ {0}
  BY SMTT(30), <1>5 DEF Deep
<1> QED BY <1>2, <1>3, <1>4, <1>6

(* The blocks that are none of the dummies are in the arrays.              *)
LEMMA RealAre ==
  ASSUME Opened(f_image)
  PROVE  /\ \A b : Seen(f_image, b) => b \in Coefs!Padded
         /\ \A b \in Coefs!Padded :
              b[1] \in DOMAIN f_image.factors /\ b[2] \in Nat /\ b[3] \in Nat /\ b = <<b[1], b[2], b[3]>>
         /\ \A b, row : b \in Coefs!RealBlocks(row) <=>
                          Seen(f_image, b) /\ b[2] \div f_image.factors[b[1]][2] = row
<1>1. ASSUME NEW b, Seen(f_image, b) PROVE b \in Coefs!Padded
  <2> DEFINE c == b[1]  v == f_image.factors[b[1]][2]  h == f_image.factors[b[1]][1]
             n == Lines(f_image, c)  w == Columns(f_image, c)
  <2>1. /\ c \in DOMAIN f_image.factors /\ b[2] \in Nat /\ b[3] \in Nat /\ b = <<b[1], b[2], b[3]>>
        /\ b[2] < n /\ b[3] < w
    BY <1>1 DEF Seen
  <2>2. /\ v \in Nat \ {0} /\ h \in Nat \ {0} /\ n \in Nat /\ w \in Nat
        /\ n <= f_image.height /\ w <= f_image.width /\ f_image.height \in Nat /\ f_image.width \in Nat
        /\ MaxV(f_image) \in Nat /\ MaxH(f_image) \in Nat
    BY <2>1, SizesAre, SidesAre
  <2>3. \A a \in Nat, k \in Nat \ {0} : Coefs!ceil(a, k) \in Nat /\ a <= k * Coefs!ceil(a, k)
    <3> SUFFICES ASSUME NEW a \in Nat, NEW k \in Nat \ {0} PROVE Coefs!ceil(a, k) \in Nat /\ a <= k * Coefs!ceil(a, k)
      OBVIOUS
    <3> DEFINE u == Coefs!ceil(a, k)
    <3>1. Coefs!ceil(a, k) = u
      OBVIOUS
    <3>2. u \in Nat /\ \A q \in Nat : q < u <=> q * k < a
      BY CeilTo
    <3> HIDE DEF u
    <3>3. ~(u * k < a) /\ u * k = k * u /\ k * u \in Nat
      BY <3>2
    <3> QED BY <3>1, <3>2, <3>3
  <2>4. b[2] < v * Coefs!ceil(n, v) /\ b[3] < h * Coefs!ceil(w, h)
    <3> HIDE DEF n, v, w, h
    <3>1. /\ Coefs!ceil(n, v) \in Nat /\ n <= v * Coefs!ceil(n, v)
          /\ Coefs!ceil(w, h) \in Nat /\ w <= h * Coefs!ceil(w, h)
      BY <2>2, <2>3
    <3>2. v * Coefs!ceil(n, v) \in Nat /\ h * Coefs!ceil(w, h) \in Nat
      BY <2>2, <3>1
    <3> QED BY <2>1, <2>2, <3>1, <3>2
  <2>5. b[2] \in 0 .. f_image.height + Coefs!max_v /\ b[3] \in 0 .. f_image.width + Coefs!max_h
    BY <2>1, <2>2, OfImage
  <2>6. b[2] < Coefs!v_samp(b[1]) * Coefs!ceil(Coefs!height_in_blocks(b[1]), Coefs!v_samp(b[1]))
    BY <2>1, <2>4, OfImage
  <2>7. b[3] < Coefs!h_samp(b[1]) * Coefs!ceil(Coefs!width_in_blocks(b[1]), Coefs!h_samp(b[1]))
    BY <2>1, <2>4, OfImage
  <2>8. b \in Coefs!Comps \X (0 .. f_image.height + Coefs!max_v) \X (0 .. f_image.width + Coefs!max_h)
    BY <2>1, <2>5, OfImage
  <2> QED BY <2>6, <2>7, <2>8 DEF Coefs!Padded
<1>2. ASSUME NEW b \in Coefs!Padded
      PROVE  b[1] \in DOMAIN f_image.factors /\ b[2] \in Nat /\ b[3] \in Nat /\ b = <<b[1], b[2], b[3]>>
  <2>1. b \in Coefs!Comps \X (0 .. f_image.height + Coefs!max_v) \X (0 .. f_image.width + Coefs!max_h)
    BY DEF Coefs!Padded
  <2>2. /\ f_image.height + Coefs!max_v \in Nat /\ f_image.width + Coefs!max_h \in Nat
        /\ Coefs!Comps = DOMAIN f_image.factors
    BY OfImage, SizesAre
  <2> QED BY <2>1, <2>2
<1>3. ASSUME NEW b, NEW row
      PROVE  b \in Coefs!RealBlocks(row) <=>
               Seen(f_image, b) /\ b[2] \div f_image.factors[b[1]][2] = row
  <2>1. b \in Coefs!RealBlocks(row) =>
          Seen(f_image, b) /\ b[2] \div f_image.factors[b[1]][2] = row
    BY <1>2, OfImage DEF Coefs!RealBlocks, Seen
  <2>2. Seen(f_image, b) /\ b[2] \div f_image.factors[b[1]][2] = row => b \in Coefs!RealBlocks(row)
    <3> SUFFICES ASSUME Seen(f_image, b), b[2] \div f_image.factors[b[1]][2] = row PROVE b \in Coefs!RealBlocks(row)
      OBVIOUS
    <3>1. b[1] \in DOMAIN f_image.factors /\ b[2] < Lines(f_image, b[1]) /\ b[3] < Columns(f_image, b[1])
      BY DEF Seen
    <3>2. b \in Coefs!Padded
      BY <1>1
    <3> QED BY <3>1, <3>2, OfImage DEF Coefs!RealBlocks
  <2> QED BY <2>1, <2>2
<1> QED BY <1>1, <1>2, <1>3

(* What has been decoded of the scan: how many MCUs of the iMCU row.       *)
CursorOf(im, i) == i.MCU_vert_offset * PerRow(im, i.scan) + i.MCU_ctr
ImcuOf(im, b) == b[2] \div im.factors[b[1]][2]
Reading ==
  /\ Opened(f_image) /\ f_i.scan \in DOMAIN f_image.scans /\ f_i.iMCU_row \in Nat
  /\ f_i.MCU_vert_offset \in Nat /\ f_i.MCU_ctr \in Nat

LEMMA LeftIs ==
  ASSUME Reading, NEW k \in 0 .. Coefs!MCUsLeft
  PROVE  /\ CursorOf(f_image, f_i) \in Nat /\ CursorOf(f_image, f_i) + k <= PerRow(f_image, f_i.scan) * Deep(f_image, f_i.scan, f_i.iMCU_row)
         /\ k = Coefs!MCUsLeft =>
              CursorOf(f_image, f_i) + k = PerRow(f_image, f_i.scan) * Deep(f_image, f_i.scan, f_i.iMCU_row)
<1> DEFINE n == PerRow(f_image, f_i.scan)  d == Deep(f_image, f_i.scan, f_i.iMCU_row)
           v == f_i.MCU_vert_offset  t == f_i.MCU_ctr
<1>1. n \in Nat \ {0} /\ d \in Nat \ {0} /\ v \in Nat /\ t \in Nat
  BY OfScan DEF Reading
<1>2. Coefs!MCUsLeft = n * (d - v) - t
  BY OfScan DEF Reading, Coefs!MCUsLeft
<1>3. CursorOf(f_image, f_i) = v * n + t
  BY DEF CursorOf
<1> HIDE DEF n, d, v, t
<1>4. n * (d - v) = n * d - v * n /\ n * d \in Nat /\ v * n \in Nat
  BY <1>1
<1>5. k \in Nat /\ k <= n * (d - v) - t
  BY <1>1, <1>2, <1>4
<1> QED BY <1>1, <1>2, <1>3, <1>4, <1>5 DEF n, d

(* The blocks of an MCU.                                                   *)
LEMMA MCUIs ==
  ASSUME Reading, NEW yoffset \in Nat, NEW col \in Nat,
         yoffset < Deep(f_image, f_i.scan, f_i.iMCU_row)
  PROVE  /\ \A b \in Coefs!MCU(yoffset, col) :
              /\ b[1] \in InScan(f_image, f_i.scan) /\ b = <<b[1], b[2], b[3]>>
              /\ b[2] \in Nat /\ b[3] \in Nat /\ ImcuOf(f_image, b) = f_i.iMCU_row
         /\ \A b : Seen(f_image, b) =>
              (b \in Coefs!MCU(yoffset, col) <=>
                 /\ b[1] \in InScan(f_image, f_i.scan) /\ ImcuOf(f_image, b) = f_i.iMCU_row
                 /\ IF Len(f_image.scans[f_i.scan].comps) > 1
                    THEN b[3] \div f_image.factors[b[1]][1] = col
                    ELSE b[2] % f_image.factors[b[1]][2] = yoffset /\ b[3] = col)
<1> DEFINE n == f_i.scan  row == f_i.iMCU_row  many == Len(f_image.scans[f_i.scan].comps) > 1
           H(c) == IF many THEN f_image.factors[c][1] ELSE 1
           V(c) == IF many THEN f_image.factors[c][2] ELSE 1
           Blocks_ == {a \in InScan(f_image, n) \X (0 .. MaxV(f_image) - 1) \X (0 .. MaxH(f_image) - 1) :
                        a[2] < V(a[1]) /\ a[3] < H(a[1])}
           Fact(c) == f_image.factors[c][2]
<1>1. /\ row \in Nat /\ n \in DOMAIN f_image.scans /\ Opened(f_image)
      /\ InScan(f_image, n) \subseteq DOMAIN f_image.factors
      /\ ~many => InScan(f_image, n) = {f_image.scans[n].comps[1]}
  BY ScanIs DEF Reading
<1>2. /\ MaxH(f_image) \in Nat \ {0} /\ MaxV(f_image) \in Nat \ {0}
      /\ \A c \in InScan(f_image, n) :
           /\ f_image.factors[c][1] \in Nat \ {0} /\ Fact(c) \in Nat \ {0}
           /\ H(c) \in Nat \ {0} /\ H(c) <= MaxH(f_image) /\ V(c) \in Nat \ {0} /\ V(c) <= MaxV(f_image)
  BY <1>1, SizesAre
<1>3. many => yoffset = 0
  BY DEF Deep
<1>4. \A c \in InScan(f_image, n) : yoffset + V(c) <= Fact(c)
  <2> SUFFICES ASSUME NEW c \in InScan(f_image, n) PROVE yoffset + V(c) <= Fact(c)
    OBVIOUS
  <2>1. CASE many
    BY <1>2, <1>3, <2>1
  <2>2. CASE ~many
    <3>1. c = f_image.scans[n].comps[1]
      BY <1>1, <2>2
    <3>2. LastLines(f_image, c) \in 1 .. Fact(c)
      BY <1>1, LastLinesAre
    <3>3. yoffset < Fact(c)
      <4>1. Deep(f_image, n, row) = IF row < IRows(f_image) - 1 THEN Fact(c) ELSE LastLines(f_image, c)
        BY <2>2, <3>1 DEF Deep
      <4>2. Fact(c) \in Nat
        BY <1>2
      <4> HIDE DEF Fact
      <4>3. LastLines(f_image, c) \in Nat /\ LastLines(f_image, c) <= Fact(c)
        BY <3>2, <4>2 DEF Fact
      <4> QED BY <4>1, <4>2, <4>3
    <3> QED BY <1>2, <2>2, <3>3
  <2> QED BY <2>1, <2>2
<1>5. Coefs!MCU(yoffset, col) = {<<a[1], row * Fact(a[1]) + yoffset + a[2], col * H(a[1]) + a[3]>> : a \in Blocks_}
  <2>1. \A a \in InScan(f_image, n) \X (0 .. MaxV(f_image) - 1) \X (0 .. MaxH(f_image) - 1) :
          /\ Coefs!v_samp(a[1]) = Fact(a[1])
          /\ Coefs!MCU_width(a[1]) = H(a[1]) /\ Coefs!MCU_height(a[1]) = V(a[1])
    BY <1>1, OfImage DEF Coefs!MCU_width, Coefs!MCU_height, Coefs!Interleaved, Coefs!Scan
  <2>2. Coefs!ToSet(Coefs!Scan.comps) = InScan(f_image, n)
    BY DEF Coefs!ToSet, Coefs!Scan, InScan
  <2>3. Coefs!max_v = MaxV(f_image) /\ Coefs!max_h = MaxH(f_image)
    BY OfImage
  <2>4. Blocks_ = {a \in InScan(f_image, n) \X (0 .. MaxV(f_image) - 1) \X (0 .. MaxH(f_image) - 1) :
                     a[2] < Coefs!MCU_height(a[1]) /\ a[3] < Coefs!MCU_width(a[1])}
    BY <2>1
  <2>5. \A a \in Blocks_ : Coefs!v_samp(a[1]) = Fact(a[1]) /\ Coefs!MCU_width(a[1]) = H(a[1])
    BY <2>1
  <2> HIDE DEF Fact, H, V
  <2>6. Blocks_ = {a \in Coefs!ToSet(Coefs!Scan.comps) \X (0 .. Coefs!max_v - 1) \X (0 .. Coefs!max_h - 1) :
                     a[2] < Coefs!MCU_height(a[1]) /\ a[3] < Coefs!MCU_width(a[1])}
    BY <2>2, <2>3, <2>4
  <2> HIDE DEF Blocks_
  <2>7. Coefs!MCU(yoffset, col) =
          {<<a[1], f_i.iMCU_row * Coefs!v_samp(a[1]) + yoffset + a[2], col * Coefs!MCU_width(a[1]) + a[3]>> : a \in Blocks_}
    BY <2>6 DEF Coefs!MCU
  <2> QED BY <2>5, <2>7
<1>6. ASSUME NEW a \in Blocks_
      PROVE  /\ a[1] \in InScan(f_image, n) /\ a[2] \in Nat /\ a[2] < V(a[1]) /\ a[3] \in Nat /\ a[3] < H(a[1])
             /\ row * Fact(a[1]) + yoffset + a[2] \in Nat /\ col * H(a[1]) + a[3] \in Nat
             /\ (row * Fact(a[1]) + yoffset + a[2]) \div Fact(a[1]) = row
             /\ (row * Fact(a[1]) + yoffset + a[2]) % Fact(a[1]) = yoffset + a[2]
             /\ (col * H(a[1]) + a[3]) \div H(a[1]) = col
  <2>1. a[1] \in InScan(f_image, n) /\ a[2] \in 0 .. MaxV(f_image) - 1 /\ a[3] \in 0 .. MaxH(f_image) - 1
        /\ a[2] < V(a[1]) /\ a[3] < H(a[1])
    OBVIOUS
  <2> DEFINE c == a[1]  v == Fact(c)  h == H(c)  r == yoffset + a[2]
  <2>2. a[2] \in Nat /\ a[3] \in Nat /\ v \in Nat \ {0} /\ h \in Nat \ {0} /\ V(c) \in Nat /\ yoffset + V(c) <= v
    BY <1>2, <1>4, <2>1
  <2> HIDE DEF v, h
  <2>3. r \in Nat /\ r < v /\ row \in Nat
    BY <1>1, <2>1, <2>2
  <2>4. (row * v + r) \div v = row /\ (row * v + r) % v = r
    BY ZenonT(60), <2>2, <2>3, Unit
  <2>5. (col * h + a[3]) \div h = col
    <3>1. a[3] < h
      BY <2>1 DEF h
    <3> QED BY <2>2, <3>1, Unit
  <2>6. row * v + r \in Nat /\ col * h + a[3] \in Nat /\ row * v + yoffset + a[2] = row * v + r
    <3> DEFINE e == row * v  f == col * h  dy == a[2]  dx == a[3]
    <3>1. e \in Nat /\ f \in Nat /\ dy \in Nat /\ dx \in Nat
      BY <2>2, <2>3, Times
    <3> HIDE DEF e, f, dy, dx
    <3>2. e + (yoffset + dy) \in Nat /\ f + dx \in Nat /\ e + yoffset + dy = e + (yoffset + dy)
      BY <3>1
    <3> QED BY <3>2 DEF e, f, dy, dx
  <2> QED BY <2>1, <2>2, <2>4, <2>5, <2>6 DEF v, h
<1> HIDE DEF Blocks_
<1>7. ASSUME NEW b \in Coefs!MCU(yoffset, col)
      PROVE  /\ b[1] \in InScan(f_image, n) /\ b = <<b[1], b[2], b[3]>>
             /\ b[2] \in Nat /\ b[3] \in Nat /\ ImcuOf(f_image, b) = row
             /\ IF many THEN b[3] \div f_image.factors[b[1]][1] = col
                ELSE b[2] % Fact(b[1]) = yoffset /\ b[3] = col
  <2>1. PICK a \in Blocks_ : b = <<a[1], row * Fact(a[1]) + yoffset + a[2], col * H(a[1]) + a[3]>>
    BY <1>5
  <2> DEFINE y == row * Fact(a[1]) + yoffset + a[2]  x == col * H(a[1]) + a[3]
  <2>2. /\ a[1] \in InScan(f_image, n) /\ y \in Nat /\ x \in Nat /\ y \div Fact(a[1]) = row
        /\ y % Fact(a[1]) = yoffset + a[2] /\ x \div H(a[1]) = col
        /\ a[2] \in Nat /\ a[2] < V(a[1]) /\ a[3] \in Nat /\ a[3] < H(a[1])
    BY <1>6
  <2>3. ~many => a[2] = 0 /\ a[3] = 0 /\ x = col
    BY <2>2
  <2> HIDE DEF y, x
  <2>4. b = <<a[1], y, x>> /\ b[1] = a[1] /\ b[2] = y /\ b[3] = x
    BY <2>1 DEF y, x
  <2>5. ImcuOf(f_image, b) = row
    BY <2>2, <2>4 DEF ImcuOf
  <2>6. CASE many
    BY <2>2, <2>4, <2>5, <2>6
  <2>7. CASE ~many
    <3>1. a[2] = 0 /\ x = col
      BY <2>3, <2>7
    <3>2. y % Fact(b[1]) = yoffset
      BY <2>2, <2>4, <3>1
    <3> QED BY <2>2, <2>4, <2>5, <2>7, <3>1, <3>2
  <2> QED BY <2>6, <2>7
<1>8. ASSUME NEW b, Seen(f_image, b), b[1] \in InScan(f_image, n), ImcuOf(f_image, b) = row,
             IF many THEN b[3] \div f_image.factors[b[1]][1] = col
             ELSE b[2] % Fact(b[1]) = yoffset /\ b[3] = col
      PROVE  b \in Coefs!MCU(yoffset, col)
  <2> DEFINE c == b[1]  v == Fact(c)  h == f_image.factors[c][1]
             a == <<c, (b[2] % v) - yoffset, b[3] - col * H(c)>>
  <2>1. /\ c \in DOMAIN f_image.factors /\ b[2] \in Nat /\ b[3] \in Nat /\ b = <<b[1], b[2], b[3]>>
        /\ v \in Nat \ {0} /\ h \in Nat \ {0} /\ V(c) <= MaxV(f_image) /\ H(c) <= MaxH(f_image)
    BY <1>2, <1>8 DEF Seen
  <2>2. b[2] % v \in Nat /\ b[2] % v < v /\ b[2] = v * row + (b[2] % v)
    <3>1. b[2] \div v = row
      BY <1>8 DEF ImcuOf
    <3> QED BY <2>1, <3>1, Quotient
  <2>3. (b[2] % v) - yoffset \in Nat /\ (b[2] % v) - yoffset < V(c)
    <3>1. CASE many
      BY <1>3, <2>1, <2>2, <3>1
    <3>2. CASE ~many
      BY <1>8, <2>1, <3>2
    <3> QED BY <3>1, <3>2
  <2>4. b[3] - col * H(c) \in Nat /\ b[3] - col * H(c) < H(c)
    <3>1. CASE many
      <4>1. b[3] \div h = col
        BY <1>8, <3>1
      <4>2. b[3] % h \in Nat /\ b[3] % h < h /\ b[3] = h * col + (b[3] % h)
        BY <2>1, <4>1, Quotient
      <4>3. H(c) = h
        BY <3>1
      <4> DEFINE q == H(c)  r == b[3] % h  x == b[3]
      <4>4. x \in Nat /\ r \in Nat /\ r < q /\ x = q * col + r /\ q \in Nat
        BY <2>1, <4>2, <4>3
      <4> HIDE DEF q, r, x
      <4>5. q * col = col * q /\ col * q \in Nat
        BY <4>4
      <4>6. x - col * q = r
        BY <4>4, <4>5
      <4> QED BY <4>4, <4>6 DEF q, x
    <3>2. CASE ~many
      BY SMTT(30), <1>8, <2>1, <3>2
    <3> QED BY <3>1, <3>2
  <2>5. a \in Blocks_
    <3>1. a[1] = c /\ a[2] = (b[2] % v) - yoffset /\ a[3] = b[3] - col * H(c)
      OBVIOUS
    <3>2. V(c) \in Nat /\ H(c) \in Nat /\ MaxV(f_image) \in Nat /\ MaxH(f_image) \in Nat
      BY <1>2, <1>8
    <3>3. (b[2] % v) - yoffset \in 0 .. MaxV(f_image) - 1
      BY <2>1, <2>3, <3>2
    <3>4. b[3] - col * H(c) \in 0 .. MaxH(f_image) - 1
      BY SMTT(30), <2>1, <2>4, <3>2
    <3>5. a \in InScan(f_image, n) \X (0 .. MaxV(f_image) - 1) \X (0 .. MaxH(f_image) - 1)
      BY <1>8, <3>3, <3>4
    <3> QED BY <2>3, <2>4, <3>1, <3>5 DEF Blocks_
  <2>6. b = <<a[1], row * Fact(a[1]) + yoffset + a[2], col * H(a[1]) + a[3]>>
    <3>1. a[1] = c /\ a[2] = (b[2] % v) - yoffset /\ a[3] = b[3] - col * H(c)
      OBVIOUS
    <3>2. row * v + yoffset + a[2] = b[2]
      <4> DEFINE r == b[2] % v  y == b[2]  dy == a[2]  q == row
      <4>1. r \in Nat /\ y = v * q + r /\ dy = r - yoffset /\ q \in Nat /\ v \in Nat
        BY <1>1, <2>1, <2>2, <3>1
      <4> HIDE DEF r, v, y, dy, q
      <4>2. v * q = q * v /\ q * v \in Nat
        BY <4>1
      <4>3. q * v + yoffset + dy = y
        BY <4>1, <4>2
      <4> QED BY <4>3 DEF y, dy, q
    <3>3. col * H(c) + a[3] = b[3]
      <4>1. col * H(c) \in Nat
        BY <1>2, <1>8
      <4> QED BY <2>1, <3>1, <4>1
    <3> QED BY <2>1, <3>1, <3>2, <3>3
  <2> QED BY <1>5, <2>5, <2>6
<1>9. \A b : Seen(f_image, b) =>
        (b \in Coefs!MCU(yoffset, col) <=>
           /\ b[1] \in InScan(f_image, n) /\ ImcuOf(f_image, b) = row
           /\ IF many THEN b[3] \div f_image.factors[b[1]][1] = col
              ELSE b[2] % Fact(b[1]) = yoffset /\ b[3] = col)
  BY <1>7, <1>8
<1> QED BY <1>7, <1>9

LEMMA DecodedIs ==
  ASSUME Reading, NEW k \in 0 .. Coefs!MCUsLeft
  PROVE  /\ \A b \in Coefs!Decoded(k) :
              /\ b[1] \in InScan(f_image, f_i.scan) /\ b = <<b[1], b[2], b[3]>>
              /\ b[2] \in Nat /\ b[3] \in Nat /\ ImcuOf(f_image, b) = f_i.iMCU_row
         /\ \A b : Seen(f_image, b) =>
              (b \in Coefs!Decoded(k) <=>
                 /\ b[1] \in InScan(f_image, f_i.scan) /\ ImcuOf(f_image, b) = f_i.iMCU_row
                 /\ CursorOf(f_image, f_i) <= At(f_image, f_i.scan, b) /\ At(f_image, f_i.scan, b) < CursorOf(f_image, f_i) + k)
<1> DEFINE n == PerRow(f_image, f_i.scan)  d == Deep(f_image, f_i.scan, f_i.iMCU_row)
           s == f_i.scan  many == Len(f_image.scans[f_i.scan].comps) > 1
           M(p) == Coefs!MCU(p \div n, p % n)  from == CursorOf(f_image, f_i)
<1>1. /\ n \in Nat \ {0} /\ d \in Nat \ {0} /\ from \in Nat /\ k \in Nat /\ from + k <= n * d
      /\ Opened(f_image) /\ s \in DOMAIN f_image.scans
  <2>1. n \in Nat \ {0} /\ d \in Nat \ {0} /\ Opened(f_image) /\ s \in DOMAIN f_image.scans
    BY OfScan DEF Reading
  <2>2. from \in Nat /\ from + k <= n * d
    BY LeftIs
  <2>3. Coefs!MCUsLeft = n * (d - f_i.MCU_vert_offset) - f_i.MCU_ctr /\ f_i.MCU_vert_offset \in Nat /\ f_i.MCU_ctr \in Nat
    BY OfScan DEF Reading, Coefs!MCUsLeft
  <2> HIDE DEF n, d
  <2>4. k \in Nat
    BY <2>1, <2>3
  <2> QED BY <2>1, <2>2, <2>4
<1>2. Coefs!Decoded(k) = UNION {M(p) : p \in from .. from + k - 1}
  BY OfScan DEF Coefs!Decoded, Reading, CursorOf
<1>3. many => d = 1
  BY DEF Deep
<1> HIDE DEF n, d, M, from, many
<1>4. \A p \in from .. from + k - 1 :
        /\ p \in Nat /\ p \div n \in Nat /\ p % n \in Nat /\ p % n < n /\ p = n * (p \div n) + (p % n)
        /\ p \div n < d
  <2> SUFFICES ASSUME NEW p \in from .. from + k - 1
               PROVE  /\ p \in Nat /\ p \div n \in Nat /\ p % n \in Nat /\ p % n < n
                      /\ p = n * (p \div n) + (p % n) /\ p \div n < d
    OBVIOUS
  <2>1. p \in Nat /\ p < n * d /\ n * d \in Nat
    BY <1>1
  <2>2. p \div n \in Nat /\ p % n \in Nat /\ p % n < n /\ p = n * (p \div n) + (p % n)
    BY <1>1, <2>1, Quotient
  <2> DEFINE q == p \div n  r == p % n
  <2>3. q \in Nat /\ r \in Nat /\ p = n * q + r
    BY <2>2
  <2> HIDE DEF q, r
  <2>4. q < d
    <3>1. q >= d => n * q >= n * d
      BY <1>1, <2>3
    <3> QED BY <1>1, <2>1, <2>3, <3>1
  <2> QED BY <2>1, <2>2, <2>4 DEF q
<1>5. ASSUME NEW b, NEW p \in from .. from + k - 1, b \in M(p)
      PROVE  /\ b[1] \in InScan(f_image, s) /\ b = <<b[1], b[2], b[3]>>
             /\ b[2] \in Nat /\ b[3] \in Nat /\ ImcuOf(f_image, b) = f_i.iMCU_row
  <2>1. p \div n \in Nat /\ p % n \in Nat /\ p \div n < Deep(f_image, f_i.scan, f_i.iMCU_row)
    BY <1>4 DEF d
  <2>2. b \in Coefs!MCU(p \div n, p % n)
    BY <1>5 DEF M
  <2> QED BY <2>1, <2>2, MCUIs
<1>6. ASSUME NEW b, Seen(f_image, b), NEW p \in from .. from + k - 1
      PROVE  b \in M(p) <=> b[1] \in InScan(f_image, s) /\ ImcuOf(f_image, b) = f_i.iMCU_row /\ At(f_image, s, b) = p
  <2>1. p \div n \in Nat /\ p % n \in Nat /\ p \div n < Deep(f_image, f_i.scan, f_i.iMCU_row)
    BY <1>4 DEF d
  <2>2. b \in M(p) <=>
          /\ b[1] \in InScan(f_image, f_i.scan) /\ ImcuOf(f_image, b) = f_i.iMCU_row
          /\ IF many THEN b[3] \div f_image.factors[b[1]][1] = p % n
             ELSE b[2] % f_image.factors[b[1]][2] = p \div n /\ b[3] = p % n
    BY <1>6, <2>1, MCUIs DEF M, many
  <2>3. CASE b[1] \notin InScan(f_image, f_i.scan)
    BY <2>2, <2>3
  <2>4. CASE b[1] \in InScan(f_image, f_i.scan) /\ many
    <3>1. p \div n = 0 /\ p = p % n
      <4>1. d = 1
        BY <1>3, <2>4
      <4>2. p \div n = 0
        BY <1>4, <4>1
      <4>3. n * 0 = 0
        BY <1>1
      <4> QED BY <1>4, <4>2, <4>3
    <3>2. At(f_image, s, b) = b[3] \div f_image.factors[b[1]][1]
      BY <2>4 DEF At, many
    <3> QED BY <2>2, <2>4, <3>1, <3>2
  <2>5. CASE b[1] \in InScan(f_image, f_i.scan) /\ ~many
    <3> DEFINE v == f_image.factors[b[1]][2]
    <3>1. At(f_image, s, b) = (b[2] % v) * n + b[3]
      BY <2>5 DEF At, many, n
    <3>2. b[1] \in DOMAIN f_image.factors /\ b[2] \in Nat /\ b[3] \in Nat /\ b[3] < n
      <4>1. b[1] = f_image.scans[s].comps[1]
        BY <1>1, <2>5, ScanIs DEF many
      <4> QED BY <1>6, <2>5, <4>1 DEF Seen, PerRow, many, n
    <3>3. v \in Nat \ {0}
      BY <1>1, <3>2, SizesAre
    <3>4. b[2] % v \in Nat
      BY <3>2, <3>3, Quotient
    <3> DEFINE q == b[2] % v  x == b[3]  u == p \div n  r == p % n
    <3> HIDE DEF v, q, x, u, r
    <3>5. q \in Nat /\ x \in Nat /\ x < n /\ u \in Nat /\ r \in Nat /\ r < n /\ p = n * u + r
      BY <1>4, <3>2, <3>4 DEF q, x, u, r
    <3>6. q * n + x = p <=> q = u /\ x = r
      <4>1. (q * n + x) \div n = q /\ (q * n + x) % n = x
        BY <1>1, <3>5, Unit
      <4>2. q * n + x = p => q = u /\ x = r
        BY <4>1 DEF u, r
      <4>3. q = u /\ x = r => q * n + x = p
        BY <1>1, <3>5
      <4> QED BY <4>2, <4>3
    <3> QED BY <2>2, <2>5, <3>1, <3>6 DEF q, x, u, r, v
  <2> QED BY <2>3, <2>4, <2>5
<1>7. \A b \in Coefs!Decoded(k) : \E p \in from .. from + k - 1 : b \in M(p)
  BY <1>2
<1>8. \A b, p : p \in from .. from + k - 1 /\ b \in M(p) => b \in Coefs!Decoded(k)
  BY <1>2
<1>9. ASSUME NEW b, Seen(f_image, b)
      PROVE  b \in Coefs!Decoded(k) <=>
               /\ b[1] \in InScan(f_image, s) /\ ImcuOf(f_image, b) = f_i.iMCU_row
               /\ from <= At(f_image, s, b) /\ At(f_image, s, b) < from + k
  <2>1. ASSUME b \in Coefs!Decoded(k)
        PROVE  /\ b[1] \in InScan(f_image, s) /\ ImcuOf(f_image, b) = f_i.iMCU_row
               /\ from <= At(f_image, s, b) /\ At(f_image, s, b) < from + k
    <3>1. PICK p \in from .. from + k - 1 : b \in M(p)
      BY <1>7, <2>1
    <3>2. b[1] \in InScan(f_image, s) /\ ImcuOf(f_image, b) = f_i.iMCU_row /\ At(f_image, s, b) = p
      BY <1>6, <1>9, <3>1
    <3>3. from <= p /\ p < from + k
      BY <1>1
    <3> QED BY <3>2, <3>3
  <2>2. ASSUME b[1] \in InScan(f_image, s), ImcuOf(f_image, b) = f_i.iMCU_row,
               from <= At(f_image, s, b), At(f_image, s, b) < from + k
        PROVE  b \in Coefs!Decoded(k)
    <3>1. At(f_image, s, b) \in Nat
      BY <1>1, <1>9, <2>2, PlaceIs
    <3> DEFINE p == At(f_image, s, b)
    <3>2. p \in from .. from + k - 1
      BY <1>1, <2>2, <3>1
    <3>3. b \in M(p)
      BY <1>6, <1>9, <2>2, <3>2
    <3> QED BY <1>8, <3>2, <3>3
  <2> QED BY <2>1, <2>2
<1>10. \A b \in Coefs!Decoded(k) :
              /\ b[1] \in InScan(f_image, f_i.scan) /\ b = <<b[1], b[2], b[3]>>
              /\ b[2] \in Nat /\ b[3] \in Nat /\ ImcuOf(f_image, b) = f_i.iMCU_row
  BY <1>5, <1>7
<1> QED BY <1>9, <1>10 DEF from

InputFields == {"scan", "iMCU_row", "MCU_ctr", "MCU_vert_offset", "consume", "eoi_reached",
                "quant_table", "coef_bits", "whole_image"}
FullOf(im) == im.progressive \/ Len(im.scans[1].comps) < Len(im.factors) \/ im.buffered
(* The input side has decoded the block, of its scan. *)
Before(im, i, b) ==
  \/ ImcuOf(im, b) < i.iMCU_row
  \/ ImcuOf(im, b) = i.iMCU_row /\ At(im, i.scan, b) < CursorOf(im, i)
Arrived(im, i, b) == {s \in Upto(im, b[1], i.scan) : s < i.scan \/ Before(im, i, b)}
Held(got, scans) == got \in Seq(Nat) /\ Coefs!OnceInOrder(got) /\ Coefs!ToSet(got) = scans
ExactIn(im, s, k) == k \in im.scans[s].Ss .. im.scans[s].Se /\ im.scans[s].Al = 0
BlockOf(im, b) == b[1] \in DOMAIN im.factors /\ b[2] \in Nat /\ b[3] \in Nat /\ b = <<b[1], b[2], b[3]>>

(* What is known of the tables and the coefficients after the nth scan. *)
Known(im, i, n) ==
  /\ \A c \in DOMAIN im.factors : Upto(im, c, n) # {} => c \in i.quant_table
  /\ DOMAIN i.coef_bits = DOMAIN im.factors
  /\ \A c \in DOMAIN im.factors :
       /\ DOMAIN i.coef_bits[c] = 0 .. SAVED_COEFS - 1
       /\ \A k \in 0 .. SAVED_COEFS - 1 :
            i.coef_bits[c][k] = 0 => \E s \in Upto(im, c, n) : ExactIn(im, s, k)
Buffers(im, i) ==
  /\ \A b \in DOMAIN i.whole_image : BlockOf(im, b)
  /\ \A b : Seen(im, b) => b \in DOMAIN i.whole_image /\ Held(i.whole_image[b], Arrived(im, i, b))
Along(im, i) ==
  /\ Opened(im) /\ DOMAIN i = InputFields
  /\ i.scan \in DOMAIN im.scans /\ i.iMCU_row \in Nat
  /\ i.MCU_vert_offset \in Nat /\ i.MCU_ctr \in Nat
  /\ i.consume \in {"data", "markers"} /\ i.eoi_reached \in BOOLEAN
  /\ i.consume = "data" => ~i.eoi_reached /\ i.iMCU_row < IRows(im)
  /\ i.consume = "markers" => i.iMCU_row = IRows(im)
  /\ i.eoi_reached => i.scan = Len(im.scans)
ArrivesWell(im, i) == Along(im, i) /\ Known(im, i, i.scan) /\ (FullOf(im) => Buffers(im, i))

LEMMA AlongReads ==
  ASSUME Along(f_image, f_i)
  PROVE  Reading
  BY DEF Along, Reading

LEMMA CountedIs ==
  ASSUME Along(f_image, f_i), NEW k \in 0 .. Coefs!MCUsLeft
  PROVE  LET j == Coefs!Counted(f_i, k) IN
         /\ CursorOf(f_image, f_i) \in Nat /\ (k < Coefs!MCUsLeft \/ k = Coefs!MCUsLeft)
         /\ DOMAIN j = InputFields /\ j.scan = f_i.scan /\ j.eoi_reached = f_i.eoi_reached
         /\ j.quant_table = f_i.quant_table /\ j.coef_bits = f_i.coef_bits /\ j.whole_image = f_i.whole_image
         /\ j.MCU_vert_offset \in Nat /\ j.MCU_ctr \in Nat
         /\ k < Coefs!MCUsLeft =>
              /\ j.iMCU_row = f_i.iMCU_row /\ j.consume = f_i.consume
              /\ CursorOf(f_image, j) = CursorOf(f_image, f_i) + k
         /\ k = Coefs!MCUsLeft =>
              /\ j.iMCU_row = f_i.iMCU_row + 1 /\ CursorOf(f_image, j) = 0
              /\ j.MCU_vert_offset = 0 /\ j.MCU_ctr = 0
              /\ j.consume = IF f_i.iMCU_row + 1 < IRows(f_image) THEN f_i.consume ELSE "markers"
<1> DEFINE j == Coefs!Counted(f_i, k)  n == PerRow(f_image, f_i.scan)  left == Coefs!MCUsLeft
           at == CursorOf(f_image, f_i) + k
<1>1. /\ Reading /\ DOMAIN f_i = InputFields
      /\ Coefs!MCUs_per_row = n /\ n \in Nat \ {0} /\ Coefs!total_iMCU_rows = IRows(f_image)
  BY AlongReads, OfScan, OfImage DEF Along
<1>2. CursorOf(f_image, f_i) \in Nat /\ k \in Nat /\ (k < left \/ k = left)
  <2>1. CursorOf(f_image, f_i) \in Nat
    BY <1>1, LeftIs
  <2>2. left \in Int
    <3>1. left = n * (Deep(f_image, f_i.scan, f_i.iMCU_row) - f_i.MCU_vert_offset) - f_i.MCU_ctr
          /\ Deep(f_image, f_i.scan, f_i.iMCU_row) \in Nat
      BY <1>1, OfScan DEF Coefs!MCUsLeft, Reading
    <3> QED BY <1>1, <3>1 DEF Reading
  <2> HIDE DEF left
  <2>3. k \in 0 .. left
    BY DEF left
  <2> QED BY <2>1, <2>2, <2>3
<1>3. CASE k < left
  <2>1. j = [f_i EXCEPT !.MCU_vert_offset = at \div n, !.MCU_ctr = at % n]
    BY <1>1, <1>3 DEF Coefs!Counted, CursorOf
  <2>2. at \div n \in Nat /\ at % n \in Nat /\ at = n * (at \div n) + (at % n)
    <3>1. at \in Nat
      BY <1>1, <1>2
    <3> HIDE DEF at, n
    <3> QED BY <1>1, <3>1, Quotient
  <2> HIDE DEF at, n, left, j
  <2>3. /\ DOMAIN j = InputFields /\ j.scan = f_i.scan /\ j.eoi_reached = f_i.eoi_reached
        /\ j.quant_table = f_i.quant_table /\ j.coef_bits = f_i.coef_bits /\ j.whole_image = f_i.whole_image
        /\ j.MCU_vert_offset = at \div n /\ j.MCU_ctr = at % n
        /\ j.iMCU_row = f_i.iMCU_row /\ j.consume = f_i.consume
    BY <1>1, <2>1 DEF InputFields
  <2>4. CursorOf(f_image, j) = at
    <3>1. CursorOf(f_image, j) = (at \div n) * n + (at % n)
      BY <2>3 DEF CursorOf, n
    <3> DEFINE q == at \div n  r == at % n
    <3> HIDE DEF q, r
    <3>2. q \in Nat /\ r \in Nat /\ at = n * q + r
      BY <2>2 DEF q, r
    <3>3. q * n + r = n * q + r
      BY <1>1, <3>2
    <3> QED BY <3>1, <3>2, <3>3 DEF q, r
  <2>5. k # left
    <3>1. left \in Int
      BY <1>2, <1>3, <1>1, OfScan DEF left, Coefs!MCUsLeft, Reading
    <3> QED BY <1>2, <1>3, <3>1
  <2> QED BY <1>1, <1>2, <1>3, <2>2, <2>3, <2>4, <2>5 DEF j, left, at
<1>4. CASE k = left
  <2>1. ~(k < left)
    BY <1>2, <1>4
  <2>2. j = [f_i EXCEPT !.MCU_vert_offset = 0, !.MCU_ctr = 0, !.iMCU_row = @ + 1,
                        !.consume = IF f_i.iMCU_row + 1 < IRows(f_image) THEN @ ELSE "markers"]
    BY <1>1, <2>1 DEF Coefs!Counted
  <2> HIDE DEF at, left, j
  <2>3. /\ DOMAIN j = InputFields /\ j.scan = f_i.scan /\ j.eoi_reached = f_i.eoi_reached
        /\ j.quant_table = f_i.quant_table /\ j.coef_bits = f_i.coef_bits /\ j.whole_image = f_i.whole_image
        /\ j.MCU_vert_offset = 0 /\ j.MCU_ctr = 0
        /\ j.iMCU_row = f_i.iMCU_row + 1
        /\ j.consume = IF f_i.iMCU_row + 1 < IRows(f_image) THEN f_i.consume ELSE "markers"
    BY <1>1, <2>2 DEF InputFields
  <2>4. CursorOf(f_image, j) = 0
    <3>1. CursorOf(f_image, j) = 0 * n + 0
      BY <2>3 DEF CursorOf
    <3> QED BY <1>1, <3>1
  <2> QED BY <1>1, <1>2, <1>4, <2>1, <2>3, <2>4 DEF j, left
<1> QED BY <1>1, <1>2, <1>3, <1>4

(* Of a block of the scan, what is decoded now has not been before. *)
LEMMA BeforeMoves ==
  ASSUME Along(f_image, f_i), NEW k \in 0 .. Coefs!MCUsLeft,
         NEW b, Seen(f_image, b), b[1] \in InScan(f_image, f_i.scan),
         NEW j, j.scan = f_i.scan, j.iMCU_row = Coefs!Counted(f_i, k).iMCU_row,
         CursorOf(f_image, j) = CursorOf(f_image, Coefs!Counted(f_i, k))
  PROVE  /\ Before(f_image, j, b) <=> (Before(f_image, f_i, b) \/ b \in Coefs!Decoded(k))
         /\ b \in Coefs!Decoded(k) => ~Before(f_image, f_i, b)
<1> DEFINE at == At(f_image, f_i.scan, b)  row == f_i.iMCU_row  here == ImcuOf(f_image, b)
           from == CursorOf(f_image, f_i)  left == Coefs!MCUsLeft  all == PerRow(f_image, f_i.scan) * Deep(f_image, f_i.scan, f_i.iMCU_row)
<1>1. Reading /\ Opened(f_image) /\ CursorOf(f_image, f_i) = from /\ ImcuOf(f_image, b) = here /\ row \in Nat
  BY AlongReads DEF Along
<1>2. /\ b \in Coefs!Decoded(k) <=> (here = row /\ from <= at /\ at < from + k)
      /\ from \in Nat /\ (k = left => from + k = all)
  BY <1>1, DecodedIs, LeftIs
<1>3. at \in Nat /\ (here = row => at < all) /\ here \in Nat
  <2>1. f_i.scan \in DOMAIN f_image.scans /\ b[1] \in DOMAIN f_image.factors /\ b[2] \in Nat
    BY <1>1 DEF Reading, Seen
  <2>2. at \in Nat /\ (here = row => at < all)
    BY <1>1, <2>1, PlaceIs DEF ImcuOf
  <2>3. here \in Nat
    BY <1>1, <2>1, LineIn DEF ImcuOf
  <2> QED BY <2>2, <2>3
<1>4. Before(f_image, f_i, b) <=> (here < row \/ (here = row /\ at < from))
  BY DEF Before
<1>5. Before(f_image, j, b) <=> (here < j.iMCU_row \/ (here = j.iMCU_row /\ at < CursorOf(f_image, j)))
  BY DEF Before
<1>6. k \in Nat /\ (k < left \/ k = left)
  <2>1. left = PerRow(f_image, f_i.scan) * (Deep(f_image, f_i.scan, f_i.iMCU_row) - f_i.MCU_vert_offset) - f_i.MCU_ctr
        /\ Deep(f_image, f_i.scan, f_i.iMCU_row) \in Nat /\ PerRow(f_image, f_i.scan) \in Nat
        /\ f_i.MCU_vert_offset \in Nat /\ f_i.MCU_ctr \in Nat
    BY <1>1, OfScan DEF Coefs!MCUsLeft, Reading
  <2>2. left \in Int
    BY <2>1
  <2> HIDE DEF left
  <2>3. k \in 0 .. left
    BY DEF left
  <2> QED BY <2>2, <2>3
<1>7. CASE k < left
  <2>1. j.iMCU_row = row /\ CursorOf(f_image, j) = from + k
    BY <1>7, CountedIs
  <2> HIDE DEF at, row, here, from, left, all
  <2> QED BY <1>1, <1>2, <1>3, <1>4, <1>5, <1>6, <2>1
<1>8. CASE k = left
  <2>1. j.iMCU_row = row + 1 /\ CursorOf(f_image, j) = 0
    BY <1>8, CountedIs
  <2> HIDE DEF at, row, here, from, left, all
  <2> QED BY <1>1, <1>2, <1>3, <1>4, <1>5, <1>6, <1>8, <2>1
<1> QED BY <1>6, <1>7, <1>8

LEMMA UptoIs ==
  ASSUME NEW im, Opened(im), NEW c, NEW n \in Nat
  PROVE  /\ \A s \in Upto(im, c, n) : s \in DOMAIN im.scans /\ s \in Nat /\ s <= n /\ c \in InScan(im, s)
         /\ Upto(im, c, 0) = {}
         /\ Upto(im, c, n + 1) =
              Upto(im, c, n) \cup {s \in DOMAIN im.scans : s = n + 1 /\ c \in InScan(im, s)}
         /\ \A m \in Nat : m <= n => Upto(im, c, m) \subseteq Upto(im, c, n)
<1>1. \A s \in DOMAIN im.scans : s \in Nat \ {0}
  BY ScanIs
<1>2. \A m : Upto(im, c, m) = {s \in DOMAIN im.scans : s <= m /\ c \in InScan(im, s)}
  BY DEF Upto
<1>3. Upto(im, c, 0) = {}
  BY <1>1, <1>2
<1>4. \A s \in DOMAIN im.scans : s <= n + 1 <=> (s <= n \/ s = n + 1)
  BY <1>1
<1>5. Upto(im, c, n + 1) = Upto(im, c, n) \cup {s \in DOMAIN im.scans : s = n + 1 /\ c \in InScan(im, s)}
  BY <1>2, <1>4
<1>6. ASSUME NEW m \in Nat, m <= n PROVE Upto(im, c, m) \subseteq Upto(im, c, n)
  <2>1. \A s \in DOMAIN im.scans : s <= m => s <= n
    BY <1>1, <1>6
  <2> QED BY <1>2, <2>1
<1> QED BY <1>1, <1>2, <1>3, <1>5, <1>6

(* At the end of a scan all of it has arrived, at its beginning nothing. *)
LEMMA ArrivedIs ==
  ASSUME NEW im, NEW j, Along(im, j), NEW b, Seen(im, b)
  PROVE  /\ j.consume = "markers" => Arrived(im, j, b) = Upto(im, b[1], j.scan)
         /\ ImcuOf(im, b) \in Nat /\ ImcuOf(im, b) < IRows(im)
         /\ \A s \in Upto(im, b[1], j.scan) : s < j.scan \/ s = j.scan
<1>1. Opened(im) /\ j.scan \in DOMAIN im.scans /\ j.iMCU_row \in Nat /\ (j.consume = "markers" => j.iMCU_row = IRows(im))
  BY DEF Along
<1>2. b[1] \in DOMAIN im.factors /\ b[2] \in Nat /\ b[2] < Lines(im, b[1])
  BY DEF Seen
<1>3. ImcuOf(im, b) \in Nat /\ ImcuOf(im, b) < IRows(im)
  BY <1>1, <1>2, LineIn DEF ImcuOf
<1>4. j.consume = "markers" => Before(im, j, b)
  BY <1>1, <1>3 DEF Before
<1>5. j.scan \in Nat
  BY <1>1, ScanIs
<1>6. \A s \in Upto(im, b[1], j.scan) : s < j.scan \/ s = j.scan
  BY <1>1, <1>5, UptoIs
<1> QED BY <1>3, <1>4, <1>6 DEF Arrived

(* decode_mcu puts the scan on the blocks of the MCUs, which no earlier    *)
(* MCU of the scan has touched.                                            *)
LEMMA DataArrives ==
  ASSUME ArrivesWell(f_image, f_i), f_i.consume = "data", FullOf(f_image), NEW k \in 0 .. Coefs!MCUsLeft
  PROVE  ArrivesWell(f_image, [Coefs!Counted(f_i, k) EXCEPT !.whole_image =
           [b \in DOMAIN @ |-> IF b \in Coefs!Decoded(k) THEN Append(@[b], f_i.scan) ELSE @[b]]])
<1> DEFINE c == Coefs!Counted(f_i, k)  old == f_i.whole_image
           new == [b \in DOMAIN old |-> IF b \in Coefs!Decoded(k) THEN Append(old[b], f_i.scan) ELSE old[b]]
           j == [c EXCEPT !.whole_image = new]
<1>1. Along(f_image, f_i) /\ Known(f_image, f_i, f_i.scan) /\ Buffers(f_image, f_i)
  BY DEF ArrivesWell
<1>2. /\ DOMAIN c = InputFields /\ c.scan = f_i.scan /\ c.eoi_reached = f_i.eoi_reached
      /\ c.quant_table = f_i.quant_table /\ c.coef_bits = f_i.coef_bits /\ c.whole_image = old
      /\ c.MCU_vert_offset \in Nat /\ c.MCU_ctr \in Nat
  BY <1>1, CountedIs
<1>3. \/ /\ c.iMCU_row = f_i.iMCU_row /\ c.consume = f_i.consume
      \/ /\ c.iMCU_row = f_i.iMCU_row + 1
         /\ c.consume = IF f_i.iMCU_row + 1 < IRows(f_image) THEN f_i.consume ELSE "markers"
  BY <1>1, CountedIs
<1>4. [Coefs!Counted(f_i, k) EXCEPT !.whole_image =
        [b \in DOMAIN @ |-> IF b \in Coefs!Decoded(k) THEN Append(@[b], f_i.scan) ELSE @[b]]] = j
  BY <1>2
<1> HIDE DEF c, new
<1>5. /\ DOMAIN j = InputFields /\ j.scan = f_i.scan /\ j.eoi_reached = f_i.eoi_reached
      /\ j.quant_table = f_i.quant_table /\ j.coef_bits = f_i.coef_bits /\ j.whole_image = new
      /\ j.MCU_vert_offset = c.MCU_vert_offset /\ j.MCU_ctr = c.MCU_ctr
      /\ j.iMCU_row = c.iMCU_row /\ j.consume = c.consume
  BY <1>2 DEF InputFields
<1> HIDE DEF j
<1>6. Along(f_image, j)
  <2>1. IRows(f_image) \in Nat \ {0}
    BY <1>1, SidesAre DEF Along
  <2>2. f_i.iMCU_row \in Nat /\ f_i.iMCU_row < IRows(f_image) /\ ~f_i.eoi_reached
    BY <1>1 DEF Along
  <2>3. /\ j.iMCU_row \in Nat
        /\ j.consume = "data" => j.iMCU_row < IRows(f_image)
        /\ j.consume = "markers" => j.iMCU_row = IRows(f_image)
        /\ j.consume \in {"data", "markers"}
    BY <1>3, <1>5, <2>1, <2>2
  <2> QED BY <1>1, <1>2, <1>5, <2>2, <2>3 DEF Along
<1>7. Known(f_image, j, j.scan)
  BY <1>1, <1>5 DEF Known
<1>8. CursorOf(f_image, j) = CursorOf(f_image, c)
  BY <1>2, <1>5 DEF CursorOf
<1>9. DOMAIN new = DOMAIN old
  BY DEF new
<1>10. ASSUME NEW b, Seen(f_image, b)
       PROVE  b \in DOMAIN new /\ Held(new[b], Arrived(f_image, j, b))
  <2>1. b \in DOMAIN old /\ Held(old[b], Arrived(f_image, f_i, b))
    BY <1>1, <1>10 DEF Buffers
  <2>2. new[b] = IF b \in Coefs!Decoded(k) THEN Append(old[b], f_i.scan) ELSE old[b]
    BY <2>1 DEF new
  <2>3. f_i.scan \in Nat /\ f_i.scan \in DOMAIN f_image.scans /\ Opened(f_image) /\ Reading
    BY <1>1, ScanIs, AlongReads DEF Along
  <2>4. \A s \in Upto(f_image, b[1], f_i.scan) : s \in Nat /\ (s < f_i.scan \/ s = f_i.scan) /\ b[1] \in InScan(f_image, s)
    BY <1>1, <1>10, <2>3, ArrivedIs, UptoIs
  <2>5. CASE b[1] \notin InScan(f_image, f_i.scan)
    <3>1. b \notin Coefs!Decoded(k)
      BY <2>3, <2>5, DecodedIs
    <3>2. Arrived(f_image, j, b) = Arrived(f_image, f_i, b)
      BY <1>5, <2>4, <2>5 DEF Arrived
    <3> QED BY <1>9, <2>1, <2>2, <3>1, <3>2
  <2>6. CASE b[1] \in InScan(f_image, f_i.scan)
    <3>1. /\ Before(f_image, j, b) <=> (Before(f_image, f_i, b) \/ b \in Coefs!Decoded(k))
          /\ b \in Coefs!Decoded(k) => ~Before(f_image, f_i, b)
      BY <1>1, <1>5, <1>8, <1>10, <2>6, BeforeMoves DEF c
    <3>2. CASE b \notin Coefs!Decoded(k)
      <4>1. Arrived(f_image, j, b) = Arrived(f_image, f_i, b)
        BY <1>5, <3>1, <3>2 DEF Arrived
      <4> QED BY <1>9, <2>1, <2>2, <3>2, <4>1
    <3>3. CASE b \in Coefs!Decoded(k)
      <4>1. Arrived(f_image, j, b) = Upto(f_image, b[1], f_i.scan)
        BY <1>5, <3>1, <3>3 DEF Arrived
      <4>2. Arrived(f_image, f_i, b) = {s \in Upto(f_image, b[1], f_i.scan) : s < f_i.scan}
        BY <3>1, <3>3 DEF Arrived
      <4>3. f_i.scan \in Upto(f_image, b[1], f_i.scan)
        BY <2>3, <2>6 DEF Upto
      <4>4. Arrived(f_image, j, b) = Arrived(f_image, f_i, b) \cup {f_i.scan}
        BY <2>4, <4>1, <4>2, <4>3
      <4>5. \A s \in Arrived(f_image, f_i, b) : s \in Nat /\ s < f_i.scan
        BY <2>4, <4>2
      <4> DEFINE got == old[b]  n == f_i.scan  more == Append(got, n)
      <4>6. got \in Seq(Nat) /\ Coefs!OnceInOrder(got) /\ Coefs!ToSet(got) = Arrived(f_image, f_i, b) /\ n \in Nat
        BY <2>1, <2>3 DEF Held
      <4> HIDE DEF got, n
      <4>7. /\ more \in Seq(Nat) /\ Len(more) = Len(got) + 1 /\ Len(got) \in Nat
            /\ \A p \in 1 .. Len(got) : more[p] = got[p]
            /\ more[Len(got) + 1] = n
        BY <4>6, AppendProperties, LenProperties
      <4> HIDE DEF more
      <4>8. DOMAIN got = 1 .. Len(got) /\ DOMAIN more = 1 .. Len(got) + 1
        BY <4>6, <4>7, LenProperties
      <4>9. \A p \in DOMAIN got : got[p] \in Nat /\ got[p] < n
        BY <4>5, <4>6 DEF Coefs!ToSet, n
      <4>10. Coefs!OnceInOrder(more)
        <5> SUFFICES ASSUME NEW p \in DOMAIN more, NEW q \in DOMAIN more, p < q PROVE more[p] < more[q]
          BY DEF Coefs!OnceInOrder
        <5>1. p \in DOMAIN got /\ (q \in DOMAIN got \/ q = Len(got) + 1)
          BY <4>7, <4>8
        <5>2. CASE q \in DOMAIN got
          BY <4>6, <4>7, <4>8, <5>1, <5>2 DEF Coefs!OnceInOrder
        <5>3. CASE q = Len(got) + 1
          BY <4>7, <4>8, <4>9, <5>1, <5>3
        <5> QED BY <5>1, <5>2, <5>3
      <4>11. Coefs!ToSet(more) = Coefs!ToSet(got) \cup {n}
        <5>1. DOMAIN more = DOMAIN got \cup {Len(got) + 1}
          BY <4>7, <4>8
        <5>2. \A p \in DOMAIN got : more[p] = got[p]
          BY <4>7, <4>8
        <5> QED BY <4>7, <5>1, <5>2 DEF Coefs!ToSet
      <4>12. new[b] = more
        BY <2>2, <3>3 DEF more, got, n
      <4> QED BY <1>9, <2>1, <4>4, <4>6, <4>7, <4>10, <4>11, <4>12 DEF Held, n
    <3> QED BY <3>2, <3>3
  <2> QED BY <2>5, <2>6
<1>11. Buffers(f_image, j)
  BY <1>1, <1>5, <1>9, <1>10 DEF Buffers
<1> QED BY <1>4, <1>6, <1>7, <1>11 DEF ArrivesWell

(* The next scan begins.                                                   *)
Follows(m, n) == m = n + 1
Unended(side) == DOMAIN side = InputFields /\ side.eoi_reached = FALSE
(* The input side at the beginning of the mth scan. *)
Begun(im, j, m, n, side) ==
  /\ Along(im, j) /\ Known(im, j, m) /\ j.scan = m
  /\ j.consume = "data" /\ j.whole_image = side.whole_image /\ j.eoi_reached = FALSE
  /\ j.iMCU_row = 0 /\ j.MCU_vert_offset = 0 /\ j.MCU_ctr = 0
  /\ \A b : Seen(im, b) => Arrived(im, j, b) = Upto(im, b[1], n)
LEMMA ScanBegins ==
  ASSUME Opened(f_image), NEW n \in Nat, NEW m \in DOMAIN f_image.scans, Follows(m, n),
         NEW side, Unended(side), Known(f_image, side, n)
  PROVE  Begun(f_image, Coefs!start_input_pass(side, m), m, n, side)
<1> DEFINE s == f_image.scans[m]  cs == Coefs!ToSet(s.comps)
           bits == [c \in DOMAIN side.coef_bits |-> [k \in DOMAIN side.coef_bits[c] |->
                      IF c \in cs /\ k \in s.Ss .. s.Se THEN s.Al ELSE side.coef_bits[c][k]]]
           j == Coefs!start_input_pass(side, m)
<1>1. /\ DOMAIN j = InputFields /\ j.scan = m /\ j.iMCU_row = 0 /\ j.MCU_ctr = 0 /\ j.MCU_vert_offset = 0
      /\ j.consume = "data" /\ j.eoi_reached = FALSE /\ j.whole_image = side.whole_image
      /\ j.quant_table = side.quant_table \cup cs
      /\ j.coef_bits = bits
  BY DEF Coefs!start_input_pass, InputFields, Unended
<1>2. cs = InScan(f_image, m)
  BY DEF Coefs!ToSet, InScan
<1>3. m = n + 1 /\ \A c : Upto(f_image, c, m) =
             Upto(f_image, c, n) \cup {t \in DOMAIN f_image.scans : t = m /\ c \in InScan(f_image, t)}
  BY UptoIs DEF Follows
<1> HIDE DEF j, cs
<1>4. IRows(f_image) \in Nat \ {0}
  BY SidesAre
<1>5. Along(f_image, j)
  <2>1. 0 \in Nat /\ 0 < IRows(f_image) /\ FALSE \in BOOLEAN
    BY <1>4
  <2> QED BY <1>1, <2>1 DEF Along
<1>6. Known(f_image, j, m)
  <2>1. \A c \in DOMAIN f_image.factors : Upto(f_image, c, m) # {} => c \in j.quant_table
    <3> SUFFICES ASSUME NEW c \in DOMAIN f_image.factors, Upto(f_image, c, m) # {} PROVE c \in j.quant_table
      OBVIOUS
    <3>1. Upto(f_image, c, n) # {} \/ c \in cs
      BY <1>2, <1>3
    <3>2. Upto(f_image, c, n) # {} => c \in side.quant_table
      BY DEF Known
    <3> QED BY <1>1, <3>1, <3>2
  <2>2. DOMAIN side.coef_bits = DOMAIN f_image.factors
    BY DEF Known
  <2>3. ASSUME NEW c \in DOMAIN f_image.factors
        PROVE  /\ DOMAIN j.coef_bits[c] = 0 .. SAVED_COEFS - 1
               /\ \A k \in 0 .. SAVED_COEFS - 1 :
                    j.coef_bits[c][k] = 0 => \E t \in Upto(f_image, c, m) : ExactIn(f_image, t, k)
    <3>1. /\ DOMAIN side.coef_bits[c] = 0 .. SAVED_COEFS - 1
          /\ \A k \in 0 .. SAVED_COEFS - 1 :
               side.coef_bits[c][k] = 0 => \E t \in Upto(f_image, c, n) : ExactIn(f_image, t, k)
      BY DEF Known
    <3>2. j.coef_bits[c] = [k \in DOMAIN side.coef_bits[c] |->
             IF c \in cs /\ k \in s.Ss .. s.Se THEN s.Al ELSE side.coef_bits[c][k]]
      BY <1>1, <2>2
    <3>3. ASSUME NEW k \in 0 .. SAVED_COEFS - 1, j.coef_bits[c][k] = 0
          PROVE  \E t \in Upto(f_image, c, m) : ExactIn(f_image, t, k)
      <4>1. j.coef_bits[c][k] = IF c \in cs /\ k \in s.Ss .. s.Se THEN s.Al ELSE side.coef_bits[c][k]
        BY <3>1, <3>2
      <4>2. CASE c \in cs /\ k \in s.Ss .. s.Se
        <5>1. m \in Upto(f_image, c, m)
          BY <1>2, <1>3, <4>2
        <5>2. s.Al = 0
          BY <3>3, <4>1, <4>2
        <5> QED BY <4>2, <5>1, <5>2 DEF ExactIn
      <4>3. CASE ~(c \in cs /\ k \in s.Ss .. s.Se)
        <5>1. side.coef_bits[c][k] = 0
          BY <3>3, <4>1, <4>3
        <5>2. PICK t \in Upto(f_image, c, n) : ExactIn(f_image, t, k)
          BY <3>1, <5>1
        <5>3. t \in Upto(f_image, c, m)
          BY <1>3
        <5> QED BY <5>2, <5>3
      <4> QED BY <4>2, <4>3
    <3> QED BY <3>1, <3>2, <3>3
  <2>4. DOMAIN j.coef_bits = DOMAIN f_image.factors
    BY <1>1, <2>2
  <2> QED BY <2>1, <2>3, <2>4 DEF Known
<1>7. ASSUME NEW b, Seen(f_image, b) PROVE Arrived(f_image, j, b) = Upto(f_image, b[1], n)
  <2>1. ImcuOf(f_image, b) \in Nat
    BY <1>5, <1>7, ArrivedIs
  <2>2. CursorOf(f_image, j) = 0
    <3>1. PerRow(f_image, m) \in Nat
      <4>1. f_image.scans[m].comps[1] \in DOMAIN f_image.factors
        BY ScanIs
      <4> QED BY <4>1, SidesAre DEF PerRow
    <3>2. CursorOf(f_image, j) = 0 * PerRow(f_image, m) + 0
      BY <1>1 DEF CursorOf
    <3> QED BY <3>1, <3>2
  <2>3. b[1] \in InScan(f_image, m) => ~Before(f_image, j, b)
    <3> SUFFICES ASSUME b[1] \in InScan(f_image, m) PROVE ~Before(f_image, j, b)
      OBVIOUS
    <3>1. At(f_image, m, b) \in Nat
      BY <1>7, PlaceIs
    <3> QED BY <1>1, <2>1, <2>2, <3>1 DEF Before
  <2>4. Arrived(f_image, j, b) = {t \in Upto(f_image, b[1], m) : t < m \/ Before(f_image, j, b)}
    BY <1>1 DEF Arrived
  <2>5. \A t \in Upto(f_image, b[1], n) : t \in Nat /\ t <= n
    BY UptoIs
  <2>6. ~(m < m) /\ \A t \in Nat : t <= n => t < m
    BY <1>3
  <2> QED BY <1>3, <2>3, <2>4, <2>5, <2>6
<1> QED BY <1>1, <1>5, <1>6, <1>7 DEF j, Begun

(* The scan after one that is complete.                                    *)
LEMMA NextScan ==
  ASSUME ArrivesWell(f_image, f_i), f_i.consume = "markers", ~f_i.eoi_reached, f_i.scan < Len(f_image.scans)
  PROVE  ArrivesWell(f_image, Coefs!start_input_pass(f_i, f_i.scan + 1))
<1> DEFINE n == f_i.scan  m == f_i.scan + 1  j == Coefs!start_input_pass(f_i, m)
<1>1. /\ Along(f_image, f_i) /\ Known(f_image, f_i, f_i.scan) /\ (FullOf(f_image) => Buffers(f_image, f_i))
      /\ Opened(f_image) /\ f_i.scan \in DOMAIN f_image.scans /\ DOMAIN f_i = InputFields /\ f_i.eoi_reached = FALSE
  BY DEF ArrivesWell, Along
<1>2. n \in Nat /\ m \in DOMAIN f_image.scans /\ Follows(m, n) /\ Unended(f_i)
  BY <1>1, ScanIs DEF Follows, Unended
<1> HIDE DEF m
<1>3. /\ Along(f_image, j) /\ Known(f_image, j, m) /\ j.scan = m
      /\ j.whole_image = f_i.whole_image
      /\ \A b : Seen(f_image, b) => Arrived(f_image, j, b) = Upto(f_image, b[1], f_i.scan)
  <2>1. Begun(f_image, j, m, n, f_i)
    BY <1>1, <1>2, ScanBegins
  <2> HIDE DEF j
  <2> QED BY <2>1 DEF Begun
<1> HIDE DEF j
<1>4. \A b : Seen(f_image, b) => Arrived(f_image, j, b) = Arrived(f_image, f_i, b)
  BY <1>1, <1>3, ArrivedIs
<1>5. FullOf(f_image) => Buffers(f_image, j)
  BY <1>1, <1>3, <1>4 DEF Buffers
<1> QED BY <1>3, <1>5 DEF ArrivesWell, j, m

(* The first one, with the arrays or without them. *)
LEMMA FirstScan ==
  ASSUME Opened(f_image), f_i = Coefs!ReadyInput(f_image), SAVED_COEFS \in Nat,
         NEW full \in BOOLEAN, FullOf(f_image) => full
  PROVE  LET j == [Coefs!start_input_pass(f_i, 1) EXCEPT
                     !.whole_image = [b \in IF full THEN Coefs!Padded ELSE {} |-> <<>>]] IN
         /\ Along(f_image, j) /\ Known(f_image, j, j.scan) /\ (full => Buffers(f_image, j))
         /\ j.iMCU_row = 0 /\ j.MCU_vert_offset = 0 /\ j.MCU_ctr = 0
<1> DEFINE a == Coefs!start_input_pass(f_i, 1)
           empty == [b \in IF full THEN Coefs!Padded ELSE {} |-> <<>>]
           j == [a EXCEPT !.whole_image = empty]
<1>1. /\ DOMAIN f_i = InputFields /\ f_i.eoi_reached = FALSE /\ f_i.quant_table = {}
      /\ f_i.coef_bits = [c \in DOMAIN f_image.factors |-> [k \in 0 .. SAVED_COEFS - 1 |-> -1]]
  BY DEF Coefs!ReadyInput, InputFields, Coefs!BlankBits
<1>2. 1 \in DOMAIN f_image.scans /\ \A c : Upto(f_image, c, 0) = {}
  <2>1. f_image.scans \in Seq(Scanning(f_image.factors)) /\ f_image.scans # <<>>
    BY DEF Opened
  <2>2. Len(f_image.scans) \in Nat /\ Len(f_image.scans) # 0 /\ DOMAIN f_image.scans = 1 .. Len(f_image.scans)
    BY <2>1, LenProperties, EmptySeq
  <2> QED BY <2>2, UptoIs
<1>3. Known(f_image, f_i, 0)
  BY <1>1, <1>2 DEF Known
<1>4. /\ Along(f_image, a) /\ Known(f_image, a, 1) /\ a.scan = 1
      /\ a.iMCU_row = 0 /\ a.MCU_vert_offset = 0 /\ a.MCU_ctr = 0
      /\ \A b : Seen(f_image, b) => Arrived(f_image, a, b) = {}
  <2>1. Follows(1, 0) /\ 0 \in Nat /\ Unended(f_i)
    BY <1>1 DEF Follows, Unended
  <2> HIDE DEF a
  <2>2. Begun(f_image, a, 1, 0, f_i)
    BY <1>2, <1>3, <2>1, ScanBegins DEF a
  <2> QED BY <1>2, <2>2 DEF Begun
<1> HIDE DEF a, empty
<1>5. DOMAIN a = InputFields
  BY <1>4 DEF Along
<1>6. /\ DOMAIN j = InputFields /\ j.scan = a.scan /\ j.eoi_reached = a.eoi_reached
      /\ j.quant_table = a.quant_table /\ j.coef_bits = a.coef_bits /\ j.whole_image = empty
      /\ j.MCU_vert_offset = a.MCU_vert_offset /\ j.MCU_ctr = a.MCU_ctr
      /\ j.iMCU_row = a.iMCU_row /\ j.consume = a.consume
  BY <1>5 DEF InputFields
<1> HIDE DEF j
<1>7. Along(f_image, j) /\ Known(f_image, j, j.scan)
  BY <1>4, <1>6 DEF Along, Known
<1>8. ASSUME full PROVE Buffers(f_image, j)
  <2>1. empty = [b \in Coefs!Padded |-> <<>>]
    BY <1>8 DEF empty
  <2>2. \A b \in DOMAIN empty : BlockOf(f_image, b)
    BY <2>1, RealAre DEF BlockOf
  <2>3. ASSUME NEW b, Seen(f_image, b) PROVE b \in DOMAIN empty /\ Held(empty[b], Arrived(f_image, j, b))
    <3>1. b \in Coefs!Padded
      BY <2>3, RealAre
    <3>2. Arrived(f_image, j, b) = Arrived(f_image, a, b)
      BY <1>6 DEF Arrived, Before, CursorOf
    <3>3. Arrived(f_image, j, b) = {}
      BY <1>4, <2>3, <3>2
    <3>4. empty[b] = <<>> /\ b \in DOMAIN empty
      BY <2>1, <3>1
    <3>5. Held(<<>>, {})
      <4>1. <<>> \in Seq(Nat) /\ DOMAIN <<>> = {}
        BY EmptySeq, LenProperties
      <4> QED BY <4>1 DEF Held, Coefs!OnceInOrder, Coefs!ToSet
    <3> QED BY <3>3, <3>4, <3>5
  <2> QED BY <1>6, <2>2, <2>3 DEF Buffers
<1> QED BY <1>4, <1>6, <1>7, <1>8 DEF j, empty, a

(* The output side.                                                        *)
OutFields == {"scan", "iMCU_row", "begun", "multipliers", "smoothing", "coef_bits_latch"}
OutWell(im, o) ==
  /\ DOMAIN o = OutFields /\ o.scan \in Nat /\ o.iMCU_row \in Nat /\ o.begun \in Nat /\ o.smoothing \in BOOLEAN
  /\ \A c \in DOMAIN im.factors : Upto(im, c, o.begun) # {} => c \in o.multipliers
  /\ o.smoothing => \A c \in DOMAIN im.factors : \A k \in 1 .. SAVED_COEFS - 1 :
        o.coef_bits_latch[c][k] = 0 => \E s \in Upto(im, c, o.begun) : ExactIn(im, s, k)
(* The scan which the pass shows. *)
PassOf(im, o) == IF o.scan <= Len(im.scans) THEN o.scan ELSE Len(im.scans)
FirstBits(im, c, n) == {s \in Upto(im, c, n) : im.scans[s].Ss = 0}
(* What has been shown, by a pass over the nth scan.                       *)
RowShown(im, sh, n, smooth) ==
  /\ \A b : b \in DOMAIN sh.blocks <=> (Seen(im, b) /\ ImcuOf(im, b) = sh.row)
  /\ \A b \in DOMAIN sh.blocks :
       Coefs!OnceInOrder(sh.blocks[b]) /\ Upto(im, b[1], n) \subseteq Coefs!ToSet(sh.blocks[b])
  /\ \A b \in DOMAIN sh.around :
       /\ smooth /\ b \in DOMAIN sh.blocks
       /\ \A near \in sh.around[b] : FirstBits(im, b[1], n) \subseteq Coefs!ToSet(near)
ArraysShown(im, sh) ==
  \A b \in DOMAIN sh.blocks :
    Seen(im, b) => Coefs!OnceInOrder(sh.blocks[b]) /\ Coefs!ToSet(sh.blocks[b]) = Upto(im, b[1], Len(im.scans))
Shows(im, sh, n, smooth) ==
  sh.done => IF sh.row = -1 THEN ArraysShown(im, sh) ELSE RowShown(im, sh, n, smooth)

LEMMA LeastOfTwo ==
  ASSUME NEW a \in Int, NEW b \in Int
  PROVE  /\ Coefs!Min({a, b}) = IF a <= b THEN a ELSE b
         /\ Coefs!Max({a, b}) = IF a >= b THEN a ELSE b
<1>1. Coefs!Min({a, b}) = CHOOSE x \in {a, b} : \A y \in {a, b} : x <= y
  BY DEF Coefs!Min
<1>2. Coefs!Max({a, b}) = CHOOSE x \in {a, b} : \A y \in {a, b} : x >= y
  BY DEF Coefs!Max
<1>3. \E x \in {a, b} : \A y \in {a, b} : x <= y
  OBVIOUS
<1>4. \E x \in {a, b} : \A y \in {a, b} : x >= y
  OBVIOUS
<1>5. Coefs!Min({a, b}) \in {a, b} /\ \A y \in {a, b} : Coefs!Min({a, b}) <= y
  BY <1>1, <1>3
<1>6. Coefs!Max({a, b}) \in {a, b} /\ \A y \in {a, b} : Coefs!Max({a, b}) >= y
  BY <1>2, <1>4
<1>7. Coefs!Min({a, b}) = IF a <= b THEN a ELSE b
  BY <1>5
<1>8. Coefs!Max({a, b}) = IF a >= b THEN a ELSE b
  BY <1>6
<1> QED BY <1>7, <1>8

(* What Shows says is what the property says. *)
LEMMA ShowsIs ==
  ASSUME Opened(f_image), OutWell(f_image, f_o), Shows(f_image, f_shown, PassOf(f_image, f_o), f_o.smoothing)
  PROVE  Coefs!PassShowsScan
<1> DEFINE n == PassOf(f_image, f_o)  len == Len(f_image.scans)
<1>1. len \in Nat /\ f_o.scan \in Nat /\ f_o.begun \in Nat /\ n \in Nat
  BY OpenedScans DEF OutWell, PassOf
<1>2. Coefs!PassScan = n /\ Coefs!Min({Coefs!PassScan, f_o.begun}) \in Nat /\ Coefs!Min({Coefs!PassScan, f_o.begun}) <= f_o.begun
  <2>1. Coefs!PassScan = n
    BY <1>1, LeastOfTwo DEF Coefs!PassScan, PassOf
  <2> HIDE DEF n
  <2>2. Coefs!Min({n, f_o.begun}) = IF n <= f_o.begun THEN n ELSE f_o.begun
    BY <1>1, LeastOfTwo
  <2> QED BY <1>1, <2>1, <2>2
<1> HIDE DEF n
<1>3. \A c, k : Coefs!ScansOf(c, k) = Upto(f_image, c, k)
  BY OfImage
<1>4. ASSUME f_shown.done, f_shown.row = -1
      PROVE  \A b \in DOMAIN f_shown.blocks :
               b \in Coefs!RealBlocks(b[2] \div Coefs!v_samp(b[1])) =>
                 Coefs!OnceInOrder(f_shown.blocks[b])
                 /\ Coefs!ToSet(f_shown.blocks[b]) = Coefs!ScansOf(b[1], Len(f_image.scans))
  BY <1>3, <1>4, RealAre DEF Shows, ArraysShown
<1>5. ASSUME f_shown.done, f_shown.row # -1
      PROVE  /\ DOMAIN f_shown.blocks = Coefs!RealBlocks(f_shown.row)
             /\ \A b \in DOMAIN f_shown.blocks : Coefs!Complete(b)
             /\ \A b \in DOMAIN f_shown.around : Coefs!SmoothedFrom(b)
  <2>1. RowShown(f_image, f_shown, n, f_o.smoothing)
    BY <1>5 DEF Shows, n
  <2>2. \A b : b \in DOMAIN f_shown.blocks <=> (Seen(f_image, b) /\ ImcuOf(f_image, b) = f_shown.row)
    BY <2>1 DEF RowShown
  <2>3. DOMAIN f_shown.blocks = Coefs!RealBlocks(f_shown.row)
    <3>1. \A b : b \in Coefs!RealBlocks(f_shown.row) <=> (Seen(f_image, b) /\ ImcuOf(f_image, b) = f_shown.row)
      BY RealAre DEF ImcuOf
    <3> QED BY <2>2, <3>1
  <2>4. ASSUME NEW b \in DOMAIN f_shown.blocks PROVE Coefs!Complete(b)
    <3>1. b[1] \in DOMAIN f_image.factors
      BY <2>2 DEF Seen
    <3>2. Coefs!OnceInOrder(f_shown.blocks[b]) /\ Upto(f_image, b[1], n) \subseteq Coefs!ToSet(f_shown.blocks[b])
      BY <2>1 DEF RowShown
    <3>3. Upto(f_image, b[1], Coefs!Min({Coefs!PassScan, f_o.begun})) \subseteq Upto(f_image, b[1], f_o.begun)
      BY <1>1, <1>2, UptoIs
    <3>4. Upto(f_image, b[1], f_o.begun) # {} => b[1] \in f_o.multipliers
      BY <3>1 DEF OutWell
    <3> QED BY <1>2, <1>3, <3>2, <3>3, <3>4 DEF Coefs!Complete
  <2>5. ASSUME NEW b \in DOMAIN f_shown.around PROVE Coefs!SmoothedFrom(b)
    <3>1. /\ f_o.smoothing /\ b \in DOMAIN f_shown.blocks
          /\ \A near \in f_shown.around[b] : FirstBits(f_image, b[1], n) \subseteq Coefs!ToSet(near)
      BY <2>1 DEF RowShown
    <3>2. b[1] \in DOMAIN f_image.factors /\ Upto(f_image, b[1], n) \subseteq Coefs!ToSet(f_shown.blocks[b])
      BY <2>1, <2>2, <3>1 DEF RowShown, Seen
    <3>3. {s \in Coefs!ScansOf(b[1], Coefs!PassScan) : f_image.scans[s].Ss = 0} = FirstBits(f_image, b[1], n)
      BY <1>2, <1>3 DEF FirstBits
    <3>4. ASSUME f_o.begun <= n, NEW k \in 1 .. SAVED_COEFS - 1, f_o.coef_bits_latch[b[1]][k] = 0
          PROVE  \E s \in Coefs!ToSet(f_shown.blocks[b]) :
                   k \in f_image.scans[s].Ss .. f_image.scans[s].Se /\ f_image.scans[s].Al = 0
      <4>1. PICK s \in Upto(f_image, b[1], f_o.begun) : ExactIn(f_image, s, k)
        BY <3>1, <3>2, <3>4 DEF OutWell
      <4>2. Upto(f_image, b[1], f_o.begun) \subseteq Upto(f_image, b[1], n)
        BY <1>1, <3>4, UptoIs
      <4> QED BY <3>2, <4>1, <4>2 DEF ExactIn
    <3> QED BY <1>2, <3>1, <3>3, <3>4 DEF Coefs!SmoothedFrom
  <2> QED BY <2>3, <2>4, <2>5
<1> QED BY <1>4, <1>5 DEF Coefs!PassShowsScan

(* A pass begins. *)
LEMMA PassBegins ==
  ASSUME ArrivesWell(f_image, f_i), OutWell(f_image, f_o), NEW n \in Nat
  PROVE  LET p == Coefs!output_pass_setup(f_o, n) IN OutWell(f_image, p) /\ p.iMCU_row = 0
<1> DEFINE p == Coefs!output_pass_setup(f_o, n)  useful == Coefs!smoothing_useful
<1>1. /\ DOMAIN p = OutFields /\ p.scan = n /\ p.iMCU_row = 0 /\ p.begun = f_i.scan
      /\ p.multipliers = f_o.multipliers \cup f_i.quant_table
      /\ p.smoothing = useful
      /\ p.coef_bits_latch = IF useful THEN f_i.coef_bits ELSE f_o.coef_bits_latch
  <2>1. DOMAIN f_o = OutFields
    BY DEF OutWell
  <2> HIDE DEF useful
  <2> QED BY <2>1 DEF Coefs!output_pass_setup, OutFields, Coefs!idct_start_pass, useful
<1>2. useful \in BOOLEAN
  BY DEF Coefs!smoothing_useful
<1> HIDE DEF p, useful
<1>3. Opened(f_image) /\ f_i.scan \in DOMAIN f_image.scans /\ Known(f_image, f_i, f_i.scan)
  BY DEF ArrivesWell, Along
<1>4. f_i.scan \in Nat
  BY <1>3, ScanIs
<1>5. \A c \in DOMAIN f_image.factors : Upto(f_image, c, p.begun) # {} => c \in p.multipliers
  BY <1>1, <1>3 DEF Known
<1>6. p.smoothing => \A c \in DOMAIN f_image.factors : \A k \in 1 .. SAVED_COEFS - 1 :
        p.coef_bits_latch[c][k] = 0 => \E s \in Upto(f_image, c, p.begun) : ExactIn(f_image, s, k)
  <2> SUFFICES ASSUME p.smoothing, NEW c \in DOMAIN f_image.factors, NEW k \in 1 .. SAVED_COEFS - 1,
                      p.coef_bits_latch[c][k] = 0
               PROVE  \E s \in Upto(f_image, c, p.begun) : ExactIn(f_image, s, k)
    OBVIOUS
  <2>1. k \in 0 .. SAVED_COEFS - 1
    BY SavedIs
  <2>2. f_i.coef_bits[c][k] = 0
    BY <1>1
  <2> QED BY <1>1, <1>3, <2>1, <2>2 DEF Known
<1> QED BY <1>1, <1>2, <1>4, <1>5, <1>6 DEF OutWell, p

(* consume_markers at the end of the file: the pass shows the same scan. *)
LEMMA ClampKeeps ==
  ASSUME ArrivesWell(f_image, f_i), OutWell(f_image, f_o), f_i.scan = Len(f_image.scans)
  PROVE  LET p == [f_o EXCEPT !.scan = Coefs!ClampedScan] IN
         /\ OutWell(f_image, p) /\ PassOf(f_image, p) = PassOf(f_image, f_o)
         /\ p.smoothing = f_o.smoothing /\ p.iMCU_row = f_o.iMCU_row
<1> DEFINE p == [f_o EXCEPT !.scan = Coefs!ClampedScan]  len == Len(f_image.scans)
<1>1. len \in Nat /\ f_o.scan \in Nat
  BY OpenedScans DEF ArrivesWell, Along, OutWell
<1>2. Coefs!ClampedScan = IF f_o.scan <= len THEN f_o.scan ELSE len
  BY <1>1, LeastOfTwo DEF Coefs!ClampedScan
<1>3. /\ DOMAIN p = OutFields /\ p.scan = Coefs!ClampedScan /\ p.iMCU_row = f_o.iMCU_row /\ p.begun = f_o.begun
      /\ p.multipliers = f_o.multipliers /\ p.smoothing = f_o.smoothing /\ p.coef_bits_latch = f_o.coef_bits_latch
  BY DEF OutWell, OutFields
<1> HIDE DEF p
<1>4. p.scan \in Nat /\ PassOf(f_image, p) = PassOf(f_image, f_o)
  BY <1>1, <1>2, <1>3 DEF PassOf
<1>5. OutWell(f_image, p)
  BY <1>3, <1>4 DEF OutWell
<1> QED BY <1>3, <1>4, <1>5 DEF p

(* Once the output side does not wait, what the pass needs has arrived.    *)
LEMMA EnoughArrived ==
  ASSUME ArrivesWell(f_image, f_i), FullOf(f_image), OutWell(f_image, f_o), ~Coefs!InputBehind,
         NEW b, Seen(f_image, b)
  PROVE  /\ ImcuOf(f_image, b) <= f_o.iMCU_row =>
              Upto(f_image, b[1], PassOf(f_image, f_o)) \subseteq Coefs!ToSet(f_i.whole_image[b])
         /\ f_o.smoothing /\ ImcuOf(f_image, b) <= f_o.iMCU_row + 1 =>
              FirstBits(f_image, b[1], PassOf(f_image, f_o)) \subseteq Coefs!ToSet(f_i.whole_image[b])
<1> DEFINE n == PassOf(f_image, f_o)  here == ImcuOf(f_image, b)  row == f_o.iMCU_row
           len == Len(f_image.scans)
<1>1. /\ Along(f_image, f_i) /\ Opened(f_image) /\ f_i.scan \in DOMAIN f_image.scans /\ f_i.iMCU_row \in Nat
      /\ f_i.eoi_reached \in BOOLEAN /\ f_i.consume \in {"data", "markers"}
      /\ f_i.eoi_reached => f_i.scan = len /\ f_i.consume = "markers"
  BY DEF ArrivesWell, Along
<1>2. /\ f_i.scan \in Nat /\ len \in Nat /\ f_i.scan <= len /\ f_o.scan \in Nat /\ row \in Nat
      /\ n \in Nat /\ n <= f_o.scan /\ n <= len
  BY <1>1, OpenedScans, ScanIs DEF OutWell, PassOf
<1>3. Coefs!ToSet(f_i.whole_image[b]) = Arrived(f_image, f_i, b)
  BY DEF ArrivesWell, Buffers, Held
<1>4. here \in Nat /\ (f_i.consume = "markers" => Arrived(f_image, f_i, b) = Upto(f_image, b[1], f_i.scan))
  BY <1>1, ArrivedIs
<1>5. Arrived(f_image, f_i, b) = {s \in Upto(f_image, b[1], f_i.scan) : s < f_i.scan \/ Before(f_image, f_i, b)}
  BY DEF Arrived
<1>6. here < f_i.iMCU_row => Before(f_image, f_i, b)
  BY DEF Before
<1>7. \A m \in Nat : \A s \in Upto(f_image, b[1], m) : s \in Nat /\ s \in DOMAIN f_image.scans /\ s <= m
  BY <1>1, UptoIs
<1>8. \A s \in Upto(f_image, b[1], n) : s <= f_i.scan => s \in Upto(f_image, b[1], f_i.scan)
  BY DEF Upto
<1> HIDE DEF n, here, row, len
<1>9. ASSUME NEW s \in Upto(f_image, b[1], n), s < f_i.scan \/ (s = f_i.scan /\ here < f_i.iMCU_row)
      PROVE  s \in Arrived(f_image, f_i, b)
  <2>1. s \in Nat /\ s <= f_i.scan
    BY <1>2, <1>7, <1>9
  <2> QED BY <1>5, <1>6, <1>8, <1>9, <2>1
<1>10. ASSUME f_i.eoi_reached PROVE Upto(f_image, b[1], n) \subseteq Arrived(f_image, f_i, b)
  <2>1. Arrived(f_image, f_i, b) = Upto(f_image, b[1], len)
    BY <1>1, <1>4, <1>10
  <2>2. Upto(f_image, b[1], n) \subseteq Upto(f_image, b[1], len)
    BY <1>1, <1>2, UptoIs
  <2> QED BY <2>1, <2>2
<1>11. CASE ~f_o.smoothing
  <2>1. ~(f_i.scan < f_o.scan \/ (f_i.scan = f_o.scan /\ f_i.iMCU_row <= row))
    BY <1>11 DEF Coefs!InputBehind, row
  <2>2. f_i.scan > f_o.scan \/ (f_i.scan = f_o.scan /\ f_i.iMCU_row > row)
    BY <1>1, <1>2, <2>1
  <2>3. ASSUME here <= row, NEW s \in Upto(f_image, b[1], n) PROVE s \in Arrived(f_image, f_i, b)
    <3>1. s \in Nat /\ s <= n
      BY <1>2, <1>7
    <3>2. s < f_i.scan \/ (s = f_i.scan /\ here < f_i.iMCU_row)
      BY <1>1, <1>2, <1>4, <2>2, <2>3, <3>1
    <3> QED BY <1>9, <3>2
  <2> QED BY <1>3, <1>11, <2>3 DEF n, here, row
<1>12. CASE f_o.smoothing
  <2>1. ~(/\ f_i.scan <= f_o.scan /\ ~f_i.eoi_reached
          /\ ~(f_i.scan = f_o.scan /\ f_i.iMCU_row > row + Coefs!delta))
    BY <1>12 DEF Coefs!InputBehind, row
  <2>2. Coefs!delta = IF f_image.scans[f_i.scan].Ss = 0 THEN 1 ELSE 0
    BY DEF Coefs!delta, Coefs!Scan
  <2>3. CASE f_i.eoi_reached
    BY <1>3, <1>10, <2>3 DEF FirstBits, n
  <2>4. CASE ~f_i.eoi_reached
    <3>1. f_i.scan > f_o.scan \/ (f_i.scan = f_o.scan /\ f_i.iMCU_row > row + Coefs!delta)
      BY <1>1, <1>2, <2>1, <2>4
    <3>2. ASSUME here <= row, NEW s \in Upto(f_image, b[1], n) PROVE s \in Arrived(f_image, f_i, b)
      <4>1. s \in Nat /\ s <= n
        BY <1>2, <1>7
      <4>2. s < f_i.scan \/ (s = f_i.scan /\ here < f_i.iMCU_row)
        BY <1>1, <1>2, <1>4, <2>2, <3>1, <3>2, <4>1
      <4> QED BY <1>9, <4>2
    <3>3. ASSUME here <= row + 1, NEW s \in FirstBits(f_image, b[1], n) PROVE s \in Arrived(f_image, f_i, b)
      <4>1. s \in Upto(f_image, b[1], n) /\ f_image.scans[s].Ss = 0
        BY <3>3 DEF FirstBits
      <4>2. s \in Nat /\ s <= n
        BY <1>2, <1>7, <4>1
      <4>3. s = f_i.scan => Coefs!delta = 1
        BY <2>2, <4>1
      <4>4. s < f_i.scan \/ (s = f_i.scan /\ here < f_i.iMCU_row)
        BY <1>1, <1>2, <1>4, <3>1, <3>3, <4>2, <4>3
      <4> QED BY <1>9, <4>1, <4>4
    <3> QED BY <1>3, <3>2, <3>3 DEF n, here, row
  <2> QED BY <2>3, <2>4
<1> QED BY <1>11, <1>12

(* The lines of the iMCU row of the pass, in every component. *)
LEMMA RowIs ==
  ASSUME Opened(f_image), f_o.iMCU_row \in Nat, f_o.iMCU_row < IRows(f_image)
  PROVE  /\ \A b : BlockOf(f_image, b) =>
              ((Coefs!InRow(b[1], b[2]) /\ b[3] < Columns(f_image, b[1])) <=>
                 (Seen(f_image, b) /\ ImcuOf(f_image, b) = f_o.iMCU_row))
         /\ \A c \in DOMAIN f_image.factors, y \in Nat :
              Coefs!InRow(c, y) <=> (y < Lines(f_image, c) /\ y \div f_image.factors[c][2] = f_o.iMCU_row)
<1>1. ASSUME NEW c \in DOMAIN f_image.factors, NEW y \in Nat
      PROVE  Coefs!InRow(c, y) <=> (y < Lines(f_image, c) /\ y \div f_image.factors[c][2] = f_o.iMCU_row)
  <2> DEFINE v == f_image.factors[c][2]  n == Lines(f_image, c)  l == LastLines(f_image, c)
             rows == IRows(f_image)  row == f_o.iMCU_row  q == y \div v
             d == IF row < rows - 1 THEN v ELSE l
  <2>1. Coefs!InRow(c, y) <=> y - row * v \in 0 .. d - 1
    BY OfImage DEF Coefs!InRow, Coefs!block_rows
  <2>2. /\ v \in Nat \ {0} /\ n \in Nat /\ l \in 1 .. v /\ rows \in Nat \ {0} /\ row \in Nat /\ row < rows
    BY SizesAre, SidesAre, LastLinesAre
  <2>3. /\ q \in Nat /\ q * v <= y /\ y - q * v < v
        /\ y < n => q < rows
        /\ q < rows - 1 => y < n
        /\ q = rows - 1 => (y < n <=> y - q * v < l)
    BY LineIn
  <2>4. y - row * v \in Int /\ row * v \in Nat /\ q * v \in Nat
    BY <2>2, <2>3
  <2>5. ASSUME y - row * v \in 0 .. d - 1 PROVE q = row
    <3> DEFINE r == y - row * v
    <3>1. r \in Nat /\ r < v /\ y = row * v + r
      BY <2>2, <2>4, <2>5
    <3> HIDE DEF r, v
    <3>2. (row * v + r) \div v = row
      BY <2>2, <3>1, Unit
    <3> QED BY <3>1, <3>2
  <2> HIDE DEF v, n, l, rows, row, q, d
  <2>6. (y - row * v \in 0 .. d - 1) => (y < n /\ q = row)
    <3> SUFFICES ASSUME y - row * v \in 0 .. d - 1 PROVE y < n /\ q = row
      OBVIOUS
    <3>1. q = row
      BY <2>5
    <3>2. d = v \/ d = l
      BY DEF d
    <3>3. row < rows - 1 \/ (row = rows - 1 /\ d = l)
      BY <2>2 DEF d
    <3>4. CASE row < rows - 1
      BY <2>3, <3>1, <3>4
    <3>5. CASE row = rows - 1 /\ d = l
      <4> DEFINE r == y - row * v
      <4>1. r \in Int /\ r \in 0 .. d - 1
        BY <2>4
      <4> HIDE DEF r
      <4>2. r < l
        BY <2>2, <3>5, <4>1
      <4> QED BY <2>3, <3>1, <3>5, <4>2 DEF r
    <3> QED BY <3>1, <3>3, <3>4, <3>5
  <2>7. (y < n /\ q = row) => (y - row * v \in 0 .. d - 1)
    <3> SUFFICES ASSUME y < n, q = row PROVE y - row * v \in 0 .. d - 1
      OBVIOUS
    <3> DEFINE r == y - row * v
    <3>1. r \in Nat /\ r < v
      <4>1. row * v <= y /\ y - row * v < v
        BY <2>3
      <4> QED BY <2>4, <4>1
    <3>2. row = rows - 1 => r < l
      BY <2>3
    <3> HIDE DEF r
    <3>3. r < d /\ d \in Nat
      BY <2>2, <3>1, <3>2 DEF d
    <3>4. r \in 0 .. d - 1
      BY <3>1, <3>3
    <3> QED BY <3>4 DEF r
  <2> QED BY <2>1, <2>6, <2>7 DEF n, q, row, v
<1>2. ASSUME NEW b, BlockOf(f_image, b)
      PROVE  (Coefs!InRow(b[1], b[2]) /\ b[3] < Columns(f_image, b[1])) <=>
               (Seen(f_image, b) /\ ImcuOf(f_image, b) = f_o.iMCU_row)
  <2>1. b[1] \in DOMAIN f_image.factors /\ b[2] \in Nat /\ b[3] \in Nat /\ b = <<b[1], b[2], b[3]>>
    BY <1>2 DEF BlockOf
  <2>2. Coefs!InRow(b[1], b[2]) <=> (b[2] < Lines(f_image, b[1]) /\ ImcuOf(f_image, b) = f_o.iMCU_row)
    BY <1>1, <2>1 DEF ImcuOf
  <2>3. Seen(f_image, b) <=> (b[2] < Lines(f_image, b[1]) /\ b[3] < Columns(f_image, b[1]))
    BY <2>1 DEF Seen
  <2> QED BY <2>2, <2>3
<1> QED BY <1>1, <1>2

(* The blocks that smoothing reads around one of the row.                  *)
LEMMA AroundIs ==
  ASSUME Opened(f_image), f_o.iMCU_row \in Nat, f_o.iMCU_row < IRows(f_image),
         NEW b, Seen(f_image, b), ImcuOf(f_image, b) = f_o.iMCU_row,
         NEW a \in Coefs!Around(b[1], b[2], b[3])
  PROVE  Seen(f_image, a) /\ a[1] = b[1] /\ ImcuOf(f_image, a) <= f_o.iMCU_row + 1
<1> DEFINE c == b[1]  y == b[2]  x == b[3]  v == f_image.factors[b[1]][2]  row == f_o.iMCU_row
           n == Lines(f_image, b[1])  w == Columns(f_image, b[1])  rows == IRows(f_image)
<1>1. /\ c \in DOMAIN f_image.factors /\ y \in Nat /\ x \in Nat /\ y < n /\ x < w
      /\ v \in Nat \ {0} /\ n \in Nat /\ w \in Nat \ {0} /\ rows \in Nat \ {0} /\ row \in Nat /\ row < rows
      /\ y \div v = row
  BY SizesAre, SidesAre DEF Seen, ImcuOf
<1>2. PICK s \in {y, IF Coefs!first_row(y) THEN y ELSE y - 1, IF Coefs!last_row(c, y) THEN y ELSE y + 1},
           t \in {x, Coefs!Max({x - 1, 0}), Coefs!Min({x + 1, Coefs!width_in_blocks(c) - 1})} :
             a = <<c, s, t>>
  BY DEF Coefs!Around
<1>3. t \in Nat /\ t < w
  <2>1. Coefs!width_in_blocks(c) = w
    BY <1>1, OfImage
  <2> HIDE DEF x, w, c
  <2>2. Coefs!Max({x - 1, 0}) = IF x - 1 >= 0 THEN x - 1 ELSE 0
    <3> DEFINE p == x - 1  z == 0
    <3>1. p \in Int /\ z \in Int
      BY <1>1
    <3> HIDE DEF p, z
    <3>2. Coefs!Max({p, z}) = IF p >= z THEN p ELSE z
      BY <3>1, LeastOfTwo
    <3> QED BY <3>2 DEF p, z
  <2>3. Coefs!Min({x + 1, w - 1}) = IF x + 1 <= w - 1 THEN x + 1 ELSE w - 1
    <3>1. x + 1 \in Int /\ w - 1 \in Int
      BY <1>1
    <3> QED BY <3>1, LeastOfTwo
  <2> QED BY <1>1, <1>2, <2>1, <2>2, <2>3
<1>4. \A z \in Nat : z <= y + 1 => z \div v \in Nat /\ z \div v <= row + 1
  <2> SUFFICES ASSUME NEW z \in Nat, z <= y + 1 PROVE z \div v \in Nat /\ z \div v <= row + 1
    OBVIOUS
  <2> DEFINE q == z \div v  r == z % v  p == y % v
  <2>1. q \in Nat /\ r \in Nat /\ z = v * q + r
    BY <1>1, Quotient
  <2>2. p \in Nat /\ p < v /\ y = v * row + p
    BY <1>1, Quotient
  <2> HIDE DEF q, r, p, v, y, row
  <2>3. q <= row + 1
    <3>1. q >= row + 2 => v * q >= v * (row + 2)
      BY <1>1, <2>1
    <3>2. v * (row + 2) = v * row + 2 * v /\ v * row \in Nat /\ v * q \in Nat
      BY <1>1, <2>1
    <3> QED BY <1>1, <2>1, <2>2, <3>1, <3>2
  <2> QED BY <2>1, <2>3 DEF q
<1>5. y = 0 => row = 0
  BY <1>1, Unit DEF y
<1>6. ~Coefs!first_row(y) => y # 0
  BY <1>5 DEF Coefs!first_row
<1>7. ~Coefs!last_row(c, y) => y + 1 < n
  <2> SUFFICES ASSUME ~Coefs!last_row(c, y) PROVE y + 1 < n
    OBVIOUS
  <2>1. row # rows - 1 \/ Coefs!InRow(c, y + 1)
    BY OfImage DEF Coefs!last_row
  <2>2. CASE Coefs!InRow(c, y + 1)
    <3>1. y + 1 \in Nat
      BY <1>1
    <3> QED BY <1>1, <2>2, <3>1, RowIs
  <2>3. CASE row # rows - 1
    <3> DEFINE z == y + 1
    <3>1. z \in Nat /\ z \div v <= row + 1
      BY <1>1, <1>4
    <3> DEFINE p == y % v  m == rows - 1
    <3>2. p \in Nat /\ p < v /\ y = v * row + p
      BY <1>1, Quotient
    <3>3. m * v < n
      BY <1>1, SidesAre
    <3> HIDE DEF p, v, y, row, m, n
    <3>4. m \in Nat /\ row + 1 <= m
      BY <1>1, <2>3 DEF m
    <3>5. (row + 1) * v <= m * v
      BY <1>1, <3>4
    <3>6. (row + 1) * v = v * row + v /\ v * row \in Nat /\ m * v \in Nat
      BY <1>1, <3>4
    <3> QED BY <1>1, <3>2, <3>3, <3>5, <3>6
  <2> QED BY <2>1, <2>2, <2>3
<1>8. s \in Nat /\ s < n /\ s <= y + 1
  <2>1. s = y \/ (s = y - 1 /\ y # 0) \/ (s = y + 1 /\ y + 1 < n)
    BY <1>2, <1>6, <1>7
  <2> HIDE DEF y, n
  <2> QED BY <1>1, <2>1
<1>9. a[1] = c /\ a[2] = s /\ a[3] = t
  BY <1>2
<1>10. ImcuOf(f_image, a) <= row + 1
  BY <1>4, <1>8, <1>9 DEF ImcuOf
<1>11. Seen(f_image, a)
  <2>1. a = <<a[1], a[2], a[3]>>
    BY <1>2, <1>9
  <2> QED BY <1>1, <1>3, <1>8, <1>9, <2>1 DEF Seen
<1> QED BY <1>9, <1>10, <1>11

(* decompress_data: the row is complete.                                   *)
LEMMA ArraysGiven ==
  ASSUME ArrivesWell(f_image, f_i), FullOf(f_image), OutWell(f_image, f_o), ~Coefs!InputBehind,
         f_o.iMCU_row < IRows(f_image)
  PROVE  Shows(f_image, Coefs!FromArrays, PassOf(f_image, f_o), f_o.smoothing)
<1> DEFINE n == PassOf(f_image, f_o)  row == f_o.iMCU_row  whole == f_i.whole_image
           blocks == {b \in DOMAIN f_i.whole_image : Coefs!InRow(b[1], b[2]) /\ b[3] < Coefs!width_in_blocks(b[1])}
           sh == Coefs!FromArrays
           near(b) == {whole[a] : a \in Coefs!Around(b[1], b[2], b[3])}
<1>1. /\ Along(f_image, f_i) /\ Opened(f_image) /\ row \in Nat /\ Buffers(f_image, f_i)
  BY DEF ArrivesWell, Along, OutWell
<1>2. /\ sh.row = row /\ sh.done = TRUE
      /\ sh.blocks = [b \in blocks |-> whole[b]]
      /\ sh.around = [b \in IF f_o.smoothing THEN blocks ELSE {} |-> near(b)]
  BY DEF Coefs!FromArrays
<1>3. \A b : b \in blocks <=> (Seen(f_image, b) /\ ImcuOf(f_image, b) = row)
  <2>1. ASSUME NEW b, b \in DOMAIN whole
        PROVE  b \in blocks <=> (Seen(f_image, b) /\ ImcuOf(f_image, b) = row)
    <3>1. BlockOf(f_image, b) /\ b[1] \in DOMAIN f_image.factors
      BY <1>1, <2>1 DEF Buffers, BlockOf
    <3>2. Coefs!width_in_blocks(b[1]) = Columns(f_image, b[1])
      BY <3>1, OfImage
    <3> QED BY <1>1, <2>1, <3>1, <3>2, RowIs
  <2>2. \A b : Seen(f_image, b) => b \in DOMAIN whole
    BY <1>1 DEF Buffers
  <2> QED BY <2>1, <2>2
<1> HIDE DEF blocks, sh, near, whole
<1>4. DOMAIN sh.blocks = blocks /\ \A b \in blocks : sh.blocks[b] = whole[b]
  BY <1>2
<1>5. \A b : Seen(f_image, b) => Coefs!OnceInOrder(whole[b])
  BY <1>1 DEF Buffers, Held, whole
<1>6. ASSUME NEW b \in DOMAIN sh.blocks
      PROVE  Coefs!OnceInOrder(sh.blocks[b]) /\ Upto(f_image, b[1], n) \subseteq Coefs!ToSet(sh.blocks[b])
  <2>1. Seen(f_image, b) /\ ImcuOf(f_image, b) = row /\ sh.blocks[b] = whole[b]
    BY <1>3, <1>4
  <2>2. ImcuOf(f_image, b) <= f_o.iMCU_row
    BY <1>1, <2>1
  <2>3. Upto(f_image, b[1], n) \subseteq Coefs!ToSet(whole[b])
    BY <2>1, <2>2, EnoughArrived DEF whole
  <2> QED BY <1>5, <2>1, <2>3
<1>7. ASSUME NEW b \in DOMAIN sh.around
      PROVE  /\ f_o.smoothing /\ b \in DOMAIN sh.blocks
             /\ \A a \in sh.around[b] : FirstBits(f_image, b[1], n) \subseteq Coefs!ToSet(a)
  <2>1. f_o.smoothing /\ b \in blocks /\ sh.around[b] = near(b)
    BY <1>2
  <2>2. Seen(f_image, b) /\ ImcuOf(f_image, b) = row
    BY <1>3, <2>1
  <2>3. ASSUME NEW a \in Coefs!Around(b[1], b[2], b[3])
        PROVE  FirstBits(f_image, b[1], n) \subseteq Coefs!ToSet(whole[a])
    <3>1. Seen(f_image, a) /\ a[1] = b[1] /\ ImcuOf(f_image, a) <= f_o.iMCU_row + 1
      BY <1>1, <2>2, AroundIs
    <3>2. FirstBits(f_image, a[1], n) \subseteq Coefs!ToSet(whole[a])
      BY <2>1, <3>1, EnoughArrived DEF whole
    <3> QED BY <3>1, <3>2
  <2> QED BY <1>4, <2>1, <2>3 DEF near
<1>8. row # -1
  BY <1>1
<1>9. RowShown(f_image, sh, n, f_o.smoothing)
  BY <1>2, <1>3, <1>4, <1>6, <1>7 DEF RowShown
<1> QED BY <1>2, <1>8, <1>9 DEF Shows, sh

(* jpeg_read_coefficients, at the end of the file. *)
LEMMA CoefficientsGiven ==
  ASSUME ArrivesWell(f_image, f_i), FullOf(f_image), f_i.eoi_reached, NEW n, NEW smooth
  PROVE  Shows(f_image, [Coefs!Blank EXCEPT !.done = TRUE, !.blocks = f_i.whole_image], n, smooth)
<1> DEFINE sh == [Coefs!Blank EXCEPT !.done = TRUE, !.blocks = f_i.whole_image]
<1>1. sh.row = -1 /\ sh.blocks = f_i.whole_image
  BY DEF Coefs!Blank
<1>2. Along(f_image, f_i) /\ f_i.consume = "markers" /\ f_i.scan = Len(f_image.scans) /\ Buffers(f_image, f_i)
  BY DEF ArrivesWell, Along
<1>3. \A b : Seen(f_image, b) => Held(f_i.whole_image[b], Upto(f_image, b[1], Len(f_image.scans)))
  BY <1>2, ArrivedIs DEF Buffers
<1> HIDE DEF sh
<1>4. ArraysShown(f_image, sh)
  BY <1>1, <1>3 DEF ArraysShown, Held
<1> QED BY <1>1, <1>4 DEF Shows, sh

(* A picture of one scan, of all the components: what is shown follows     *)
(* the input, MCU by MCU.                                                  *)
Sync(im, i, o, sh) ==
  /\ i.iMCU_row = o.iMCU_row
  /\ IF sh.done THEN i.MCU_vert_offset = 0 /\ i.MCU_ctr = 0
     ELSE /\ \A b : b \in DOMAIN sh.blocks <=>
                      (Seen(im, b) /\ ImcuOf(im, b) = i.iMCU_row /\ At(im, i.scan, b) < CursorOf(im, i))
          /\ \A b \in DOMAIN sh.blocks : sh.blocks[b] = <<1>>

LEMMA OneScan ==
  ASSUME NEW im, Opened(im), ~FullOf(im)
  PROVE  /\ DOMAIN im.scans = {1} /\ InScan(im, 1) = DOMAIN im.factors
         /\ \A c, n : Upto(im, c, n) \subseteq {1}
<1>1. Len(im.scans) = 1 /\ Coefs!ToSet(im.scans[1].comps) = DOMAIN im.factors
  BY DEF Opened, FullOf
<1>2. DOMAIN im.scans = 1 .. 1
  BY <1>1, OpenedScans
<1> QED BY <1>1, <1>2 DEF Upto, InScan, Coefs!ToSet

LEMMA OnePassGiven ==
  ASSUME Along(f_image, f_i), ~FullOf(f_image), OutWell(f_image, f_o), f_o.iMCU_row < IRows(f_image),
         Sync(f_image, f_i, f_o, f_shown), NEW k \in 0 .. Coefs!MCUsLeft,
         NEW p, p.iMCU_row = IF k < Coefs!MCUsLeft THEN f_o.iMCU_row ELSE f_o.iMCU_row + 1
  PROVE  /\ Sync(f_image, Coefs!Counted(f_i, k), p, Coefs!OnePass(k))
         /\ Shows(f_image, Coefs!OnePass(k), PassOf(f_image, f_o), f_o.smoothing)
<1> DEFINE row == f_o.iMCU_row  from == CursorOf(f_image, f_i)  left == Coefs!MCUsLeft
           kept == IF f_shown.done THEN <<>> ELSE f_shown.blocks
           new == {b \in Coefs!Decoded(k) : Coefs!Useful(b[1], b[2], b[3])}
           sh == Coefs!OnePass(k)  j == Coefs!Counted(f_i, k)
           all == PerRow(f_image, f_i.scan) * Deep(f_image, f_i.scan, f_i.iMCU_row)
<1>1. /\ Opened(f_image) /\ f_i.scan = 1 /\ 1 \in DOMAIN f_image.scans /\ f_i.iMCU_row = row /\ row \in Nat
      /\ row < IRows(f_image) /\ Reading
      /\ \A c \in DOMAIN f_image.factors : c \in InScan(f_image, 1)
  BY OneScan, AlongReads DEF Along, Sync, OutWell
<1>2. /\ sh.row = row /\ (sh.done <=> k = left) /\ sh.around = <<>>
      /\ sh.blocks = [b \in (DOMAIN kept) \cup new |-> IF b \in new THEN <<1>> ELSE kept[b]]
  BY DEF Coefs!OnePass
<1>3. from \in Nat /\ k \in Nat /\ (k < left \/ k = left) /\ ~(left < left)
  <2>1. from \in Nat /\ (k < left \/ k = left)
    BY CountedIs
  <2>2. left = PerRow(f_image, f_i.scan) * (Deep(f_image, f_i.scan, f_i.iMCU_row) - f_i.MCU_vert_offset) - f_i.MCU_ctr
        /\ Deep(f_image, f_i.scan, f_i.iMCU_row) \in Nat /\ PerRow(f_image, f_i.scan) \in Nat
        /\ f_i.MCU_vert_offset \in Nat /\ f_i.MCU_ctr \in Nat
    BY <1>1, OfScan DEF Coefs!MCUsLeft, Reading
  <2>3. left \in Int
    BY <2>2
  <2> HIDE DEF left
  <2>4. k \in 0 .. left
    BY DEF left
  <2> QED BY <2>1, <2>3, <2>4
<1>4. \A b : b \in new <=> (Seen(f_image, b) /\ ImcuOf(f_image, b) = row
                             /\ from <= At(f_image, 1, b) /\ At(f_image, 1, b) < from + k)
  <2>1. CursorOf(f_image, f_i) = from
    OBVIOUS
  <2>2. /\ \A b \in Coefs!Decoded(k) :
             /\ b[1] \in InScan(f_image, 1) /\ b = <<b[1], b[2], b[3]>>
             /\ b[2] \in Nat /\ b[3] \in Nat /\ ImcuOf(f_image, b) = row
        /\ \A b : Seen(f_image, b) =>
             (b \in Coefs!Decoded(k) <=>
                /\ b[1] \in InScan(f_image, 1) /\ ImcuOf(f_image, b) = row
                /\ from <= At(f_image, 1, b) /\ At(f_image, 1, b) < from + k)
    BY <1>1, <2>1, DecodedIs
  <2> HIDE DEF from, left
  <2>3. ASSUME NEW b \in Coefs!Decoded(k) PROVE Coefs!Useful(b[1], b[2], b[3]) <=> Seen(f_image, b)
    <3> DEFINE c == b[1]  y == b[2]  v == f_image.factors[b[1]][2]  rows == IRows(f_image)
    <3>1. c \in DOMAIN f_image.factors /\ y \in Nat /\ b[3] \in Nat /\ b = <<b[1], b[2], b[3]>> /\ y \div v = row
      BY <1>1, <2>2, ScanIs DEF ImcuOf
    <3>2. Coefs!Useful(c, y, b[3]) <=>
            /\ row < rows - 1 \/ y - row * v < LastLines(f_image, c)
            /\ b[3] < Columns(f_image, c)
      BY <1>1, <3>1, OfImage DEF Coefs!Useful
    <3>3. /\ row < rows - 1 => y < Lines(f_image, c)
          /\ row = rows - 1 => (y < Lines(f_image, c) <=> y - row * v < LastLines(f_image, c))
      BY <1>1, <3>1, LineIn
    <3>4. row < rows - 1 \/ (row = rows - 1 /\ ~(row < rows - 1))
      BY <1>1, SidesAre
    <3>5. (row < rows - 1 \/ y - row * v < LastLines(f_image, c)) <=> y < Lines(f_image, c)
      BY <3>3, <3>4
    <3> QED BY <3>1, <3>2, <3>5 DEF Seen
  <2>4. \A b : Seen(f_image, b) => b[1] \in InScan(f_image, 1)
    BY <1>1 DEF Seen
  <2> QED BY <2>2, <2>3, <2>4
<1>5. \A b : Seen(f_image, b) /\ ImcuOf(f_image, b) = row =>
               At(f_image, 1, b) \in Nat /\ At(f_image, 1, b) < all
  <2>1. \A b : Seen(f_image, b) => b[1] \in InScan(f_image, 1)
    BY <1>1 DEF Seen
  <2> QED BY <1>1, <2>1, PlaceIs DEF ImcuOf
<1>6. \A b : b \in DOMAIN kept <=> (Seen(f_image, b) /\ ImcuOf(f_image, b) = row /\ At(f_image, 1, b) < from)
  <2>1. CASE f_shown.done
    <3>1. f_i.MCU_vert_offset = 0 /\ f_i.MCU_ctr = 0
      BY <2>1 DEF Sync
    <3>2. from = 0 * PerRow(f_image, f_i.scan) + 0 /\ PerRow(f_image, f_i.scan) \in Nat
      BY <1>1, <3>1, OfScan DEF CursorOf, Reading
    <3>3. from = 0
      BY <3>2
    <3>4. DOMAIN kept = {}
      BY <2>1
    <3> HIDE DEF from, kept
    <3> QED BY <1>5, <3>3, <3>4
  <2>2. CASE ~f_shown.done
    BY <1>1, <2>2 DEF Sync
  <2> QED BY <2>1, <2>2
<1>7. \A b \in DOMAIN kept : kept[b] = <<1>>
  BY DEF Sync
<1> HIDE DEF kept, new, sh, from, left, all, row
<1>8. /\ DOMAIN sh.blocks = (DOMAIN kept) \cup new
      /\ \A b \in DOMAIN sh.blocks : sh.blocks[b] = <<1>>
  BY <1>2, <1>7
<1>9. \A b : b \in DOMAIN sh.blocks <=> (Seen(f_image, b) /\ ImcuOf(f_image, b) = row /\ At(f_image, 1, b) < from + k)
  BY <1>3, <1>4, <1>5, <1>6, <1>8
<1>10. CASE k < left
  <2>1. ~sh.done
    BY <1>2, <1>3, <1>10
  <2>2. j.scan = 1 /\ j.iMCU_row = row /\ CursorOf(f_image, j) = from + k
    BY <1>1, <1>10, CountedIs DEF from, left
  <2>3. p.iMCU_row = row
    BY <1>10 DEF left, row
  <2> HIDE DEF j
  <2>4. Sync(f_image, j, p, sh)
    BY <1>8, <1>9, <2>1, <2>2, <2>3 DEF Sync
  <2> QED BY <2>1, <2>4 DEF Shows, sh, j
<1>11. CASE k = left
  <2>1. sh.done
    BY <1>2, <1>11
  <2>2. j.iMCU_row = row + 1 /\ j.MCU_vert_offset = 0 /\ j.MCU_ctr = 0
    BY <1>1, <1>11, CountedIs DEF left
  <2>3. p.iMCU_row = row + 1
    BY <1>3, <1>11 DEF left, row
  <2> HIDE DEF j
  <2>4. Sync(f_image, j, p, sh)
    BY <2>1, <2>2, <2>3 DEF Sync
  <2>5. \A b : b \in DOMAIN sh.blocks <=> (Seen(f_image, b) /\ ImcuOf(f_image, b) = row)
    <3>1. from + k = all
      BY <1>1, <1>11, AlongReads, LeftIs DEF from, left, all
    <3> QED BY <1>5, <1>9, <3>1
  <2>6. ASSUME NEW b \in DOMAIN sh.blocks
        PROVE  /\ Coefs!OnceInOrder(sh.blocks[b])
               /\ Upto(f_image, b[1], PassOf(f_image, f_o)) \subseteq Coefs!ToSet(sh.blocks[b])
    <3>1. sh.blocks[b] = <<1>>
      BY <1>8
    <3>2. DOMAIN <<1>> = {1} /\ <<1>>[1] = 1
      <4>1. DOMAIN <<1>> = 1 .. 1
        OBVIOUS
      <4> QED BY <4>1
    <3>3. Coefs!OnceInOrder(<<1>>) /\ Coefs!ToSet(<<1>>) = {1}
      BY <3>2 DEF Coefs!OnceInOrder, Coefs!ToSet
    <3>4. Upto(f_image, b[1], PassOf(f_image, f_o)) \subseteq {1}
      BY <1>1, OneScan
    <3> QED BY <3>1, <3>3, <3>4
  <2>7. DOMAIN sh.around = {}
    BY <1>2
  <2>8. row # -1
    BY <1>1
  <2>9. RowShown(f_image, sh, PassOf(f_image, f_o), f_o.smoothing)
    BY <1>2, <2>5, <2>6, <2>7 DEF RowShown
  <2> QED BY <1>2, <2>4, <2>8, <2>9 DEF Shows, sh, j
<1> QED BY <1>3, <1>10, <1>11

Unread(i) == i.iMCU_row = 0 /\ i.MCU_vert_offset = 0 /\ i.MCU_ctr = 0
(* What holds once the modules of the decompressor are made. *)
Working(state, im, call, i, o, sh) ==
  /\ ArrivesWell(im, i) /\ OutWell(im, o) /\ Shows(im, sh, PassOf(im, o), o.smoothing)
  /\ call = "start" => state = "PRELOAD"
  /\ call = "read" => state = "RAW_OK" /\ o.iMCU_row < IRows(im)
  /\ call = "coefficients" => state = "RDCOEFS"
  /\ call = "finish_output" => state = "BUFPOST"
  /\ state \in {"RDCOEFS", "BUFIMAGE", "BUFPOST"} => im.buffered
  /\ ~FullOf(im) /\ state = "PRELOAD" => Unread(i)
  /\ ~FullOf(im) /\ state = "RAW_OK" => Sync(im, i, o, sh)
ImageFields == {"width", "height", "factors", "progressive", "scans", "smoothing", "buffered"}
CoefInv ==
  /\ f_global_state \in {"START", "READY"} => f_call = "none" /\ f_shown = Coefs!Blank /\ f_o = Coefs!NoPass
  /\ f_global_state = "READY" =>
       DOMAIN f_image = ImageFields /\ Opened(f_image) /\ f_i = Coefs!ReadyInput(f_image)
  /\ f_global_state \notin {"START", "READY"} =>
       Working(f_global_state, f_image, f_call, f_i, f_o, f_shown)

LEMMA FullIs == Coefs!full_buffer <=> FullOf(f_image)
  BY DEF Coefs!full_buffer, Coefs!has_multiple_scans, FullOf

(* consume_input, whoever calls it. *)
LEMMA ConsumeKeeps ==
  ASSUME ArrivesWell(f_image, f_i), OutWell(f_image, f_o), NEW ret, Coefs!consume_input(ret)
  PROVE  /\ ArrivesWell(f_image, f_i') /\ OutWell(f_image, f_o')
         /\ PassOf(f_image, f_o') = PassOf(f_image, f_o) /\ f_o'.smoothing = f_o.smoothing
         /\ f_o'.iMCU_row = f_o.iMCU_row
         /\ ~FullOf(f_image) =>
              /\ f_i'.scan = f_i.scan /\ f_i'.iMCU_row = f_i.iMCU_row
              /\ f_i'.MCU_vert_offset = f_i.MCU_vert_offset /\ f_i'.MCU_ctr = f_i.MCU_ctr
<1>1. CASE Coefs!consume_data(ret)
  <2>1. f_i.consume = "data" /\ f_o' = f_o
    BY <1>1 DEF Coefs!consume_data
  <2>2. CASE FullOf(f_image)
    <3>1. PICK k \in 0 .. Coefs!MCUsLeft :
            f_i' = [Coefs!Counted(f_i, k) EXCEPT !.whole_image =
                      [b \in DOMAIN @ |-> IF b \in Coefs!Decoded(k) THEN Append(@[b], f_i.scan) ELSE @[b]]]
      BY <1>1, <2>2, FullIs DEF Coefs!consume_data
    <3>2. ArrivesWell(f_image, f_i')
      BY <2>1, <2>2, <3>1, DataArrives
    <3> QED BY <2>1, <2>2, <3>2
  <2>3. CASE ~FullOf(f_image)
    <3>1. f_i' = f_i
      BY <1>1, <2>3, FullIs DEF Coefs!consume_data
    <3> QED BY <2>1, <3>1
  <2> QED BY <2>2, <2>3
<1>2. CASE Coefs!consume_markers(ret)
  <2>1. f_i.consume = "markers"
    BY <1>2 DEF Coefs!consume_markers
  <2>2. \/ f_i' = f_i /\ f_o' = f_o
        \/ /\ ~f_i.eoi_reached /\ f_i.scan < Len(f_image.scans)
           /\ f_i' = Coefs!start_input_pass(f_i, f_i.scan + 1) /\ f_o' = f_o
        \/ /\ ~f_i.eoi_reached /\ f_i.scan = Len(f_image.scans)
           /\ f_i' = [f_i EXCEPT !.eoi_reached = TRUE]
           /\ f_o' = [f_o EXCEPT !.scan = Coefs!ClampedScan]
    BY <1>2 DEF Coefs!consume_markers
  <2>3. CASE f_i' = f_i /\ f_o' = f_o
    BY <2>3
  <2>4. CASE /\ ~f_i.eoi_reached /\ f_i.scan < Len(f_image.scans)
             /\ f_i' = Coefs!start_input_pass(f_i, f_i.scan + 1) /\ f_o' = f_o
    <3>1. ArrivesWell(f_image, f_i')
      BY <2>1, <2>4, NextScan
    <3>2. FullOf(f_image)
      <4> SUFFICES ASSUME ~FullOf(f_image) PROVE FALSE
        OBVIOUS
      <4>1. Opened(f_image) /\ f_i.scan \in DOMAIN f_image.scans
        BY DEF ArrivesWell, Along
      <4>2. f_i.scan = 1 /\ Len(f_image.scans) = 1
        BY <4>1, OneScan DEF Opened, FullOf
      <4> QED BY <2>4, <4>2
    <3> QED BY <2>4, <3>1, <3>2
  <2>5. CASE /\ ~f_i.eoi_reached /\ f_i.scan = Len(f_image.scans)
             /\ f_i' = [f_i EXCEPT !.eoi_reached = TRUE]
             /\ f_o' = [f_o EXCEPT !.scan = Coefs!ClampedScan]
    <3>1. DOMAIN f_i = InputFields
      BY DEF ArrivesWell, Along
    <3>2. /\ DOMAIN f_i' = InputFields /\ f_i'.scan = f_i.scan /\ f_i'.iMCU_row = f_i.iMCU_row
          /\ f_i'.MCU_vert_offset = f_i.MCU_vert_offset /\ f_i'.MCU_ctr = f_i.MCU_ctr
          /\ f_i'.consume = f_i.consume /\ f_i'.eoi_reached = TRUE /\ f_i'.quant_table = f_i.quant_table
          /\ f_i'.coef_bits = f_i.coef_bits /\ f_i'.whole_image = f_i.whole_image
      BY <2>5, <3>1 DEF InputFields
    <3>3. Along(f_image, f_i')
      BY <2>1, <2>5, <3>2 DEF ArrivesWell, Along
    <3>4. Known(f_image, f_i', f_i'.scan)
      BY <3>2 DEF ArrivesWell, Known
    <3>5. \A b : Arrived(f_image, f_i', b) = Arrived(f_image, f_i, b)
      BY <3>2 DEF Arrived, Before, CursorOf
    <3>6. FullOf(f_image) => Buffers(f_image, f_i')
      BY <3>2, <3>5 DEF ArrivesWell, Buffers
    <3>7. ArrivesWell(f_image, f_i')
      BY <3>3, <3>4, <3>6 DEF ArrivesWell
    <3>8. /\ OutWell(f_image, f_o') /\ PassOf(f_image, f_o') = PassOf(f_image, f_o)
          /\ f_o'.smoothing = f_o.smoothing /\ f_o'.iMCU_row = f_o.iMCU_row
      BY <2>5, ClampKeeps
    <3> QED BY <3>2, <3>7, <3>8
  <2> QED BY <2>2, <2>3, <2>4, <2>5
<1> QED BY <1>1, <1>2 DEF Coefs!consume_input

LEMMA WorkingConsumes ==
  ASSUME Working(f_global_state, f_image, f_call, f_i, f_o, f_shown), NEW ret, Coefs!consume_input(ret),
         f_global_state' = f_global_state, f_image' = f_image, f_shown' = f_shown, f_call' \in {"none", f_call}
  PROVE  Working(f_global_state', f_image', f_call', f_i', f_o', f_shown')
<1>1. ArrivesWell(f_image, f_i) /\ OutWell(f_image, f_o)
  BY DEF Working
<1>2. /\ ArrivesWell(f_image, f_i') /\ OutWell(f_image, f_o')
      /\ PassOf(f_image, f_o') = PassOf(f_image, f_o) /\ f_o'.smoothing = f_o.smoothing
      /\ f_o'.iMCU_row = f_o.iMCU_row
      /\ ~FullOf(f_image) =>
           /\ f_i'.scan = f_i.scan /\ f_i'.iMCU_row = f_i.iMCU_row
           /\ f_i'.MCU_vert_offset = f_i.MCU_vert_offset /\ f_i'.MCU_ctr = f_i.MCU_ctr
  BY <1>1, ConsumeKeeps
<1>3. Shows(f_image, f_shown, PassOf(f_image, f_o'), f_o'.smoothing)
  BY <1>2 DEF Working
<1>4. ~FullOf(f_image) /\ f_global_state = "PRELOAD" => Unread(f_i')
  BY <1>2 DEF Working, Unread
<1>5. ~FullOf(f_image) /\ f_global_state = "RAW_OK" => Sync(f_image, f_i', f_o', f_shown)
  BY <1>2 DEF Working, Sync, CursorOf
<1>6. /\ f_call' = "start" => f_global_state = "PRELOAD"
      /\ f_call' = "read" => f_global_state = "RAW_OK" /\ f_o'.iMCU_row < IRows(f_image)
      /\ f_call' = "coefficients" => f_global_state = "RDCOEFS"
      /\ f_call' = "finish_output" => f_global_state = "BUFPOST"
      /\ f_global_state \in {"RDCOEFS", "BUFIMAGE", "BUFPOST"} => f_image.buffered
  BY <1>2 DEF Working
<1> QED BY <1>2, <1>3, <1>4, <1>5, <1>6 DEF Working

(* jpeg_read_coefficients changes nothing else of the picture. *)
LEMMA SamePicture ==
  ASSUME NEW im, NEW j, Along(im, j), Known(im, j, j.scan), Buffers(im, j),
         NEW new, new.width = im.width, new.height = im.height, new.factors = im.factors,
         new.progressive = im.progressive, new.scans = im.scans
  PROVE  ArrivesWell(new, j)
<1>1. MaxH(new) = MaxH(im) /\ MaxV(new) = MaxV(im)
  BY DEF MaxH, MaxV
<1>2. IRows(new) = IRows(im) /\ \A c : Lines(new, c) = Lines(im, c) /\ Columns(new, c) = Columns(im, c)
  BY <1>1 DEF IRows, Lines, Columns
<1>3. \A n : PerRow(new, n) = PerRow(im, n) /\ InScan(new, n) = InScan(im, n)
  BY <1>1, <1>2 DEF PerRow, InScan
<1>4. \A c, n : Upto(new, c, n) = Upto(im, c, n)
  BY <1>3 DEF Upto
<1>5. \A b : Seen(new, b) <=> Seen(im, b)
  BY <1>2 DEF Seen
<1>6. \A b : ImcuOf(new, b) = ImcuOf(im, b) /\ \A n : At(new, n, b) = At(im, n, b)
  BY <1>3 DEF ImcuOf, At
<1>7. \A b : Before(new, j, b) <=> Before(im, j, b)
  BY <1>3, <1>6 DEF Before, CursorOf
<1>8. \A b : Arrived(new, j, b) = Arrived(im, j, b)
  BY <1>4, <1>7 DEF Arrived
<1>9. \A s, k : ExactIn(new, s, k) <=> ExactIn(im, s, k)
  BY DEF ExactIn
<1>10. Opened(new)
  <2>1. Opened(im)
    BY DEF Along
  <2> QED BY <2>1 DEF Opened
<1>11. Along(new, j)
  BY <1>2, <1>10 DEF Along
<1>12. Known(new, j, j.scan)
  BY <1>4, <1>9 DEF Known
<1>13. Buffers(new, j)
  BY <1>5, <1>8 DEF Buffers, BlockOf
<1> QED BY <1>11, <1>12, <1>13 DEF ArrivesWell

LEMMA NothingShown == \A im, n, smooth : Shows(im, Coefs!Blank, n, smooth)
  BY DEF Shows, Coefs!Blank

(* The modules are made: nothing has been read or shown.                   *)
LEMMA Made ==
  ASSUME CoefInv, f_global_state = "READY", NEW full \in BOOLEAN, FullOf(f_image) => full, Coefs!Master(full)
  PROVE  /\ Opened(f_image) /\ DOMAIN f_image = ImageFields /\ Unread(f_i') /\ f_call = "none"
         /\ Along(f_image, f_i') /\ Known(f_image, f_i', f_i'.scan) /\ (full => Buffers(f_image, f_i'))
         /\ \A im : Opened(im) => OutWell(im, f_o) /\ Shows(im, f_shown, PassOf(im, f_o), f_o.smoothing)
<1>1. /\ DOMAIN f_image = ImageFields /\ Opened(f_image) /\ f_i = Coefs!ReadyInput(f_image)
      /\ f_call = "none" /\ f_shown = Coefs!Blank /\ f_o = Coefs!NoPass
  BY DEF CoefInv
<1>2. f_i' = [Coefs!start_input_pass(f_i, 1) EXCEPT
                !.whole_image = [b \in IF full THEN Coefs!Padded ELSE {} |-> <<>>]]
  BY DEF Coefs!Master
<1>3. Along(f_image, f_i') /\ Known(f_image, f_i', f_i'.scan) /\ (full => Buffers(f_image, f_i')) /\ Unread(f_i')
  <2> DEFINE j == [Coefs!start_input_pass(f_i, 1) EXCEPT
                     !.whole_image = [b \in IF full THEN Coefs!Padded ELSE {} |-> <<>>]]
  <2>1. /\ Along(f_image, j) /\ Known(f_image, j, j.scan) /\ (full => Buffers(f_image, j))
        /\ j.iMCU_row = 0 /\ j.MCU_vert_offset = 0 /\ j.MCU_ctr = 0
    BY <1>1, SavedIs, FirstScan
  <2> HIDE DEF j
  <2>2. f_i' = j
    BY <1>2 DEF j
  <2> QED BY <2>1, <2>2 DEF Unread
<1>4. ASSUME NEW im, Opened(im) PROVE OutWell(im, f_o)
  <2>1. /\ DOMAIN f_o = OutFields /\ f_o.scan = 0 /\ f_o.iMCU_row = 0 /\ f_o.begun = 0 /\ f_o.smoothing = FALSE
    BY <1>1 DEF Coefs!NoPass, OutFields
  <2>2. \A c : Upto(im, c, 0) = {}
    BY <1>4, UptoIs
  <2>3. f_o.smoothing \in BOOLEAN /\ ~f_o.smoothing /\ 0 \in Nat
    BY <2>1
  <2>4. \A c : Upto(im, c, f_o.begun) = {}
    BY <2>1, <2>2
  <2> QED BY <2>1, <2>3, <2>4 DEF OutWell
<1> QED BY <1>1, <1>3, <1>4, NothingShown

LEMMA StartKeeps == CoefInv /\ Coefs!jpeg_start_decompress => CoefInv'
<1> SUFFICES ASSUME CoefInv, Coefs!jpeg_start_decompress PROVE CoefInv'
  OBVIOUS
<1>1. f_image' = f_image /\ f_o' = f_o /\ f_shown' = f_shown /\ f_call = "none"
  BY DEF Coefs!jpeg_start_decompress
<1>2. CASE /\ f_global_state = "READY" /\ Coefs!Master(Coefs!full_buffer)
           /\ \/ f_image.buffered /\ f_global_state' = "BUFIMAGE" /\ f_call' = f_call
              \/ ~f_image.buffered /\ f_global_state' = "PRELOAD" /\ f_call' = "start"
  <2> DEFINE full == Coefs!full_buffer
  <2>1. full \in BOOLEAN /\ (full <=> FullOf(f_image))
    BY FullIs DEF Coefs!full_buffer
  <2> HIDE DEF full
  <2>2. /\ Opened(f_image) /\ Unread(f_i') /\ f_call = "none"
        /\ Along(f_image, f_i') /\ Known(f_image, f_i', f_i'.scan) /\ (full => Buffers(f_image, f_i'))
        /\ OutWell(f_image, f_o) /\ Shows(f_image, f_shown, PassOf(f_image, f_o), f_o.smoothing)
    <3>1. Coefs!Master(full)
      BY <1>2 DEF full
    <3> QED BY <1>2, <2>1, <3>1, Made
  <2>3. ArrivesWell(f_image, f_i')
    BY <2>1, <2>2 DEF ArrivesWell
  <2>4. CASE f_image.buffered /\ f_global_state' = "BUFIMAGE" /\ f_call' = f_call
    <3>1. Working(f_global_state', f_image', f_call', f_i', f_o', f_shown')
      BY <1>1, <2>2, <2>3, <2>4 DEF Working
    <3> QED BY <2>4, <3>1 DEF CoefInv
  <2>5. CASE ~f_image.buffered /\ f_global_state' = "PRELOAD" /\ f_call' = "start"
    <3>1. Working(f_global_state', f_image', f_call', f_i', f_o', f_shown')
      BY <1>1, <2>2, <2>3, <2>5 DEF Working
    <3> QED BY <2>5, <3>1 DEF CoefInv
  <2> QED BY <1>2, <2>4, <2>5
<1>3. CASE f_global_state = "PRELOAD" /\ f_call' = "start" /\ f_global_state' = f_global_state /\ f_i' = f_i
  <2>1. Working(f_global_state, f_image, f_call, f_i, f_o, f_shown)
    BY <1>3 DEF CoefInv
  <2>2. Working(f_global_state', f_image', f_call', f_i', f_o', f_shown')
    BY <1>1, <1>3, <2>1 DEF Working
  <2> QED BY <1>3, <2>2 DEF CoefInv
<1> QED BY <1>2, <1>3 DEF Coefs!jpeg_start_decompress

LEMMA ReadCoefficientsKeeps == CoefInv /\ Coefs!jpeg_read_coefficients => CoefInv'
<1> SUFFICES ASSUME CoefInv, Coefs!jpeg_read_coefficients PROVE CoefInv'
  OBVIOUS
<1>1. f_o' = f_o /\ f_shown' = f_shown /\ f_call = "none" /\ f_call' = "coefficients"
  BY DEF Coefs!jpeg_read_coefficients
<1>2. CASE /\ f_global_state = "READY" /\ Coefs!Master(TRUE)
           /\ f_image' = [f_image EXCEPT !.buffered = TRUE] /\ f_global_state' = "RDCOEFS"
  <2>1. /\ Opened(f_image) /\ DOMAIN f_image = ImageFields
        /\ Along(f_image, f_i') /\ Known(f_image, f_i', f_i'.scan) /\ Buffers(f_image, f_i')
        /\ \A im : Opened(im) => OutWell(im, f_o) /\ Shows(im, f_shown, PassOf(im, f_o), f_o.smoothing)
    BY <1>2, Made
  <2>2. /\ f_image'.width = f_image.width /\ f_image'.height = f_image.height /\ f_image'.factors = f_image.factors
        /\ f_image'.progressive = f_image.progressive /\ f_image'.scans = f_image.scans /\ f_image'.buffered
    BY <1>2, <2>1 DEF ImageFields
  <2>3. ArrivesWell(f_image', f_i')
    BY <2>1, <2>2, SamePicture
  <2>4. Opened(f_image') /\ FullOf(f_image')
    BY <2>2, <2>3 DEF ArrivesWell, Along, FullOf
  <2>5. Working(f_global_state', f_image', f_call', f_i', f_o', f_shown')
    BY <1>1, <1>2, <2>1, <2>2, <2>3, <2>4 DEF Working
  <2> QED BY <1>2, <2>5 DEF CoefInv
<1>3. CASE f_global_state = "RDCOEFS" /\ f_global_state' = f_global_state /\ f_image' = f_image /\ f_i' = f_i
  <2>1. Working(f_global_state, f_image, f_call, f_i, f_o, f_shown)
    BY <1>3 DEF CoefInv
  <2>2. Working(f_global_state', f_image', f_call', f_i', f_o', f_shown')
    BY <1>1, <1>3, <2>1 DEF Working
  <2> QED BY <1>3, <2>2 DEF CoefInv
<1> QED BY <1>2, <1>3 DEF Coefs!jpeg_read_coefficients

(* A pass begins, of either kind.                                          *)
LEMMA PassStarts ==
  ASSUME CoefInv, f_global_state \in {"PRELOAD", "BUFIMAGE"}, NEW n \in Nat,
         f_o' = Coefs!output_pass_setup(f_o, n), f_global_state' = "RAW_OK", f_call' = "none",
         f_shown' = Coefs!Blank, f_image' = f_image, f_i' = f_i
  PROVE  CoefInv'
<1>1. Working(f_global_state, f_image, f_call, f_i, f_o, f_shown)
  BY DEF CoefInv
<1>2. ArrivesWell(f_image, f_i) /\ OutWell(f_image, f_o) /\ Opened(f_image)
  BY <1>1 DEF Working, ArrivesWell, Along
<1>3. OutWell(f_image, f_o') /\ f_o'.iMCU_row = 0
  BY <1>2, PassBegins
<1>4. ~FullOf(f_image) => Sync(f_image, f_i, f_o', Coefs!Blank)
  <2> SUFFICES ASSUME ~FullOf(f_image) PROVE Sync(f_image, f_i, f_o', Coefs!Blank)
    OBVIOUS
  <2>1. Unread(f_i) /\ f_i.scan \in DOMAIN f_image.scans
    BY <1>1 DEF Working, FullOf, ArrivesWell, Along
  <2>2. f_i.scan = 1 /\ InScan(f_image, 1) = DOMAIN f_image.factors
    BY <1>2, <2>1, OneScan
  <2>3. CursorOf(f_image, f_i) = 0
    <3>1. PerRow(f_image, f_i.scan) \in Nat
      BY <1>2, OfScan DEF ArrivesWell, Along
    <3>2. CursorOf(f_image, f_i) = 0 * PerRow(f_image, f_i.scan) + 0
      BY <2>1 DEF CursorOf, Unread
    <3> QED BY <3>1, <3>2
  <2>4. \A b : Seen(f_image, b) => At(f_image, f_i.scan, b) \in Nat
    <3> SUFFICES ASSUME NEW b, Seen(f_image, b) PROVE At(f_image, f_i.scan, b) \in Nat
      OBVIOUS
    <3>1. b[1] \in InScan(f_image, f_i.scan)
      BY <2>2 DEF Seen
    <3> QED BY <1>2, <2>1, <3>1, PlaceIs
  <2>5. Coefs!Blank.done = FALSE /\ DOMAIN Coefs!Blank.blocks = {}
    BY DEF Coefs!Blank
  <2>6. \A b : ~(Seen(f_image, b) /\ At(f_image, f_i.scan, b) < CursorOf(f_image, f_i))
    BY <2>3, <2>4
  <2> QED BY <1>3, <2>1, <2>5, <2>6 DEF Sync, Unread
<1>5. Working(f_global_state', f_image', f_call', f_i', f_o', f_shown')
  BY <1>2, <1>3, <1>4, NothingShown DEF Working
<1> QED BY <1>5 DEF CoefInv


(* The pass goes on to the next row, or does not. *)
LEMMA RowFollows ==
  ASSUME NEW im, NEW o, OutWell(im, o), NEW p, p = o \/ p = [o EXCEPT !.iMCU_row = @ + 1]
  PROVE  /\ OutWell(im, p) /\ PassOf(im, p) = PassOf(im, o) /\ p.smoothing = o.smoothing
         /\ p = o => p.iMCU_row = o.iMCU_row
         /\ p = [o EXCEPT !.iMCU_row = @ + 1] => p.iMCU_row = o.iMCU_row + 1
<1>1. DOMAIN o = OutFields /\ o.iMCU_row \in Nat
  BY DEF OutWell
<1>2. CASE p = o
  <2>1. p # [o EXCEPT !.iMCU_row = @ + 1]
    <3>1. [o EXCEPT !.iMCU_row = @ + 1].iMCU_row = o.iMCU_row + 1
      BY <1>1 DEF OutFields
    <3>2. \A r \in Nat : r # r + 1
      OBVIOUS
    <3> QED BY <1>1, <1>2, <3>1, <3>2
  <2> QED BY <1>2, <2>1
<1>3. CASE p = [o EXCEPT !.iMCU_row = @ + 1]
  <2>1. /\ DOMAIN p = OutFields /\ p.scan = o.scan /\ p.iMCU_row = o.iMCU_row + 1 /\ p.begun = o.begun
        /\ p.multipliers = o.multipliers /\ p.smoothing = o.smoothing /\ p.coef_bits_latch = o.coef_bits_latch
    BY <1>1, <1>3 DEF OutFields
  <2>2. p.iMCU_row \in Nat /\ p # o
    BY <1>1, <2>1
  <2> QED BY <2>1, <2>2 DEF OutWell, PassOf
<1> QED BY <1>2, <1>3

LEMMA CountedArrives ==
  ASSUME ArrivesWell(f_image, f_i), ~FullOf(f_image), f_o.iMCU_row < IRows(f_image),
         Sync(f_image, f_i, f_o, f_shown), NEW k \in 0 .. Coefs!MCUsLeft
  PROVE  ArrivesWell(f_image, Coefs!Counted(f_i, k))
<1> DEFINE j == Coefs!Counted(f_i, k)
<1>1. /\ Along(f_image, f_i) /\ Known(f_image, f_i, f_i.scan) /\ f_i.iMCU_row < IRows(f_image)
      /\ f_i.iMCU_row \in Nat /\ IRows(f_image) \in Nat
  BY SidesAre DEF ArrivesWell, Along, Sync
<1>2. f_i.consume = "data" /\ ~f_i.eoi_reached
  BY <1>1 DEF Along
<1>3. /\ DOMAIN j = InputFields /\ j.scan = f_i.scan /\ j.eoi_reached = f_i.eoi_reached
      /\ j.quant_table = f_i.quant_table /\ j.coef_bits = f_i.coef_bits
      /\ j.MCU_vert_offset \in Nat /\ j.MCU_ctr \in Nat
      /\ \/ j.iMCU_row = f_i.iMCU_row /\ j.consume = "data"
         \/ /\ j.iMCU_row = f_i.iMCU_row + 1
            /\ j.consume = IF f_i.iMCU_row + 1 < IRows(f_image) THEN "data" ELSE "markers"
  BY <1>1, <1>2, CountedIs
<1> HIDE DEF j
<1>4. /\ j.iMCU_row \in Nat
      /\ j.consume = "data" => j.iMCU_row < IRows(f_image)
      /\ j.consume = "markers" => j.iMCU_row = IRows(f_image)
      /\ j.consume \in {"data", "markers"}
  BY <1>1, <1>3
<1>5. Along(f_image, j)
  BY <1>1, <1>2, <1>3, <1>4 DEF Along
<1>6. Known(f_image, j, j.scan)
  BY <1>1, <1>3 DEF Known
<1> QED BY <1>5, <1>6 DEF ArrivesWell, j

(* Each action keeps the invariant. *)
LEMMA CoefStep == CoefInv /\ [Coefs!Next]_coefsVars => CoefInv'
<1> SUFFICES ASSUME CoefInv, [Coefs!Next]_coefsVars PROVE CoefInv'
  OBVIOUS
<1> DEFINE Now == Working(f_global_state, f_image, f_call, f_i, f_o, f_shown)
           Then == Working(f_global_state', f_image', f_call', f_i', f_o', f_shown')
<1>1. f_global_state \notin {"START", "READY"} => Now
  BY DEF CoefInv
<1>2. f_call # "none" => f_global_state \notin {"START", "READY"} /\ Now
  BY DEF CoefInv
<1>3. f_global_state' \notin {"START", "READY"} /\ Then => CoefInv'
  BY DEF CoefInv
<1> HIDE DEF Now, Then
<1>4. CASE Coefs!Open
  <2>1. f_global_state = "START" /\ f_global_state' = "READY" /\ f_call' = f_call /\ f_o' = f_o /\ f_shown' = f_shown
    BY <1>4 DEF Coefs!Open
  <2>2. PICK s \in Scanned, smoothing \in BOOLEAN, buffered \in BOOLEAN :
          /\ f_image' = [width |-> s.width, height |-> s.height, factors |-> s.factors,
                         progressive |-> s.progressive, scans |-> s.scans,
                         smoothing |-> smoothing, buffered |-> buffered]
          /\ f_i' = Coefs!ReadyInput(s)
    BY <1>4 DEF Coefs!Open
  <2>3. DOMAIN f_image' = ImageFields /\ f_image'.width = s.width /\ f_image'.height = s.height
        /\ f_image'.factors = s.factors /\ f_image'.progressive = s.progressive /\ f_image'.scans = s.scans
    BY <2>2 DEF ImageFields
  <2>4. Opened(f_image')
    <3>1. /\ s.width \in Nat \ {0} /\ s.height \in Nat \ {0} /\ s.progressive \in BOOLEAN
          /\ s.factors \in Seq(Samplings) /\ s.factors # <<>>
          /\ s.scans \in Seq(Scanning(s.factors)) /\ s.scans # <<>>
          /\ \A n \in DOMAIN s.scans : s.scans[n].comps # <<>>
          /\ \/ s.progressive \/ Len(s.scans[1].comps) < Len(s.factors)
             \/ Len(s.scans) = 1 /\ Coefs!ToSet(s.scans[1].comps) = DOMAIN s.factors
      BY ScannedAssumption DEF Coefs!ImagesAssumption, Scanning, Samplings
    <3> QED BY <2>3, <3>1 DEF Opened
  <2>5. f_i' = Coefs!ReadyInput(f_image')
    BY <2>2, <2>3 DEF Coefs!ReadyInput, Coefs!BlankBits
  <2> QED BY <2>1, <2>3, <2>4, <2>5 DEF CoefInv
<1>5. CASE Coefs!jpeg_start_decompress
  BY <1>5, StartKeeps
<1>6. CASE Coefs!jpeg_read_coefficients
  BY <1>6, ReadCoefficientsKeeps
<1>7. CASE Coefs!jpeg_read_raw_data
  <2>1. /\ f_global_state = "RAW_OK" /\ f_o.iMCU_row < IRows(f_image) /\ f_call' = "read"
        /\ f_image' = f_image /\ f_global_state' = f_global_state /\ f_i' = f_i /\ f_o' = f_o /\ f_shown' = f_shown
    BY <1>7, OfImage DEF Coefs!jpeg_read_raw_data
  <2>2. Then
    BY <1>1, <2>1 DEF Now, Then, Working
  <2> QED BY <1>3, <2>1, <2>2
<1>8. ASSUME NEW n \in 0 .. Len(f_image.scans) + 1, Coefs!jpeg_start_output(n) PROVE CoefInv'
  <2> DEFINE number == IF n <= 0 THEN 1 ELSE IF f_i.eoi_reached /\ n > f_i.scan THEN f_i.scan ELSE n
  <2>1. /\ f_global_state = "BUFIMAGE" /\ f_call = "none" /\ f_o' = Coefs!output_pass_setup(f_o, number)
        /\ f_global_state' = "RAW_OK" /\ f_shown' = Coefs!Blank
        /\ f_image' = f_image /\ f_call' = f_call /\ f_i' = f_i
    BY <1>8 DEF Coefs!jpeg_start_output
  <2>2. Opened(f_image) /\ f_i.scan \in DOMAIN f_image.scans
    BY <1>1, <2>1 DEF Now, Working, ArrivesWell, Along
  <2>3. number \in Nat
    <3>1. f_i.scan \in Nat
      BY <2>2, ScanIs
    <3>2. Len(f_image.scans) \in Nat
      BY <2>2, OpenedScans
    <3>3. n \in Nat
      BY <3>2
    <3> QED BY <3>1, <3>3
  <2> HIDE DEF number
  <2> QED BY <2>1, <2>3, PassStarts
<1>9. CASE Coefs!jpeg_finish_output
  <2>1. /\ (f_global_state = "RAW_OK" /\ f_image.buffered) \/ f_global_state = "BUFPOST"
        /\ f_global_state' = "BUFPOST" /\ f_call' = "finish_output"
        /\ f_image' = f_image /\ f_i' = f_i /\ f_o' = f_o /\ f_shown' = f_shown
    BY <1>9 DEF Coefs!jpeg_finish_output
  <2>2. Now
    BY <1>1, <2>1
  <2>3. Then
    BY <2>1, <2>2 DEF Now, Then, Working
  <2> QED BY <1>3, <2>1, <2>3
<1>10. CASE Coefs!jpeg_finish_decompress
  <2>1. /\ f_global_state \in {"RAW_OK", "BUFIMAGE", "STOPPING"}
        /\ f_global_state' = "STOPPING" /\ f_call' = "finish"
        /\ f_image' = f_image /\ f_i' = f_i /\ f_o' = f_o /\ f_shown' = f_shown
    BY <1>10 DEF Coefs!jpeg_finish_decompress
  <2>2. Then
    BY <1>1, <2>1 DEF Now, Then, Working
  <2> QED BY <1>3, <2>1, <2>2
<1>11. CASE Coefs!jpeg_consume_input
  <2>1. /\ f_global_state \in {"PRELOAD", "RAW_OK", "BUFIMAGE", "BUFPOST", "STOPPING"}
        /\ f_image' = f_image /\ f_global_state' = f_global_state /\ f_call' = f_call /\ f_shown' = f_shown
    BY <1>11 DEF Coefs!jpeg_consume_input
  <2>2. PICK ret \in {"SUSPENDED", "ROW_COMPLETED", "SCAN_COMPLETED", "REACHED_SOS", "REACHED_EOI"} :
          Coefs!consume_input(ret)
    BY <1>11 DEF Coefs!jpeg_consume_input
  <2>3. Then
    BY <1>1, <2>1, <2>2, WorkingConsumes DEF Now, Then
  <2> QED BY <1>3, <2>1, <2>3
<1>12. CASE Coefs!ForceInput
  <2>1. Coefs!NeedsInput /\ f_image' = f_image /\ f_global_state' = f_global_state /\ f_shown' = f_shown
    BY <1>12 DEF Coefs!ForceInput
  <2>2. PICK ret \in {"SUSPENDED", "ROW_COMPLETED", "SCAN_COMPLETED", "REACHED_SOS", "REACHED_EOI"} :
          Coefs!consume_input(ret) /\ f_call' = IF ret = "SUSPENDED" THEN "none" ELSE f_call
    BY <1>12 DEF Coefs!ForceInput
  <2>3. f_call # "none"
    BY <2>1 DEF Coefs!NeedsInput
  <2>4. Then
    BY <1>2, <2>1, <2>2, <2>3, WorkingConsumes DEF Now, Then
  <2> QED BY <1>2, <1>3, <2>1, <2>3, <2>4
<1>13. CASE Coefs!StartDone
  <2>1. /\ f_call = "start" /\ f_o' = Coefs!output_pass_setup(f_o, f_i.scan)
        /\ f_global_state' = "RAW_OK" /\ f_call' = "none" /\ f_shown' = Coefs!Blank
        /\ f_image' = f_image /\ f_i' = f_i
    BY <1>13 DEF Coefs!StartDone
  <2>2. Now /\ f_global_state = "PRELOAD"
    BY <1>2, <2>1 DEF Now, Working
  <2>3. f_i.scan \in Nat
    BY <2>2, ScanIs DEF Now, Working, ArrivesWell, Along
  <2> QED BY <2>1, <2>2, <2>3, PassStarts
<1>14. CASE Coefs!CoefficientsDone
  <2>1. /\ f_call = "coefficients" /\ f_i.eoi_reached /\ f_global_state' = "STOPPING" /\ f_call' = "none"
        /\ f_shown' = [Coefs!Blank EXCEPT !.done = TRUE, !.blocks = f_i.whole_image]
        /\ f_image' = f_image /\ f_i' = f_i /\ f_o' = f_o
    BY <1>14 DEF Coefs!CoefficientsDone
  <2>2. Now /\ FullOf(f_image) /\ ArrivesWell(f_image, f_i) /\ OutWell(f_image, f_o)
    BY <1>2, <2>1 DEF Now, Working, FullOf
  <2>3. Shows(f_image, f_shown', PassOf(f_image, f_o), f_o.smoothing)
    BY <2>1, <2>2, CoefficientsGiven
  <2>4. Then
    BY <2>1, <2>2, <2>3 DEF Then, Working
  <2> QED BY <1>3, <2>1, <2>4
<1>15. CASE Coefs!decompress_data
  <2>1. /\ f_call = "read" /\ Coefs!full_buffer /\ ~Coefs!InputBehind /\ f_shown' = Coefs!FromArrays
        /\ f_o' = [f_o EXCEPT !.iMCU_row = @ + 1] /\ f_call' = "none"
        /\ f_image' = f_image /\ f_global_state' = f_global_state /\ f_i' = f_i
    BY <1>15 DEF Coefs!decompress_data
  <2>2. /\ Now /\ FullOf(f_image) /\ ArrivesWell(f_image, f_i) /\ OutWell(f_image, f_o)
        /\ f_global_state = "RAW_OK" /\ f_o.iMCU_row < IRows(f_image)
    BY <1>2, <2>1, FullIs DEF Now, Working
  <2>3. Shows(f_image, Coefs!FromArrays, PassOf(f_image, f_o), f_o.smoothing)
    BY <2>1, <2>2, ArraysGiven
  <2>4. OutWell(f_image, f_o') /\ PassOf(f_image, f_o') = PassOf(f_image, f_o) /\ f_o'.smoothing = f_o.smoothing
    BY <2>1, <2>2, RowFollows
  <2>5. Then
    BY <2>1, <2>2, <2>3, <2>4 DEF Then, Working
  <2> QED BY <1>3, <2>1, <2>2, <2>5
<1>16. CASE Coefs!decompress_onepass
  <2>1. /\ f_call = "read" /\ ~Coefs!full_buffer /\ f_call' = "none"
        /\ f_image' = f_image /\ f_global_state' = f_global_state
    BY <1>16 DEF Coefs!decompress_onepass
  <2>2. PICK k \in 0 .. Coefs!MCUsLeft :
          /\ f_i' = Coefs!Counted(f_i, k) /\ f_shown' = Coefs!OnePass(k)
          /\ f_o' = IF k < Coefs!MCUsLeft THEN f_o ELSE [f_o EXCEPT !.iMCU_row = @ + 1]
    BY <1>16 DEF Coefs!decompress_onepass
  <2>3. /\ Now /\ ~FullOf(f_image) /\ ArrivesWell(f_image, f_i) /\ Along(f_image, f_i) /\ OutWell(f_image, f_o)
        /\ f_global_state = "RAW_OK" /\ f_o.iMCU_row < IRows(f_image) /\ Sync(f_image, f_i, f_o, f_shown)
    BY <1>2, <2>1, FullIs DEF Now, Working, ArrivesWell
  <2>4. /\ OutWell(f_image, f_o') /\ PassOf(f_image, f_o') = PassOf(f_image, f_o) /\ f_o'.smoothing = f_o.smoothing
        /\ f_o'.iMCU_row = IF k < Coefs!MCUsLeft THEN f_o.iMCU_row ELSE f_o.iMCU_row + 1
    BY <2>2, <2>3, RowFollows
  <2>5. Sync(f_image, f_i', f_o', f_shown') /\ Shows(f_image, f_shown', PassOf(f_image, f_o), f_o.smoothing)
    BY <2>2, <2>3, <2>4, OnePassGiven
  <2>6. ArrivesWell(f_image, f_i')
    BY <2>2, <2>3, CountedArrives
  <2>7. Then
    BY <2>1, <2>3, <2>4, <2>5, <2>6 DEF Then, Working
  <2> QED BY <1>3, <2>1, <2>3, <2>7
<1>17. CASE Coefs!FinishOutputDone
  <2>1. /\ f_call = "finish_output" /\ f_global_state' = "BUFIMAGE" /\ f_call' = "none"
        /\ f_image' = f_image /\ f_i' = f_i /\ f_o' = f_o /\ f_shown' = f_shown
    BY <1>17 DEF Coefs!FinishOutputDone
  <2>2. Then
    BY <1>2, <2>1 DEF Now, Then, Working
  <2> QED BY <1>3, <2>1, <2>2
<1>18. CASE Coefs!FinishDone
  <2>1. /\ f_call = "finish" /\ f_global_state' = "ENDED" /\ f_call' = "none"
        /\ f_image' = f_image /\ f_i' = f_i /\ f_o' = f_o /\ f_shown' = f_shown
    BY <1>18 DEF Coefs!FinishDone
  <2>2. Then
    BY <1>2, <2>1 DEF Now, Then, Working
  <2> QED BY <1>3, <2>1, <2>2
<1>19. CASE UNCHANGED coefsVars
  BY <1>19 DEF coefsVars, CoefInv
<1> QED BY <1>4, <1>5, <1>6, <1>7, <1>8, <1>9, <1>10, <1>11, <1>12, <1>13, <1>14, <1>15, <1>16, <1>17, <1>18, <1>19
        DEF Coefs!Next, Coefs!Running

(* A pass at work shows what its scan has brought.                         *)
LEMMA CoefShows == CoefInv => PassShowsScan
<1> SUFFICES ASSUME CoefInv PROVE Coefs!PassShowsScan
  BY DEF PassShowsScan
<1>1. CASE f_global_state \in {"START", "READY"}
  BY <1>1 DEF CoefInv, Coefs!PassShowsScan, Coefs!Blank
<1>2. CASE f_global_state \notin {"START", "READY"}
  <2>1. Working(f_global_state, f_image, f_call, f_i, f_o, f_shown)
    BY <1>2 DEF CoefInv
  <2> QED BY <2>1, ShowsIs DEF Working, ArrivesWell, Along
<1> QED BY <1>1, <1>2
=============================================================================
