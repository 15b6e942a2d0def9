--------------------------- MODULE BlockTransforms --------------------------
(***************************************************************************)
(* A block of samples through the compressor, through the decompressor,    *)
(* and through the compressor again, as when a photo is saved, opened and  *)
(* saved: the integer DCTs of src/lib/jpeg-6b-crop (jfdctint.c,            *)
(* jfdctfst.c, jidctint.c, jidctfst.c and, at a reduced size, jidctred.c), *)
(* the quantization of jcdctmgr.c and the multipliers of jddctmgr.c.  The  *)
(* floating-point versions are left out.                                   *)
(*                                                                         *)
(* All is integer arithmetic of 32 bits which no block of samples exceeds. *)
(* A block is a function of the row, then of the column.                   *)
(***************************************************************************)
EXTENDS Integers, FiniteSets

CONSTANTS
  Blocks,   (* [samples, smooth]: samples in 0 .. 255, rows of columns;    *)
            (* smooth, no coefficient of a high frequency matters          *)
  Tables    (* quantization tables                                         *)

VARIABLES
  block, table,
  method,     (* of the DCT: [forward, inverse], and the size put out      *)
  pc,         (* the pass to come                                          *)
  generation, (* how often the block has been compressed                   *)
  work,       (* the workspace                                             *)
  shown,      (* the samples put out                                       *)
  coefs       (* the quantized coefficients, for each generation           *)

vars == <<block, table, method, pc, generation, work, shown, coefs>>

Index == 0 .. 7
CENTERJSAMPLE == 128
DESCALE(x, n) == (x + 2^(n - 1)) \div 2^n
RIGHT_SHIFT(x, n) == x \div 2^n
Column(b, c) == [r \in DOMAIN b |-> b[r][c]]
Transposed(cols, rows) == [r \in rows |-> [c \in DOMAIN cols |-> cols[c][r]]]

-----------------------------------------------------------------------------
(* One dimension of each transform.  A row or column whose AC terms are    *)
(* zero is done by a short cut, to the same effect.                        *)
PASS1_BITS == 2

(* jpeg_fdct_islow: the first pass scales up, the second down.             *)
fdct_islow(v, pass) ==
  LET t(k) == v[k] + v[7 - k]
      u(k) == v[k] - v[7 - k]
      t10 == t(0) + t(3)      t13 == t(0) - t(3)
      t11 == t(1) + t(2)      t12 == t(1) - t(2)
      scaled(x) == IF pass = 1 THEN x * 2^PASS1_BITS ELSE DESCALE(x, PASS1_BITS)
      down(x) == DESCALE(x, IF pass = 1 THEN 13 - PASS1_BITS ELSE 13 + PASS1_BITS)
      e == (t12 + t13) * 4433
      z5 == (u(3) + u(1) + u(2) + u(0)) * 9633
      z1 == (u(3) + u(0)) * (-7373)
      z2 == (u(2) + u(1)) * (-20995)
      z3 == (u(3) + u(1)) * (-16069) + z5
      z4 == (u(2) + u(0)) * (-3196) + z5
  IN [k \in Index |->
        CASE k = 0 -> scaled(t10 + t11)
          [] k = 4 -> scaled(t10 - t11)
          [] k = 2 -> down(e + t13 * 6270)
          [] k = 6 -> down(e + t12 * (-15137))
          [] k = 7 -> down(u(3) * 2446 + z1 + z3)
          [] k = 5 -> down(u(2) * 16819 + z2 + z4)
          [] k = 3 -> down(u(1) * 25172 + z2 + z3)
          [] k = 1 -> down(u(0) * 12299 + z1 + z4)]

(* jpeg_fdct_ifast: the scales are left to the divisors, nothing rounds.   *)
times(x, fixed) == RIGHT_SHIFT(x * fixed, 8)
fdct_ifast(v) ==
  LET t(k) == v[k] + v[7 - k]
      u(k) == v[k] - v[7 - k]
      t10 == t(0) + t(3)      t13 == t(0) - t(3)
      t11 == t(1) + t(2)      t12 == t(1) - t(2)
      z1 == times(t12 + t13, 181)
      o10 == u(3) + u(2)      o11 == u(2) + u(1)      o12 == u(1) + u(0)
      z5 == times(o10 - o12, 98)
      z2 == times(o10, 139) + z5
      z4 == times(o12, 334) + z5
      z3 == times(o11, 181)
      z11 == u(0) + z3        z13 == u(0) - z3
  IN [k \in Index |->
        CASE k = 0 -> t10 + t11 [] k = 4 -> t10 - t11
          [] k = 2 -> t13 + z1  [] k = 6 -> t13 - z1
          [] k = 5 -> z13 + z2  [] k = 3 -> z13 - z2
          [] k = 1 -> z11 + z4  [] k = 7 -> z11 - z4]

(* jpeg_idct_islow: the even and the odd part of eight, or of four or two  *)
(* (jidctred.c), meet at both ends.                                        *)
Butterfly(even, odd, n) ==
  [k \in 0 .. 2 * n - 1 |-> IF k < n THEN even[k] + odd[k] ELSE even[2 * n - 1 - k] - odd[2 * n - 1 - k]]
islow_even(v) ==
  LET z1 == (v[2] + v[6]) * 4433
      t2 == z1 + v[6] * (-15137)
      t3 == z1 + v[2] * 6270
      t0 == (v[0] + v[4]) * 2^13
      t1 == (v[0] - v[4]) * 2^13
  IN [k \in 0 .. 3 |-> CASE k = 0 -> t0 + t3 [] k = 1 -> t1 + t2 [] k = 2 -> t1 - t2 [] k = 3 -> t0 - t3]
islow_odd(v) ==
  LET z5 == (v[7] + v[3] + v[5] + v[1]) * 9633
      z1 == (v[7] + v[1]) * (-7373)
      z2 == (v[5] + v[3]) * (-20995)
      z3 == (v[7] + v[3]) * (-16069) + z5
      z4 == (v[5] + v[1]) * (-3196) + z5
  IN [k \in 0 .. 3 |->
        CASE k = 0 -> v[1] * 12299 + z1 + z4 [] k = 1 -> v[3] * 25172 + z2 + z3
          [] k = 2 -> v[5] * 16819 + z2 + z4 [] k = 3 -> v[7] * 2446 + z1 + z3]
idct_islow(v) == Butterfly(islow_even(v), islow_odd(v), 4)

idct_4x4(v) ==
  LET t0 == v[0] * 2^14
      t2 == v[2] * 15137 + v[6] * (-6270)
      even == [k \in 0 .. 1 |-> IF k = 0 THEN t0 + t2 ELSE t0 - t2]
      odd == [k \in 0 .. 1 |->
        IF k = 0 THEN v[7] * (-4176) + v[5] * (-4926) + v[3] * 7373 + v[1] * 20995
        ELSE v[7] * (-1730) + v[5] * 11893 + v[3] * (-17799) + v[1] * 8697]
  IN Butterfly(even, odd, 2)
idct_2x2(v) ==
  Butterfly([k \in {0} |-> v[0] * 2^15],
            [k \in {0} |-> v[7] * (-5906) + v[5] * 6967 + v[3] * (-10426) + v[1] * 29692], 1)

idct_ifast(v) ==
  LET t10 == v[0] + v[4]      t11 == v[0] - v[4]
      t13 == v[2] + v[6]      t12 == times(v[2] - v[6], 362) - t13
      even == [k \in 0 .. 3 |-> CASE k = 0 -> t10 + t13 [] k = 1 -> t11 + t12
                                  [] k = 2 -> t11 - t12 [] k = 3 -> t10 - t13]
      z13 == v[5] + v[3]      z10 == v[5] - v[3]
      z11 == v[1] + v[7]      z12 == v[1] - v[7]
      z5 == times(z10 + z12, 473)
      o7 == z11 + z13
      o6 == times(z10, -669) + z5 - o7
      o5 == times(z11 - z13, 362) - o6
      o4 == times(z12, 277) - z5 + o5
  IN Butterfly(even, [k \in 0 .. 3 |-> CASE k = 0 -> o7 [] k = 1 -> o6 [] k = 2 -> o5 [] k = 3 -> -o4], 4)

-----------------------------------------------------------------------------
(* Quantization.  The fast transforms leave the scale of a coefficient to  *)
(* its divisor (start_pass_fdctmgr) and its multiplier (start_pass).       *)
aanscales ==
  << <<16384, 22725, 21407, 19266, 16384, 12873,  8867,  4520>>,
     <<22725, 31521, 29692, 26722, 22725, 17855, 12299,  6270>>,
     <<21407, 29692, 27969, 25172, 21407, 16819, 11585,  5906>>,
     <<19266, 26722, 25172, 22654, 19266, 15137, 10426,  5315>>,
     <<16384, 22725, 21407, 19266, 16384, 12873,  8867,  4520>>,
     <<12873, 17855, 16819, 15137, 12873, 10114,  6967,  3552>>,
     << 8867, 12299, 11585, 10426,  8867,  6967,  4799,  2446>>,
     << 4520,  6270,  5906,  5315,  4520,  3552,  2446,  1247>> >>
divisor(r, c) == IF method.forward = "islow" THEN table[r][c] * 8
                 ELSE DESCALE(table[r][c] * aanscales[r + 1][c + 1], 11)
multiplier(r, c) == IF method.inverse = "islow" THEN table[r][c]
                    ELSE DESCALE(table[r][c] * aanscales[r + 1][c + 1], 12)

Truncated(x, q) == IF x < 0 THEN -((-x) \div q) ELSE x \div q        \* mutant
Quantized(x, q) == IF x < 0 THEN -((-x + q \div 2) \div q) ELSE (x + q \div 2) \div q

(* The table behind IDCT_range_limit, and RANGE_MASK.                      *)
range_limit(x) ==
  LET m == x % 1024 IN
  CASE m < 128 -> m + CENTERJSAMPLE [] m \in 128 .. 511 -> 255
    [] m \in 512 .. 895 -> 0        [] OTHER -> m - 896

-----------------------------------------------------------------------------
Choose ==
  /\ pc = "start"
  /\ block' \in Blocks /\ table' \in Tables
  /\ method' \in {m \in [forward : {"islow", "ifast"}, inverse : {"islow", "ifast"}, size : {1, 2, 4, 8}] :
                    m.inverse = "ifast" => m.size = 8}
  /\ work' = block'.samples /\ pc' = "load" /\ generation' = 1
  /\ UNCHANGED <<shown, coefs>>

(* forward_DCT: rows, columns, quantization.                               *)
Forward(v, pass) == IF method.forward = "islow" THEN fdct_islow(v, pass) ELSE fdct_ifast(v)
forward_DCT_rows ==
  /\ pc = "load"
  /\ work' = [r \in Index |-> Forward([c \in Index |-> work[r][c] - CENTERJSAMPLE], 1)]
  /\ pc' = "columns" /\ UNCHANGED <<block, table, method, generation, shown, coefs>>
forward_DCT_columns ==
  /\ pc = "columns"
  /\ work' = Transposed([c \in Index |-> Forward(Column(work, c), 2)], Index)
  /\ pc' = "quantize" /\ UNCHANGED <<block, table, method, generation, shown, coefs>>
forward_DCT_quantize ==
  /\ pc = "quantize"
  /\ coefs' = [coefs EXCEPT ![generation] =
                 [r \in Index |-> [c \in Index |-> Quantized(work[r][c], divisor(r, c))]]]
  /\ pc' = IF generation = 1 THEN "inverse" ELSE "done"
  /\ UNCHANGED <<block, table, method, generation, work, shown>>

(* The inverse transforms: columns, but for those a reduced size does not  *)
(* look at, then rows and the limit.                                       *)
Used == CASE method.size = 8 -> Index [] method.size = 4 -> Index \ {4}
          [] method.size = 2 -> {0, 1, 3, 5, 7} [] OTHER -> {0}
Inverse(v) ==
  IF method.inverse = "ifast" THEN idct_ifast(v)
  ELSE CASE method.size = 8 -> idct_islow(v)
         [] method.size = 4 -> idct_4x4(v)
         [] OTHER -> idct_2x2(v)
extra == CASE method.size = 4 -> 1 [] method.size = 2 -> 2 [] OTHER -> 0
FirstShift(x) == IF method.inverse = "ifast" THEN x ELSE DESCALE(x, 13 - PASS1_BITS + extra)
LastShift(x) == IF method.inverse = "ifast" THEN RIGHT_SHIFT(x, PASS1_BITS + 3)
                ELSE DESCALE(x, 13 + PASS1_BITS + 3 + extra)

inverse_columns ==
  /\ pc = "inverse" /\ method.size > 1
  /\ work' = LET column(c) == Inverse([r \in Index |-> coefs[1][r][c] * multiplier(r, c)])
                 cols == [c \in Used |-> column(c)]
             IN [r \in 0 .. method.size - 1 |-> [c \in Used |-> FirstShift(cols[c][r])]]
  /\ pc' = "rows" /\ UNCHANGED <<block, table, method, generation, shown, coefs>>
inverse_rows ==
  /\ pc = "rows"
  /\ shown' = [r \in DOMAIN work |->
                LET row == Inverse(work[r]) IN [c \in DOMAIN row |-> range_limit(LastShift(row[c]))]]
  /\ pc' = "decoded" /\ UNCHANGED <<block, table, method, generation, work, coefs>>
idct_1x1 ==
  /\ pc = "inverse" /\ method.size = 1
  /\ shown' = [r \in {0} |-> [c \in {0} |-> range_limit(DESCALE(coefs[1][0][0] * multiplier(0, 0), 3))]]
  /\ pc' = "decoded" /\ UNCHANGED <<block, table, method, generation, work, coefs>>

SaveAgain ==
  /\ pc = "decoded" /\ method.size = 8
  /\ work' = shown /\ pc' = "load" /\ generation' = 2
  /\ UNCHANGED <<block, table, method, shown, coefs>>

Init == /\ block = [samples |-> <<>>, smooth |-> FALSE] /\ table = <<>>
        /\ method = [forward |-> "islow", inverse |-> "islow", size |-> 8]
        /\ pc = "start" /\ generation = 0 /\ work = <<>> /\ shown = <<>> /\ coefs = << <<>>, <<>> >>
Next == \/ Choose \/ forward_DCT_rows \/ forward_DCT_columns \/ forward_DCT_quantize
        \/ inverse_columns \/ inverse_rows \/ idct_1x1 \/ SaveAgain
Spec == Init /\ [][Next]_vars

-----------------------------------------------------------------------------
Near(x, y, n) == x - y \in -n .. n
Coarsest == CHOOSE q \in {table[r][c] : r, c \in Index} : \A r, c \in Index : table[r][c] <= q
Finest == CHOOSE q \in {table[r][c] : r, c \in Index} : \A r, c \in Index : q <= table[r][c]
Accurate == method.forward = "islow" /\ method.inverse = "islow"

(* Of the cell of the block that a sample of reduced size stands for.      *)
Total(r, c) ==
  LET n == 8 \div method.size
      cell == {p \in Index \X Index : p[1] \div n = r /\ p[2] \div n = c}
      sum[S \in SUBSET cell] == IF S = {} THEN 0
                                ELSE LET p == CHOOSE p \in S : TRUE
                                     IN block.samples[p[1]][p[2]] + sum[S \ {p}]
  IN sum[cell]

(* A photo that is opened shows the samples it was saved with: within one  *)
(* when the table is all ones, and within a step and a half of a coarser   *)
(* table whichever transform each side uses (the fast ones are no good     *)
(* with a fine table: their last divisors and multipliers round to 1 and   *)
(* 0); at a reduced size, each sample is the mean of those it replaces     *)
(* (jpeg_idct_4x4 and the others); and what is saved again with the same   *)
(* table is the same coefficients, if the table is coarser than the        *)
(* rounding of the samples and none was cut off at the ends of their range.*)
SamplesReturn ==
  /\ pc = "decoded" /\ method.size = 8 /\ (Finest >= 9 \/ (Coarsest = 1 /\ Accurate)) =>
       \A r, c \in Index : Near(shown[r][c], block.samples[r][c], (3 * Coarsest) \div 2)
  /\ pc = "decoded" /\ method.size < 8 /\ Coarsest = 1 /\ block.smooth =>
       LET n == 8 \div method.size IN
       \A r, c \in DOMAIN shown : Near(shown[r][c] * n * n, Total(r, c), n * n)
  /\ pc = "done" /\ Accurate /\ Finest >= 9 /\ (\A r, c \in Index : shown[r][c] \in 1 .. 254) =>
       coefs[2] = coefs[1]
=============================================================================
