----------------------------- MODULE ScanCoding -----------------------------
(***************************************************************************)
(* The scans of a JPEG file: what `-optimize' and `-progressive' ask of    *)
(* jpegtran (RatioFrame.cpp) and what every lossless command goes through. *)
(* The coefficients of a photo are sent in the scans of a script           *)
(* (jcparam.c, jcmaster.c), each coded in one or two passes (jchuff.c,     *)
(* jcphuff.c) and read back (jdhuff.c, jdphuff.c), an MCU at a time.       *)
(*                                                                         *)
(* The data of a scan is a sequence of bits, of symbols, that stand for    *)
(* their Huffman codes, and of restart markers.                            *)
(***************************************************************************)
EXTENDS Integers, Sequences, FiniteSets

CONSTANTS
  DCTSIZE2,      (* coefficients of a block: 64                            *)
  MaxRun,        (* the longest run a symbol can tell: 15                  *)
  MAX_CORR_BITS, (* size of the buffer of correction bits: 1000            *)
  MAX_COMPS_IN_SCAN,
  Pictures,      (* components, each the sequence of its blocks; how many  *)
                 (* an interleaved MCU has of each, and their table        *)
  UserScripts    (* scripts of the user                                    *)

SizesAssumption ==
  /\ DCTSIZE2 \in Nat /\ MaxRun \in Nat \ {0} /\ MAX_COMPS_IN_SCAN \in Nat \ {0}
  /\ DCTSIZE2 > 2 /\ MAX_CORR_BITS >= DCTSIZE2
PicturesAssumption ==
  \A p \in Pictures : \A c \in DOMAIN p.blocks :
    \A b \in DOMAIN p.blocks[c] : DOMAIN p.blocks[c][b] = 0 .. DCTSIZE2 - 1

VARIABLES
  picture, script, restart_interval, optimize_coding,
  scan,      (* the scan being worked on                                   *)
  pass,      (* "new", "gather", "output", "read" or "finished"            *)
  mcu,       (* MCUs done in this pass                                     *)
  enc,       (* the encoder                                                *)
  codes,     (* per table, the symbols that have a code                    *)
  dec        (* the decoder                                                *)

vars == <<picture, script, restart_interval, optimize_coding, scan, pass, mcu, enc, codes, dec>>

Two(n) == 2 ^ n
Abs(v) == IF v < 0 THEN -v ELSE v
(* How many bits a magnitude needs, and n of them, most significant first. *)
nbits(v) == CHOOSE n \in 0 .. 16 : Abs(v) < Two(n) /\ (n > 0 => Abs(v) >= Two(n - 1))

Bit(b) == [kind |-> "bit", value |-> b]
Bits(v, n) == [i \in 1 .. n |-> Bit((v \div Two(n - i)) % 2)]
Symbol(table, r, s) == [kind |-> "symbol", value |-> <<table, r, s>>]
RST(n) == [kind |-> "RST", value |-> n]
ItemsOf(s, kind) == {s[i].value : i \in {j \in DOMAIN s : s[j].kind = kind}}

-----------------------------------------------------------------------------
(* The scripts.                                                            *)
Scan(comps, Ss, Se, Ah, Al) == [comps |-> comps, Ss |-> Ss, Se |-> Se, Ah |-> Ah, Al |-> Al]
All(n) == [i \in 1 .. n |-> i]
fill_scans(n, Ss, Se, Ah, Al) == [c \in 1 .. n |-> Scan(<<c>>, Ss, Se, Ah, Al)]
fill_dc_scans(n, Ah, Al) ==
  IF n <= MAX_COMPS_IN_SCAN THEN <<Scan(All(n), 0, 0, Ah, Al)>> ELSE fill_scans(n, 0, 0, Ah, Al)
(* The first band ends at 5 of 63: here at 2. *)
jpeg_simple_progression(n, YCbCr) ==
  LET Se == DCTSIZE2 - 1 IN
  IF n = 3 /\ YCbCr
  THEN fill_dc_scans(3, 0, 1)
       \o <<Scan(<<1>>, 1, 2, 0, 2), Scan(<<3>>, 1, Se, 0, 1), Scan(<<2>>, 1, Se, 0, 1),
            Scan(<<1>>, 3, Se, 0, 2), Scan(<<1>>, 1, Se, 2, 1)>>
       \o fill_dc_scans(3, 1, 0)
       \o <<Scan(<<3>>, 1, Se, 1, 0), Scan(<<2>>, 1, Se, 1, 0), Scan(<<1>>, 1, Se, 1, 0)>>
  ELSE fill_dc_scans(n, 0, 1) \o fill_scans(n, 1, 2, 0, 2) \o fill_scans(n, 3, Se, 0, 2)
       \o fill_scans(n, 1, Se, 2, 1) \o fill_dc_scans(n, 1, 0) \o fill_scans(n, 1, Se, 1, 0)
Sequential(n) == <<Scan(All(n), 0, DCTSIZE2 - 1, 0, 0)>>
is_progressive(s) == s[1].Ss # 0 \/ s[1].Se # DCTSIZE2 - 1

(* The last Al of a coefficient in the first i scans, -1 for none.         *)
LastAl(s, i, c, k) ==
  LET sent == {j \in 1 .. i : k \in s[j].Ss .. s[j].Se /\ \E x \in DOMAIN s[j].comps : s[j].comps[x] = c}
  IN IF sent = {} THEN -1 ELSE s[CHOOSE j \in sent : \A l \in sent : l <= j].Al

validate_script(s, n) ==
  /\ s # <<>>
  /\ \A i \in DOMAIN s :
       LET x == s[i] IN
       /\ Len(x.comps) \in 1 .. MAX_COMPS_IN_SCAN
       /\ \A j \in DOMAIN x.comps :
            x.comps[j] \in 1 .. n /\ (j > 1 => x.comps[j] > x.comps[j - 1])
       /\ IF is_progressive(s)
          THEN /\ x.Ss <= x.Se /\ x.Se < DCTSIZE2 /\ x.Ah \in 0 .. 10 /\ x.Al \in 0 .. 10
               /\ IF x.Ss = 0 THEN x.Se = 0
                  ELSE Len(x.comps) = 1 /\ LastAl(s, i - 1, x.comps[1], 0) >= 0
               /\ \A j \in DOMAIN x.comps, k \in x.Ss .. x.Se :
                    LET last == LastAl(s, i - 1, x.comps[j], k) IN
                    IF last < 0 THEN x.Ah = 0 ELSE x.Ah = last /\ x.Al = x.Ah - 1
          ELSE /\ x.Ss = 0 /\ x.Se = DCTSIZE2 - 1 /\ x.Ah = 0 /\ x.Al = 0
               /\ \A j \in DOMAIN x.comps : LastAl(s, i - 1, x.comps[j], 0) < 0
  /\ \A c \in 1 .. n : LastAl(s, Len(s), c, 0) >= 0

-----------------------------------------------------------------------------
(* The MCUs of a scan: a block of its only component, or some of each.     *)
MCUs(x) == IF Len(x.comps) = 1 THEN Len(picture.blocks[x.comps[1]])
           ELSE Len(picture.blocks[x.comps[1]]) \div picture.sampling[x.comps[1]]
(* The blocks of MCU i, as <<component in the scan, block>>.               *)
MCU_blocks(x, i) ==
  LET h(ci) == IF Len(x.comps) = 1 THEN 1 ELSE picture.sampling[x.comps[ci]]
      of[ci \in 0 .. Len(x.comps)] ==
        IF ci = 0 THEN <<>>
        ELSE of[ci - 1] \o [b \in 1 .. h(ci) |-> <<ci, (i - 1) * h(ci) + b>>]
  IN of[Len(x.comps)]
dc_tbl(c) == <<"dc", picture.tbl_no[c]>>
ac_tbl(c) == <<"ac", picture.tbl_no[c]>>

(* The encoder, at the start of a pass (start_pass_huff, start_pass_phuff).*)
Encoder(interval) == [out |-> <<>>, last_dc_val |-> [ci \in 1 .. MAX_COMPS_IN_SCAN |-> 0],
            EOBRUN |-> 0, BE |-> <<>>, restarts_to_go |-> interval, next_restart_num |-> 0]
Emit(e, items) == [e EXCEPT !.out = @ \o items]

(* A difference or coefficient: the value, or the complement of its        *)
(* magnitude.  Of a two's complement number the low bits are what is left. *)
Value(v, n) == Bits(IF v < 0 THEN v - 1 + Two(n) ELSE v, n)

emit_dc(e, ci, table, v) ==
  LET diff == v - e.last_dc_val[ci] IN
  [Emit(e, <<Symbol(table, 0, nbits(diff))>> \o Value(diff, nbits(diff)))
     EXCEPT !.last_dc_val[ci] = v]
ZRLs(table, r) == [i \in 1 .. r \div (MaxRun + 1) |-> Symbol(table, MaxRun, 0)]

emit_eobrun(e, table) ==
  IF e.EOBRUN = 0 THEN e
  ELSE LET n == nbits(e.EOBRUN) - 1 IN
       [Emit(e, <<Symbol(table, n, 0)>> \o Bits(e.EOBRUN % Two(n), n) \o e.BE)
          EXCEPT !.EOBRUN = 0, !.BE = <<>>]

(* encode_one_block: the difference, then runs of zeros and coefficients.  *)
encode_one_block(e, ci, c, block) ==
  LET table == ac_tbl(c)
      at[k \in 0 .. DCTSIZE2 - 1] ==
        IF k = 0 THEN [e |-> emit_dc(e, ci, dc_tbl(c), block[0]), r |-> 0]
        ELSE LET a == at[k - 1]  v == block[k] IN
             IF v = 0 THEN [a EXCEPT !.r = @ + 1]
             ELSE [e |-> Emit(a.e, ZRLs(table, a.r)
                                   \o <<Symbol(table, a.r % (MaxRun + 1), nbits(v))>>
                                   \o Value(v, nbits(v))),
                   r |-> 0]
      end == at[DCTSIZE2 - 1]
  IN IF end.r > 0 THEN Emit(end.e, <<Symbol(table, 0, 0)>>) ELSE end.e

(* htest_one_block counts the symbols the same block needs.                *)
htest_without_ZRL(e, ci, c, block) ==                                 \* mutant
  LET run(k) == CHOOSE r \in 0 .. k - 1 :
                  /\ \A j \in k - r .. k - 1 : block[j] = 0
                  /\ k - r - 1 > 0 => block[k - r - 1] # 0
      used == {k \in 1 .. DCTSIZE2 - 1 : block[k] # 0}
  IN [e EXCEPT !.out = @ \o <<Symbol(dc_tbl(c), 0, nbits(block[0] - e.last_dc_val[ci]))>>
                 \o [k \in 1 .. DCTSIZE2 - 1 |->
                       IF k \in used THEN Symbol(ac_tbl(c), run(k) % (MaxRun + 1), nbits(block[k]))
                       ELSE Symbol(ac_tbl(c), 0, 0)],
               !.last_dc_val[ci] = block[0]]
htest_one_block(e, ci, c, block) ==
  LET run(k) == CHOOSE r \in 0 .. k - 1 :
                  /\ \A j \in k - r .. k - 1 : block[j] = 0
                  /\ k - r - 1 > 0 => block[k - r - 1] # 0
      used == {k \in 1 .. DCTSIZE2 - 1 : block[k] # 0}
      counts[k \in 0 .. DCTSIZE2 - 1] ==
        IF k = 0 THEN <<Symbol(dc_tbl(c), 0, nbits(block[0] - e.last_dc_val[ci]))>>
        ELSE counts[k - 1] \o
             (IF k \in used
              THEN ZRLs(ac_tbl(c), run(k))
                   \o <<Symbol(ac_tbl(c), run(k) % (MaxRun + 1), nbits(block[k]))>>
              ELSE <<>>)
      EOB == IF block[DCTSIZE2 - 1] = 0 THEN <<Symbol(ac_tbl(c), 0, 0)>> ELSE <<>>
  IN [e EXCEPT !.out = @ \o counts[DCTSIZE2 - 1] \o EOB, !.last_dc_val[ci] = block[0]]

(* The point transform: of DC a shift, of AC a shift of the magnitude.     *)
encode_mcu_DC_first(e, ci, c, block, x) == emit_dc(e, ci, dc_tbl(c), block[0] \div Two(x.Al))
encode_mcu_DC_refine(e, block, x) == Emit(e, <<Bit((block[0] \div Two(x.Al)) % 2)>>)

encode_mcu_AC_first(e, c, block, x) ==
  LET table == ac_tbl(c)
      at[k \in x.Ss - 1 .. x.Se] ==
        IF k = x.Ss - 1 THEN [e |-> e, r |-> 0]
        ELSE LET a == at[k - 1]
                 abs == Abs(block[k]) \div Two(x.Al)
                 v == IF block[k] < 0 THEN -abs ELSE abs IN
             IF abs = 0 THEN [a EXCEPT !.r = @ + 1]
             ELSE [e |-> Emit(emit_eobrun(a.e, table),
                              ZRLs(table, a.r)
                                \o <<Symbol(table, a.r % (MaxRun + 1), nbits(v))>>
                                \o Value(v, nbits(v))),
                   r |-> 0]
      end == at[x.Se]
      counted == [end.e EXCEPT !.EOBRUN = @ + 1]
  IN IF end.r = 0 THEN end.e
     ELSE IF counted.EOBRUN = Two(MaxRun) - 1 THEN emit_eobrun(counted, table) ELSE counted

(* New coefficients are coded as in the first pass; those already sent     *)
(* give a correction bit each, that waits in BR for the next symbol of the *)
(* block, or in BE, with those of other blocks, for the end of the run.    *)
refined_at_end(a, k, abs, EOB, v, table) ==                           \* mutant
  LET e == emit_eobrun(a.e, table) IN
  IF abs = 0 THEN [a EXCEPT !.r = @ + 1]
  ELSE IF abs > 1 THEN [a EXCEPT !.BR = Append(@, Bit(abs % 2))]
  ELSE [e |-> Emit(e, ZRLs(table, a.r) \o <<Symbol(table, a.r % (MaxRun + 1), 1)>>
                        \o <<Bit(IF v < 0 THEN 0 ELSE 1)>> \o a.BR),
        r |-> 0, BR |-> <<>>]
refined(a, k, abs, EOB, v, table) ==
  LET zrl == a.r > MaxRun /\ k <= EOB
      flushed == emit_eobrun(a.e, table)
      b == IF ~zrl THEN a
           ELSE [e |-> Emit(flushed, <<Symbol(table, MaxRun, 0)>> \o a.BR
                                      \o Tail(ZRLs(table, a.r))),
                 r |-> a.r % (MaxRun + 1), BR |-> <<>>]
  IN CASE abs = 0 -> [a EXCEPT !.r = @ + 1]
       [] abs > 1 -> [b EXCEPT !.BR = Append(@, Bit(abs % 2))]
       [] OTHER   -> [e |-> Emit(emit_eobrun(b.e, table),
                                 <<Symbol(table, b.r, 1), Bit(IF v < 0 THEN 0 ELSE 1)>> \o b.BR),
                      r |-> 0, BR |-> <<>>]
encode_mcu_AC_refine(e, c, block, x) ==
  LET table == ac_tbl(c)
      abs == [k \in x.Ss .. x.Se |-> Abs(block[k]) \div Two(x.Al)]
      news == {k \in x.Ss .. x.Se : abs[k] = 1}
      EOB == IF news = {} THEN 0 ELSE CHOOSE k \in news : \A j \in news : j <= k
      at[k \in x.Ss - 1 .. x.Se] ==
        IF k = x.Ss - 1 THEN [e |-> e, r |-> 0, BR |-> <<>>]
        ELSE refined(at[k - 1], k, abs[k], EOB, block[k], table)
      end == at[x.Se]
      counted == [end.e EXCEPT !.EOBRUN = @ + 1, !.BE = @ \o end.BR]
  IN IF end.r = 0 /\ end.BR = <<>> THEN end.e
     ELSE IF counted.EOBRUN = Two(MaxRun) - 1 \/ Len(counted.BE) > MAX_CORR_BITS - DCTSIZE2 + 1
          THEN emit_eobrun(counted, table)
          ELSE counted

(* An MCU: a restart marker when one is due, its blocks, the counters.     *)
emit_restart(e, x) ==
  LET f == IF x.Ss = 0 THEN e ELSE emit_eobrun(e, ac_tbl(x.comps[1])) IN
  [Emit(f, <<RST(e.next_restart_num)>>)
     EXCEPT !.last_dc_val = [ci \in DOMAIN @ |-> 0], !.EOBRUN = 0, !.BE = <<>>]
encode_block(e, x, ci, block) ==
  LET c == x.comps[ci] IN
  CASE ~is_progressive(script) /\ pass = "gather" -> htest_one_block(e, ci, c, block)
    [] ~is_progressive(script) /\ pass = "output" -> encode_one_block(e, ci, c, block)
    [] is_progressive(script) /\ x.Ah = 0 /\ x.Ss = 0 -> encode_mcu_DC_first(e, ci, c, block, x)
    [] is_progressive(script) /\ x.Ah = 0 /\ x.Ss # 0 -> encode_mcu_AC_first(e, c, block, x)
    [] is_progressive(script) /\ x.Ah # 0 /\ x.Ss = 0 -> encode_mcu_DC_refine(e, block, x)
    [] is_progressive(script) /\ x.Ah # 0 /\ x.Ss # 0 -> encode_mcu_AC_refine(e, c, block, x)
encode_mcu(e, x, i) ==
  LET due == restart_interval > 0 /\ e.restarts_to_go = 0
      bs == MCU_blocks(x, i)
      at[j \in 0 .. Len(bs)] ==
        IF j = 0 THEN IF due THEN emit_restart(e, x) ELSE e
        ELSE encode_block(at[j - 1], x, bs[j][1], picture.blocks[x.comps[bs[j][1]]][bs[j][2]])
      f == at[Len(bs)]
  IN IF restart_interval = 0 THEN f
     ELSE [f EXCEPT !.restarts_to_go = (IF due THEN restart_interval ELSE @) - 1,
                    !.next_restart_num = IF due THEN (@ + 1) % 8 ELSE @]

finished(e, x) == IF is_progressive(script) /\ x.Ss # 0 THEN emit_eobrun(e, ac_tbl(x.comps[1])) ELSE e

-----------------------------------------------------------------------------
(* The decoder: `in' is what it has not read, `ok' that what it read was   *)
(* what it looked for.                                                     *)
get_bits(d, n) ==
  IF Len(d.in) < n \/ \E i \in 1 .. n : d.in[i].kind # "bit" THEN [d EXCEPT !.ok = FALSE, !.got = 0]
  ELSE LET v[i \in 0 .. n] == IF i = 0 THEN 0 ELSE 2 * v[i - 1] + d.in[i].value
       IN [d EXCEPT !.in = SubSeq(@, n + 1, Len(@)), !.got = v[n]]
(* HUFF_DECODE, in a table: the run and the size of the symbol.            *)
huff_decode(d, table) ==
  IF d.in = <<>> \/ Head(d.in).kind # "symbol" \/ Head(d.in).value[1] # table
  THEN [d EXCEPT !.ok = FALSE, !.got = <<0, 0>>]
  ELSE [d EXCEPT !.in = Tail(@), !.got = <<Head(d.in).value[2], Head(d.in).value[3]>>]
HUFF_EXTEND(v, s) == IF s > 0 /\ v < Two(s - 1) THEN v - Two(s) + 1 ELSE v
receive(d, s) == LET b == get_bits(d, s) IN [b EXCEPT !.got = HUFF_EXTEND(@, s)]

decode_dc(d, ci, table) ==
  LET h == huff_decode(d, table)
      b == receive(h, h.got[2])
      v == b.got + d.last_dc_val[ci]
  IN [b EXCEPT !.last_dc_val[ci] = v, !.got = v]
EndOfBand(d, r) == LET b == get_bits(d, r) IN [b EXCEPT !.EOBRUN = Two(r) + b.got]

(* The loops of the decoder over the band, from k on: a turn of theirs adds *)
(* to k, so that there are no more turns than coefficients.                *)
Turns == 0 .. DCTSIZE2
decode_ac(d, table, from, Se, Al, runs) ==
  LET symbol(t) ==
        LET h == huff_decode(t.d, table)
            r == h.got[1]  s == h.got[2]
            b == receive(h, s)  at == t.k + r IN
        IF s > 0
        THEN [d |-> [b EXCEPT !.block = [j \in DOMAIN @ |-> IF j = at THEN b.got * Two(Al) ELSE @[j]]],
              k |-> at + 1]
        ELSE IF r = MaxRun THEN [d |-> h, k |-> t.k + MaxRun + 1]
        ELSE [d |-> IF runs THEN [EndOfBand(h, r) EXCEPT !.EOBRUN = @ - 1] ELSE h, k |-> Se + 1]
      turn[n \in Turns] ==
        IF n = 0 THEN [d |-> d, k |-> from]
        ELSE LET t == turn[n - 1] IN IF t.k > Se \/ ~t.d.ok THEN t ELSE symbol(t)
  IN turn[DCTSIZE2].d

decode_block(d, ci, c, x) ==
  LET b == decode_dc(d, ci, dc_tbl(c))
  IN decode_ac([b EXCEPT !.block[0] = b.got], ac_tbl(c), 1, DCTSIZE2 - 1, 0, FALSE)
decode_mcu_DC_first(d, ci, c, x) ==
  LET b == decode_dc(d, ci, dc_tbl(c)) IN [b EXCEPT !.block[0] = b.got * Two(x.Al)]
decode_mcu_AC_first(d, c, x) ==
  IF d.EOBRUN > 0 THEN [d EXCEPT !.EOBRUN = @ - 1]
  ELSE decode_ac(d, ac_tbl(c), x.Ss, x.Se, x.Al, TRUE)
BitUnset(v, Al) == (v \div Two(Al)) % 2 = 0
decode_mcu_DC_refine(d, x) ==
  LET b == get_bits(d, 1) IN
  IF b.got = 1 /\ BitUnset(b.block[0], x.Al) THEN [b EXCEPT !.block[0] = @ + Two(x.Al)] ELSE b

(* A coefficient already there is corrected away from zero.                *)
corrected(d, k, Al) ==
  LET b == get_bits(d, 1) IN
  IF b.got = 1 /\ BitUnset(b.block[k], Al)
  THEN [b EXCEPT !.block[k] = IF @ >= 0 THEN @ + Two(Al) ELSE @ - Two(Al)]
  ELSE b
(* Up to the place of a new coefficient, r zeros further on.               *)
advance(d, from, r, x) ==
  LET turn[n \in Turns] ==
        IF n = 0 THEN [d |-> d, k |-> from, r |-> r, there |-> FALSE]
        ELSE LET t == turn[n - 1] IN
             IF t.k > x.Se \/ t.there THEN t
             ELSE IF t.d.block[t.k] # 0 THEN [t EXCEPT !.d = corrected(@, t.k, x.Al), !.k = @ + 1]
             ELSE IF t.r = 0 THEN [t EXCEPT !.there = TRUE]
             ELSE [t EXCEPT !.k = @ + 1, !.r = @ - 1]
  IN turn[DCTSIZE2]
corrections(d, from, x) ==
  LET turn[k \in from - 1 .. DCTSIZE2] ==
        IF k < from THEN d
        ELSE IF turn[k - 1].block[k] # 0 THEN corrected(turn[k - 1], k, x.Al) ELSE turn[k - 1]
  IN IF from > x.Se THEN d ELSE turn[x.Se]
decode_refine(d, table, from, x) ==
  LET symbol(t) ==
        LET h == huff_decode(t.d, table)
            r == h.got[1]  s == h.got[2]
            b == IF s > 0 THEN get_bits(h, 1) ELSE h
            a == advance(b, t.k, r, x)
            new == IF b.got = 1 THEN Two(x.Al) ELSE -Two(x.Al) IN
        IF s = 0 /\ r # MaxRun THEN [d |-> EndOfBand(h, r), k |-> t.k, ended |-> TRUE]
        ELSE [d |-> [a.d EXCEPT !.block =
                       [j \in DOMAIN @ |-> IF s > 0 /\ j = a.k THEN new ELSE @[j]]],
              k |-> a.k + 1, ended |-> FALSE]
      turn[n \in Turns] ==
        IF n = 0 THEN [d |-> d, k |-> from, ended |-> FALSE]
        ELSE LET t == turn[n - 1] IN IF t.k > x.Se \/ ~t.d.ok \/ t.ended THEN t ELSE symbol(t)
  IN turn[DCTSIZE2]
decode_mcu_AC_refine(d, c, x) ==
  LET f == IF d.EOBRUN = 0 THEN decode_refine(d, ac_tbl(c), x.Ss, x) ELSE [d |-> d, k |-> x.Ss]
  IN IF f.d.EOBRUN = 0 THEN f.d
     ELSE [corrections(f.d, f.k, x) EXCEPT !.EOBRUN = @ - 1]

(* start_pass: the scan against those before it, with a warning for an     *)
(* order that is not one. *)
Decoder(d, x, in) ==
  [d EXCEPT !.in = in, !.last_dc_val = [ci \in DOMAIN @ |-> 0], !.EOBRUN = 0,
     !.restarts_to_go = restart_interval, !.next_restart_num = 0,
     !.coef_bits = [c \in DOMAIN @ |->
        IF \E ci \in DOMAIN x.comps : x.comps[ci] = c
        THEN [k \in DOMAIN @[c] |-> IF k \in x.Ss .. x.Se THEN x.Al ELSE @[c][k]]
        ELSE @[c]],
     !.ok = @ /\ \A ci \in DOMAIN x.comps :
        LET bits == d.coef_bits[x.comps[ci]] IN
        is_progressive(script) =>
          /\ x.Ss # 0 => bits[0] >= 0
          /\ \A k \in x.Ss .. x.Se : x.Ah = IF bits[k] < 0 THEN 0 ELSE bits[k]]

process_restart(d) ==
  IF d.in = <<>> \/ Head(d.in) # RST(d.next_restart_num) THEN [d EXCEPT !.ok = FALSE]
  ELSE [d EXCEPT !.in = Tail(@), !.last_dc_val = [ci \in DOMAIN @ |-> 0], !.EOBRUN = 0,
                 !.restarts_to_go = restart_interval, !.next_restart_num = (@ + 1) % 8]
decode_a_block(d, x, ci) ==
  LET c == x.comps[ci] IN
  CASE ~is_progressive(script) -> decode_block(d, ci, c, x)
    [] is_progressive(script) /\ x.Ah = 0 /\ x.Ss = 0 -> decode_mcu_DC_first(d, ci, c, x)
    [] is_progressive(script) /\ x.Ah = 0 /\ x.Ss # 0 -> decode_mcu_AC_first(d, c, x)
    [] is_progressive(script) /\ x.Ah # 0 /\ x.Ss = 0 -> decode_mcu_DC_refine(d, x)
    [] is_progressive(script) /\ x.Ah # 0 /\ x.Ss # 0 -> decode_mcu_AC_refine(d, c, x)
decode_mcu(d, x, i) ==
  LET due == restart_interval > 0 /\ d.restarts_to_go = 0
      bs == MCU_blocks(x, i)
      at[j \in 0 .. Len(bs)] ==
        IF j = 0 THEN IF due THEN process_restart(d) ELSE d
        ELSE LET before == at[j - 1]  c == x.comps[bs[j][1]]  b == bs[j][2]
                 after == decode_a_block([before EXCEPT !.block = before.coefs[c][b]], x, bs[j][1])
             IN [after EXCEPT !.coefs[c][b] = after.block]
  IN [at[Len(bs)] EXCEPT !.restarts_to_go = @ - 1, !.got = 0]

-----------------------------------------------------------------------------
(* The tables a scan uses; a refinement of DC sends bits as they are.      *)
Tables(x) ==
  {dc_tbl(x.comps[ci]) : ci \in {j \in DOMAIN x.comps : x.Ss = 0 /\ x.Ah = 0}}
    \cup {ac_tbl(x.comps[ci]) : ci \in {j \in DOMAIN x.comps : x.Se # 0}}
EveryTable == {"dc", "ac"} \X {0, 1}
Current == script[scan]

(* The picture, its script and whether its codes are made for it, as they  *)
(* must be for a progressive file. *)
Scripts(n) == {Sequential(n), jpeg_simple_progression(n, FALSE), jpeg_simple_progression(n, TRUE)}
                \cup UserScripts
Start ==
  /\ pass = "new"
  /\ \E p \in Pictures : \E s \in {t \in Scripts(Len(p.blocks)) : validate_script(t, Len(p.blocks))} :
       /\ picture' = p /\ script' = s
       /\ \E optimize \in BOOLEAN : optimize_coding' = (optimize \/ is_progressive(s))
       /\ pass' = IF optimize_coding' THEN "gather" ELSE "output"
       /\ dec' = [in |-> <<>>, ok |-> TRUE, got |-> 0, block |-> <<>>,
                  last_dc_val |-> [ci \in 1 .. MAX_COMPS_IN_SCAN |-> 0], EOBRUN |-> 0,
                  restarts_to_go |-> 0, next_restart_num |-> 0,
                  coef_bits |-> [c \in DOMAIN p.blocks |-> [k \in 0 .. DCTSIZE2 - 1 |-> -1]],
                  coefs |-> [c \in DOMAIN p.blocks |->
                               [b \in DOMAIN p.blocks[c] |-> [k \in 0 .. DCTSIZE2 - 1 |-> 0]]]]
  /\ \E interval \in 0 .. 2 :
       restart_interval' = interval /\ enc' = Encoder(interval)
  /\ codes' = [t \in EveryTable |-> {}]
  /\ scan' = 1 /\ mcu' = 0

EncodeMCU ==
  /\ pass \in {"gather", "output"} /\ mcu < MCUs(Current)
  /\ enc' = encode_mcu(enc, Current, mcu + 1)
  /\ mcu' = mcu + 1
  /\ UNCHANGED <<picture, script, restart_interval, optimize_coding, scan, pass, codes, dec>>

(* finish_pass_gather: the tables the scan uses are made anew.             *)
FinishGather ==
  /\ pass = "gather" /\ mcu = MCUs(Current)
  /\ LET out == finished(enc, Current).out IN
     codes' = [t \in EveryTable |->
                 IF t \in Tables(Current) THEN {v \in ItemsOf(out, "symbol") : v[1] = t} ELSE codes[t]]
  /\ pass' = "output" /\ mcu' = 0 /\ enc' = Encoder(restart_interval)
  /\ UNCHANGED <<picture, script, restart_interval, optimize_coding, scan, dec>>

FinishOutput ==
  /\ pass = "output" /\ mcu = MCUs(Current)
  /\ enc' = finished(enc, Current)
  /\ dec' = Decoder(dec, Current, enc'.out)
  /\ pass' = "read" /\ mcu' = 0
  /\ UNCHANGED <<picture, script, restart_interval, optimize_coding, scan, codes>>

DecodeMCU ==
  /\ pass = "read" /\ mcu < MCUs(Current)
  /\ dec' = decode_mcu(dec, Current, mcu + 1)
  /\ mcu' = mcu + 1
  /\ UNCHANGED <<picture, script, restart_interval, optimize_coding, scan, pass, enc, codes>>

FinishRead ==
  /\ pass = "read" /\ mcu = MCUs(Current)
  /\ IF scan = Len(script) THEN pass' = "finished" /\ UNCHANGED <<scan, mcu, enc>>
     ELSE /\ scan' = scan + 1 /\ mcu' = 0 /\ enc' = Encoder(restart_interval)
          /\ pass' = IF optimize_coding THEN "gather" ELSE "output"
  /\ UNCHANGED <<picture, script, restart_interval, optimize_coding, codes, dec>>

Init ==
  /\ picture = <<>> /\ script = <<>> /\ restart_interval = 0 /\ optimize_coding = FALSE
  /\ scan = 0
  /\ pass = "new" /\ mcu = 0 /\ enc = <<>> /\ codes = <<>> /\ dec = <<>>

Next == Start \/ EncodeMCU \/ FinishGather \/ FinishOutput \/ DecodeMCU \/ FinishRead
Spec == Init /\ [][Next]_vars

-----------------------------------------------------------------------------
(* What has been sent of a coefficient whose last Al bits have not been.   *)
Sent(v, k, Al) ==
  IF Al < 0 THEN 0
  ELSE IF k = 0 \/ v >= 0 THEN (v \div Two(Al)) * Two(Al) ELSE -((Abs(v) \div Two(Al)) * Two(Al))

(* After every scan the reader has of each coefficient the bits that have  *)
(* been sent, and has read all of the scan: spectral selection, successive *)
(* approximation, runs of empty bands over several blocks, correction bits *)
(* and restarts included (jcphuff.c, jdphuff.c, jchuff.c, jdhuff.c); so a  *)
(* progressive file made by jpeg_simple_progression is the photo.          *)
CoefficientsSent ==
  pass = "read" /\ mcu = MCUs(Current) =>
    /\ dec.ok /\ dec.in = <<>>
    /\ \A c \in DOMAIN picture.blocks : \A b \in DOMAIN picture.blocks[c], k \in 0 .. DCTSIZE2 - 1 :
         dec.coefs[c][b][k] = Sent(picture.blocks[c][b][k], k, LastAl(script, scan, c, k))
    /\ scan = Len(script) /\ script \notin UserScripts => dec.coefs = picture.blocks

(* jchuff.c:559, "This process MUST agree with the code above": a symbol   *)
(* sent has a code in the tables made in the pass before, none of them     *)
(* empty (jpeg_gen_optimal_table would run off its counts); and the bits   *)
(* that wait for the end of a run fit their buffer (MAX_CORR_BITS), with   *)
(* those a next block may add.                                             *)
SymbolsCoded ==
  pass = "output" =>
    /\ optimize_coding => /\ \A v \in ItemsOf(enc.out, "symbol") : v \in codes[v[1]]
                          /\ \A t \in Tables(Current) : codes[t] # {}
    /\ Len(enc.BE) + DCTSIZE2 - 1 <= MAX_CORR_BITS
=============================================================================
