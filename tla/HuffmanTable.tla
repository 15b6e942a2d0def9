---------------------------- MODULE HuffmanTable ----------------------------
(***************************************************************************)
(* The Huffman codes of `-optimize' and of progressive files:              *)
(* jpeg_gen_optimal_table (src/lib/jpeg-6b-crop/jchuff.c) makes the        *)
(* lengths of the codes from the counts of the symbols, the encoder and    *)
(* the decoder (jdhuff.c) each derive the codes from the lengths.          *)
(***************************************************************************)
EXTENDS Integers, Sequences, FiniteSets

CONSTANTS
  Symbols,   (* how many symbols there are: 256, a pseudo-symbol follows   *)
  MaxLength, (* the longest code a file may have: 16                       *)
  Counts     (* how often a symbol may occur                               *)

HuffmanAssumption ==
  /\ Symbols \in Nat /\ MaxLength \in Nat /\ Symbols < 2 ^ MaxLength
  /\ Counts \subseteq Nat /\ 0 \in Counts

VARIABLES
  count,     (* history: the counts                                        *)
  freq,      (* counts of the trees                                        *)
  branch,    (* per tree, the symbols it holds (others)                    *)
  codesize,  (* length of the code of each symbol                          *)
  bits,      (* how many codes there are of each length                    *)
  huffval,   (* the symbols, by length                                     *)
  making     (* "idle", "tree", "lengths" or "made"                        *)

vars == <<count, freq, branch, codesize, bits, huffval, making>>

Every == 0 .. Symbols
Lengths == 0 .. Symbols + 1

finish_pass_gather ==
  /\ making = "idle"
  /\ count' \in {f \in [0 .. Symbols - 1 -> Counts] : \E s \in DOMAIN f : f[s] > 0}
  /\ freq' = [s \in Every |-> IF s = Symbols THEN 1 ELSE count'[s]]
  /\ branch' = [s \in Every |-> {s}] /\ codesize' = [s \in Every |-> 0]
  /\ making' = "tree"
  /\ UNCHANGED <<bits, huffval>>

(* The least frequent tree, of equals the one of the largest symbol.       *)
Trees == {s \in Every : freq[s] > 0}
Least(S) == CHOOSE s \in S : \A t \in S : freq[s] < freq[t] \/ (freq[s] = freq[t] /\ s >= t)
Merge ==
  /\ making = "tree" /\ Cardinality(Trees) > 1
  /\ LET c1 == Least(Trees)  c2 == Least(Trees \ {c1})  both == branch[c1] \cup branch[c2] IN
     /\ freq' = [freq EXCEPT ![c1] = @ + freq[c2], ![c2] = 0]
     /\ branch' = [branch EXCEPT ![c1] = both]
     /\ codesize' = [s \in Every |-> codesize[s] + IF s \in both THEN 1 ELSE 0]
  /\ UNCHANGED <<count, bits, huffval, making>>
CountLengths ==
  /\ making = "tree" /\ Cardinality(Trees) = 1
  /\ bits' = [l \in Lengths |-> IF l = 0 THEN 0 ELSE Cardinality({s \in Every : codesize[s] = l})]
  /\ making' = "lengths"
  /\ UNCHANGED <<count, freq, branch, codesize, huffval>>

(* Of the longest codes two go: one takes their prefix, the other makes a  *)
(* shorter code the prefix of two. *)
Longest == CHOOSE l \in Lengths : bits[l] > 0 /\ \A k \in Lengths : k > l => bits[k] = 0
ShortenedAlone(i, j) == [bits EXCEPT ![i] = @ - 2, ![i - 1] = @ + 2]  \* mutant
Shortened(i, j) ==
  LET gone == [bits EXCEPT ![i] = @ - 2, ![i - 1] = @ + 1]
      split == [gone EXCEPT ![j + 1] = @ + 2]
  IN [split EXCEPT ![j] = @ - 1]
Shorten ==
  /\ making = "lengths" /\ Longest > MaxLength
  /\ LET i == Longest
         j == CHOOSE k \in 0 .. i - 2 : bits[k] > 0 /\ \A l \in k + 1 .. i - 2 : bits[l] = 0
     IN bits' = Shortened(i, j)
  /\ UNCHANGED <<count, freq, branch, codesize, huffval, making>>

(* The pseudo-symbol goes from the longest length; the symbols are listed  *)
(* by the lengths they had before any was shortened. *)
ListSymbols ==
  /\ making = "lengths" /\ Longest <= MaxLength
  /\ bits' = [bits EXCEPT ![Longest] = @ - 1]
  /\ LET coded == {s \in 0 .. Symbols - 1 : codesize[s] > 0}
         before(s) == {t \in coded : codesize[t] < codesize[s] \/ (codesize[t] = codesize[s] /\ t < s)}
     IN huffval' = [p \in 1 .. Cardinality(coded) |-> CHOOSE s \in coded : Cardinality(before(s)) = p - 1]
  /\ making' = "made"
  /\ UNCHANGED <<count, freq, branch, codesize>>

Init ==
  /\ making = "idle" /\ count = <<>> /\ freq = <<>> /\ branch = <<>> /\ codesize = <<>>
  /\ bits = <<>> /\ huffval = <<>>
Next == finish_pass_gather \/ Merge \/ CountLengths \/ Shorten \/ ListSymbols
Spec == Init /\ [][Next]_vars

-----------------------------------------------------------------------------
(* Both derive the codes alike: in the order of the lengths each is one    *)
(* more than the one before, with zeros for the bits it is longer by. *)
Total == LET t[l \in 0 .. MaxLength] == IF l = 0 THEN 0 ELSE t[l - 1] + bits[l] IN t[MaxLength]
huffsize ==
  LET sizes[l \in 0 .. MaxLength] ==
        IF l = 0 THEN <<>> ELSE sizes[l - 1] \o [i \in 1 .. bits[l] |-> l]
  IN sizes[MaxLength]
huffcode ==
  LET size == huffsize
      code[p \in 1 .. Len(size)] ==
        IF p = 1 THEN 0 ELSE (code[p - 1] + 1) * 2 ^ (size[p] - size[p - 1])
  IN code

(* The encoder: no code of all ones, and no symbol twice.                  *)
Legal(size, code) ==
  /\ \A p \in DOMAIN size : code[p] + 1 < 2 ^ size[p]
  /\ \A p, q \in DOMAIN huffval : huffval[p] = huffval[q] => p = q

(* The decoder: per length the largest code, and where its symbols are.    *)
First(l) == LET t[k \in 0 .. l - 1] == IF k = 0 THEN 1 ELSE t[k - 1] + bits[k] IN t[l - 1]
maxcode(code, l) == IF bits[l] = 0 THEN -1 ELSE code[First(l) + bits[l] - 1]
valoffset(code, l) == First(l) - code[First(l)]
(* jpeg_huff_decode: one more bit as long as the code is past the largest  *)
(* of its length.  `size' bits of value `c' are read, `more' follow. *)
jpeg_huff_decode(code, c, size) ==
  LET prefix(l) == c \div 2 ^ (size - l)
      ends == {l \in 1 .. size : prefix(l) <= maxcode(code, l)}
      l == CHOOSE k \in ends : \A n \in ends : k <= n
  IN IF ends = {} THEN <<>> ELSE <<huffval[prefix(l) + valoffset(code, l)], l>>

(* The codes made for any counts are legal, are those of the symbols that  *)
(* occur, shortened or not (jchuff.c:823), and read back: each code gives  *)
(* its symbol, whatever bits follow; and where none had to be shortened a  *)
(* symbol that occurs more often has no longer code.                       *)
CodesDecode ==
  making = "made" =>
    LET size == huffsize  code == huffcode IN
    /\ Len(size) = Len(huffval) /\ Total = Len(huffval)
    /\ Legal(size, code)
    /\ {huffval[p] : p \in DOMAIN huffval} = {s \in DOMAIN count : count[s] > 0}
    /\ \A p \in DOMAIN size :
         /\ size[p] \in 1 .. MaxLength
         /\ jpeg_huff_decode(code, code[p], size[p]) = <<huffval[p], size[p]>>
         /\ size[p] < MaxLength =>
              jpeg_huff_decode(code, 2 * code[p] + 1, size[p] + 1) = <<huffval[p], size[p]>>
    /\ (\A s \in Every : codesize[s] <= MaxLength) =>
         \A p, q \in DOMAIN size : count[huffval[p]] > count[huffval[q]] => size[p] <= size[q]
=============================================================================
