------------------------------- MODULE Base64 -------------------------------
(***************************************************************************)
(* The strings a marker is kept in while a photo is edited                 *)
(* (src/lib/wxmisc/str64.cpp): three bytes become four characters.  A      *)
(* character is its value 0..63, Pad stands for `=' and Hash for `#', the  *)
(* separator of the markers of a kind, which is not a base64 character.    *)
(***************************************************************************)
LOCAL INSTANCE Integers
LOCAL INSTANCE Sequences

Pad == 64
Hash == 65

At(s, i) == IF i <= Len(s) THEN s[i] ELSE 0

(* One turn of the loop of encode_base64, for the bytes from k on. *)
EncodedGroup(s, k) ==
  LET b1 == At(s, k)  b2 == At(s, k + 1)  b3 == At(s, k + 2) IN
  << b1 \div 4,
     (b1 % 4) * 16 + b2 \div 16,
     IF k + 1 <= Len(s) THEN (b2 % 16) * 4 + b3 \div 64 ELSE Pad,
     IF k + 2 <= Len(s) THEN b3 % 64 ELSE Pad >>
EncodeBase64(s) ==
  LET encoded[k \in 0 .. (Len(s) + 2) \div 3] ==
        IF k = 0 THEN <<>> ELSE encoded[k - 1] \o EncodedGroup(s, 3 * k - 2)
  IN encoded[(Len(s) + 2) \div 3]

(* decode() of a padding is the value of the last character. *)
Value(c) == IF c = Pad THEN 63 ELSE c
DecodedGroup(t, k) ==
  LET c3 == At(t, k + 2)  c4 == At(t, k + 3)
      v1 == Value(t[k])  v2 == Value(At(t, k + 1))  v3 == Value(c3)  v4 == Value(c4)
  IN <<(v1 * 4 + v2 \div 16) % 256>>
     \o (IF c3 # Pad THEN <<((v2 % 16) * 16 + v3 \div 4) % 256>> ELSE <<>>)
     \o (IF c4 # Pad THEN <<(v3 % 4) * 64 + v4>> ELSE <<>>)
DecodedGroups(t) ==
  LET decoded[k \in 0 .. (Len(t) + 3) \div 4] ==
        IF k = 0 THEN <<>> ELSE decoded[k - 1] \o DecodedGroup(t, 4 * k - 3)
  IN decoded[(Len(t) + 3) \div 4]
(* What is not a base64 character is dropped first, a separator too, so    *)
(* that the markers of a kind decode to one text. *)
DecodeBase64(s) == DecodedGroups(SelectSeq(s, LAMBDA c : c <= Pad))
=============================================================================
