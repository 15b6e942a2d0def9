--------------------------- MODULE MCPictureParts ---------------------------
(* An instance of PictureParts for TLC.                                    *)
EXTENDS PictureParts

(* JpegTran: frames that end inside an iMCU on either side, on both, on    *)
(* neither; a component, or two with other factors; three and four, whose  *)
(* colours the markers decide, with an Exif marker first or not.           *)
App1(kind, size) == [kind |-> kind, size |-> size]
Exif == App1("Exif", <<1, 1>>)
Frame(w, h, fs, ms) == [width |-> w, height |-> h, factors |-> fs, markers |-> ms]
MCFactors == {<< <<1, 1>> >>, << <<2, 2>> >>, << <<2, 1>>, <<1, 1>> >>,
              << <<1, 2>>, <<1, 1>> >>, << <<2, 2>>, <<1, 1>> >>}
MCFrames ==
  {Frame(w, h, f, <<Exif, App1("COM", <<>>), App1("JFIF", <<>>)>>) :
     w \in {3, 4}, h \in {1, 5}, f \in MCFactors}
  \cup {Frame(6, 6, f, <<App1("JFIF", <<>>), App1("COM", <<>>), Exif>>) : f \in MCFactors}
  \cup {Frame(3, 2, [c \in 1 .. n |-> <<1, 1>>], ms) :
           n \in {3, 4}, ms \in {<<Exif, App1("COM", <<>>)>>, <<Exif, App1("Adobe", <<>>)>>,
                               <<App1("COM", <<>>), App1("Adobe", <<>>), Exif>>}}
Region(w, h, x, y) == [width |-> w, height |-> h, x |-> x, y |-> y]
MCCrops == {Region(2, 2, 1, 1), Region(1, 3, 2, 0), Region(3, 1, 1, 4)}

(* ScanCoding: blocks of six coefficients, runs of two.                    *)
Block(dc, ac) == [k \in 0 .. 5 |-> IF k = 0 THEN dc ELSE ac[k]]
Comps(blocks, sampling, tbl_no) == [blocks |-> blocks, sampling |-> sampling, tbl_no |-> tbl_no]
Few == {Block(-3, <<0, 0, 0, 0, 0>>), Block(2, <<5, 0, 0, 0, -2>>), Block(0, <<-6, 1, 0, 3, 0>>)}
Rich == {Block(0, <<a, 0, b, 0, c>>) : a \in {0, -7}, b \in {4, -1}, c \in {0, 6}}
MCPictures ==
  {Comps(<< <<a, b, c>> >>, <<1>>, <<0>>) : a, b, c \in Few}
  \cup {Comps(<< <<a, b>> >>, <<2>>, <<0>>) : a \in Rich, b \in Few}
  \cup {Comps(<< <<a, b>>, <<c>>, <<b>> >>, <<2, 1, 1>>, <<0, 1, 1>>) : a, b, c \in Few}
  \cup {Comps(<< <<a>>, <<c>>, <<b>>, <<a>>, <<c>> >>, <<1, 1, 1, 1, 1>>, <<0, 0, 1, 1, 1>>) :
          a, b, c \in {Block(2, <<5, 0, 0, 0, -2>>), Block(0, <<-6, 1, 0, 3, 0>>)}}
ScanOf(comps, x) == [comps |-> comps, Ss |-> x[1], Se |-> x[2], Ah |-> x[3], Al |-> x[4]]
Some == {<<0, 0, 0, 0>>, <<0, 0, 0, 2>>, <<0, 0, 2, 1>>, <<1, 5, 0, 1>>, <<1, 5, 1, 0>>,
         <<4, 5, 0, 1>>}
MCScripts ==
  {<<ScanOf(<<1>>, a), ScanOf(<<1>>, b), ScanOf(<<1>>, c)>> : a, b, c \in Some}
    \cup {<<ScanOf(<<1, 2>>, <<0, 5, 0, 0>>), ScanOf(<<3>>, <<0, 5, 0, 0>>)>>}

(* DecodeRows: pictures that end anywhere in an iMCU row, each kind of     *)
(* upsampling, fractions of the full height.                               *)
DecodedAs(h, factors) == [height |-> h, comps |-> factors, wide |-> TRUE]
MCDecoded ==
  {DecodedAs(h, f) : h \in {1, 3, 8, 9, 16, 19},
     f \in {<< <<1, 1>> >>, << <<2, 2>>, <<1, 1>>, <<1, 1>> >>, << <<2, 1>>, <<1, 1>>, <<1, 1>> >>,
            << <<1, 2>>, <<1, 1>> >>, << <<2, 2>>, <<2, 1>> >>, << <<3, 2>>, <<2, 1>> >>,
            << <<4, 4>>, <<2, 2>>, <<1, 1>> >>}}

(* EncodeRows: the same for the compressor, with dummy blocks on the right.*)
EncodedAs(h, factors) == [height |-> h, width |-> 5, comps |-> factors]
MCEncoded ==
  {EncodedAs(h, f) : h \in {1, 2, 4, 7, 10},
     f \in {<< <<1, 1>> >>, << <<2, 2>>, <<1, 1>> >>, << <<2, 1>>, <<1, 1>> >>,
            << <<1, 2>>, <<1, 1>> >>, << <<2, 2>>, <<2, 1>> >>, << <<1, 2>> >>,
            << <<1, 1>>, <<3, 2>> >>}}

(* StreamHeaders: two datastreams, with one scan, one for each component,  *)
(* or a progression; a marker kept up to its sixteenth byte.               *)
Asked(script, optimize, all, density, interval, rows) ==
  [script |-> script, optimize |-> optimize, all_tables |-> all, density |-> density,
   restart_interval |-> interval, restart_in_rows |-> rows]
MCRequests == {Asked("one", FALSE, TRUE, <<1, 300, 300>>, 2, 0),
               Asked("each", FALSE, FALSE, <<0, 1, 1>>, 0, 1),
               Asked("progression", FALSE, FALSE, <<0, 1, 1>>, 0, 0)}
MCExtras == {[m |-> "APP1", length |-> 20, ours |-> FALSE]}
MCLimits == {[COM |-> 3, APPn |-> 16]}

(* CoefController: two components, in one scan, in one scan each, in a     *)
(* progression whose scans leave blocks out; sizes that leave dummies.     *)
Arriving(cs, ss, se, al) == [comps |-> cs, Ss |-> ss, Se |-> se, Al |-> al]
ScannedAs(w, h, factors, progressive, scans) ==
  [width |-> w, height |-> h, factors |-> factors, progressive |-> progressive, scans |-> scans]
MCScanned == {
  ScannedAs(3, 3, << <<2, 2>>, <<1, 1>> >>, FALSE, <<Arriving(<<1, 2>>, 0, 2, 0)>>),
  ScannedAs(2, 3, << <<1, 2>>, <<1, 1>> >>, FALSE, <<Arriving(<<1>>, 0, 2, 0), Arriving(<<2>>, 0, 2, 0)>>),
  ScannedAs(2, 2, << <<2, 1>>, <<1, 1>> >>, TRUE,
          <<Arriving(<<1, 2>>, 0, 0, 1), Arriving(<<1>>, 1, 1, 0), Arriving(<<1, 2>>, 0, 0, 0),
            Arriving(<<1>>, 2, 2, 0)>>),
  ScannedAs(1, 3, << <<1, 2>> >>, TRUE,
          <<Arriving(<<1>>, 0, 0, 1), Arriving(<<1>>, 0, 0, 0), Arriving(<<1>>, 1, 2, 0)>>)}

(* BlockTransforms: flat blocks, single dots, checks, ramps and textures;  *)
(* tables that round nothing, little, and much.                            *)
Samples(f(_, _), smooth) ==
  [samples |-> [r \in 0 .. 7 |-> [c \in 0 .. 7 |-> f(r, c)]], smooth |-> smooth]
Texture(a, b, r, c) == r * r * a + c * c * b + r * c * a * b + 17 * c
MCBlocks ==
  {Samples(LAMBDA r, c : v, TRUE) : v \in {0, 1, 127, 128, 255}}
  \cup {Samples(LAMBDA r, c : IF r = y /\ c = x THEN 250 ELSE 5, FALSE) : y \in {0, 3, 7}, x \in {0, 5}}
  \cup {Samples(LAMBDA r, c : IF r = y /\ c = x THEN 0 ELSE 255, FALSE) : y \in {1, 6}, x \in {2, 7}}
  \cup {Samples(LAMBDA r, c : IF (r \div n + c \div n) % 2 = 0 THEN hi ELSE 255 - hi, FALSE) :
           n \in {1, 2, 4}, hi \in {255, 200}}
  \cup {Samples(LAMBDA r, c : 20 + a * r + b * c, TRUE) : a, b \in {0, 3, 13}}
  \cup {Samples(LAMBDA r, c : 128 + (Texture(a, b, r, c) % 97) - 48, FALSE) : a, b \in {7, 31}}
  \cup {Samples(LAMBDA r, c : Texture(a, b, r, c) % 256, FALSE) : a, b \in {7, 31}}
Steps(f(_, _)) == [r \in 0 .. 7 |-> [c \in 0 .. 7 |-> f(r, c)]]
MCTables == {Steps(LAMBDA r, c : q) : q \in {1, 16, 255}} \cup {Steps(LAMBDA r, c : 9 + 4 * r + 3 * c)}

(* The quantizers: flat pictures, gradients and checks, with a few colours *)
(* and with as many as an index can name.                                  *)
Mapped(n, f(_, _), h, w) == [colors |-> n, rows |-> [r \in 1 .. h |-> [k \in 1 .. w |-> f(r, k)]]]
MCOnePass ==
  {Mapped(n, LAMBDA r, k : <<v>>, 3, 4) : n \in {2, 3, 16, 256}, v \in {0, 1, 100, 255}}
  \cup {Mapped(n, LAMBDA r, k : <<v>>, 2, 1) : n \in {1, 5}, v \in {0, 100, 255}}
  \cup {Mapped(n, LAMBDA r, k : <<(r * 70 + k * 33) % 256, (r * k * 91) % 256, 255 - 40 * k>>, 2, 3) :
           n \in {7, 8, 16, 27, 200}}
  \cup {Mapped(n, LAMBDA r, k : IF (r + k) % 2 = 0 THEN <<0, 255, 128>> ELSE <<255, 0, 127>>, 3, 2) :
           n \in {8, 12, 256}}

MCTwoPass == {
  Mapped(7, LAMBDA r, k : <<1, 1, 1>>, 1, 1),
  Mapped(8, LAMBDA r, k : <<10 * r, 10 * k, 3>>, 2, 3),
  Mapped(8, LAMBDA r, k : <<(r * 37 + k * 21) % 97, (r * k * 41) % 131, 200 - 13 * k * r>>, 2, 3),
  Mapped(8, LAMBDA r, k : <<255 - 255 * (k \div 3), 255 * (r - 1), 255 * (k % 2)>>, 2, 4)}
MCColormaps ==
  {[k \in 1 .. 8 |-> <<255 * (k % 2), 255 * ((k \div 2) % 2), 255 * ((k \div 4) % 2)>>],
   [k \in 1 .. 9 |-> <<28 * k, 28 * k, 28 * k>>]}
=============================================================================
