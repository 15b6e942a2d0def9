--------------------------- MODULE MCWindowParts ---------------------------
(* An instance of WindowParts for TLC.                                     *)
EXTENDS WindowParts

(* The selection: values a configuration cannot write.                     *)
SmallImages == {<<2, 2>>, <<2, 1>>}
SmallZooms == {1, 2}
SmallRatios == {<<0, 1>>, <<3, 2>>}
SmallFixedSizes == {<<2, 1>>}
SmallZones == {<<2, 1>>}
SmallSelections == {Rect(1, 0, 1, 1)}
SomeOrientations == {-1, 1}
SmallPoints == {<<1, 1>>, <<-1, 3>>}
SmallKeySteps == {1}

(* The line: a photo larger than a handle, and a click outside of it.      *)
LongImages == {<<2, 1>>}
WholeSelections == {Rect(0, 0, 2, 1)}
FarPoints == {<<0, 1>>, <<3, 0>>}

(* The markers: bodies are bytes, a marker keeps three of them and counts  *)
(* its length modulo 8.                                                    *)
App(kind, body) == [kind |-> kind, body |-> body]
Coded == <<App("DQT", <<>>), App("SOF", <<>>), App("SOS", <<>>)>>
MCPhotos ==
  {<<>>,
   <<App("APP0", <<74>>), App("APP1", <<1, 2>>), App("APP1", <<3, 4, 5, 6>>)>> \o Coded,
   <<App("APP10", <<7>>), App("APP11", <<8>>), App("COM", <<65>>), App("COM", <<66, 67>>)>> \o Coded,
   <<App("APP1", <<255, 0>>), App("COM", <<65, 66, 67, 68>>)>> \o Coded}
MCTexts == {<<>>, <<65>>, <<66, 67>>, <<65, 66, 67, 68>>, <<65, 66, 67, 68, 69, 70, 71, 72>>}

(* The searches: curves that rise anywhere, at once, or beyond either end. *)
MCCurves == {c \in (0 .. 100) \X {0, 5, 80, 100} : c[1] <= c[2] + 1}
              \cup {<<-9, -3>>, <<-4, 3>>, <<97, 130>>, <<120, 140>>}
MCRatioCurves == {<<a * 100, a * 100 + b>> : a \in 0 .. 10, b \in {-1, 0, 40}}
NoCurve == <<>>
MCPictures == {<<3, 2>>, <<2, 3>>}
MCSizes == {0, 6, 8, 50}
MCBoxRatios == {<<4, 3>>, <<1, 2>>}

(* The parts that are not at work begin in one of their initial states,    *)
(* and the line between two corners or none.                               *)
MCInit ==
  /\ PartsInit
  /\ view.image = <<2, 2>> /\ view.zoom = 1
  /\ part # "line" => l_begin = {} /\ l_view.zoom = 1
  /\ <<l_begin, l_end>> \in {<<{}, {}>>, <<{"top", "right"}, {"bottom", "left"}>>}
MCSpec == MCInit /\ [][PartsNext]_partsVars /\ PartsFairness
=============================================================================
