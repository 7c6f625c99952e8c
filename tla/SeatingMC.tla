------------------------------ MODULE SeatingMC ------------------------------
(* A panel of four by two, two full windows and the narrow one, an engine of
   three layers and a reach of two, windows that resize by three.           *)
EXTENDS Seating

MCWindows == <<0, 1, 2>>
Rows(w, fmt, scale, layouts, turns) ==
    <<[window |-> w, option |-> "formats", arg |-> fmt],
      [window |-> w, option |-> "blend", arg |-> {}],
      [window |-> w, option |-> "size", arg |-> <<4, 1, 4, 1>>],
      [window |-> w, option |-> "scale", arg |-> <<scale, scale, scale, scale>>],
      [window |-> w, option |-> "layout", arg |-> layouts],
      [window |-> w, option |-> "invert", arg |-> turns]>>
AllTurns == {"hflip", "vflip", "rotate90"}
Full(w) == Rows(w, {"R8G8B8A8", "B5G6R5", "YCbCr420SP"}, 3, {"rows", "blocks"}, AllTurns)
MCTable == Full(0) \o Full(1) \o Rows(2, {"R8G8B8A8"}, 1, {"rows"}, {})

Lft == Rect(0, 0, 2, 2)
Rgt == Rect(2, 0, 4, 2)
All == Rect(0, 0, 4, 2)
Dot == Rect(1, 0, 2, 1)

Layer(r) ==
    [id |-> 0, frame |-> r, crop |-> Rect(0, 0, WidthOf(r), HeightOf(r)), w |-> WidthOf(r), h |-> HeightOf(r),
     turn |-> {}, phase |-> FALSE, format |-> "ABGR8888", layout |-> "blocks", handle |-> TRUE,
     blend |-> "premult", faded |-> FALSE, encoding |-> "undefined", range |-> "limited",
     chroma |-> TRUE, live |-> FALSE, usable |-> TRUE, cursor |-> FALSE]
Drawing(l) == [l EXCEPT !.live = TRUE]
Turned(l, t) == [l EXCEPT !.turn = t]

MCTarget == [Layer(All) EXCEPT !.id = 50]

\* Layers alike but for where they are, whether they draw and their turn.
Plain == {Layer(Lft), Drawing(Layer(Lft)), Drawing(Layer(Rgt)), Layer(All), Layer(Rgt),
          Turned(Layer(Lft), {"hflip"}), Drawing(Turned(Layer(Rgt), {"hflip"}))}
Few == {Layer(Lft), Drawing(Layer(Rgt)), Drawing(Layer(Lft)), Layer(All)}

\* Layers of every sort the planes tell apart.
Sorts == {Layer(Lft), Drawing(Layer(Rgt)),
          [Layer(Lft) EXCEPT !.format = "NV12", !.encoding = "709"],
          [Layer(Rgt) EXCEPT !.crop = Rect(0, 0, 1, 1)],
          [Layer(Rgt) EXCEPT !.phase = TRUE, !.faded = TRUE],
          [Layer(Lft) EXCEPT !.layout = "rows"],
          Turned(Layer(Rgt), {"rotate90"}),
          Turned([Layer(Lft) EXCEPT !.layout = "rows"], {"hflip", "rotate90"}),
          Turned([Layer(Rgt) EXCEPT !.crop = Rect(0, 0, 1, 2)], {"vflip", "rotate90"}),
          Turned(Layer(Rect(0, 0, 2, 1)), {"vflip"}),
          [Turned(Layer(Rect(1, 0, 2, 2)), {"rotate90", "hflip", "vflip"}) EXCEPT !.crop = Rect(0, 0, 2, 1)],
          [Layer(Rect(0, 0, 3, 1)) EXCEPT !.crop = Rect(0, 0, 1, 1), !.handle = FALSE],
          [Layer(Rect(0, 0, 3, 1)) EXCEPT !.crop = Rect(0, 0, 1, 1)],
          [Layer(Lft) EXCEPT !.layout = "compressed"],
          [Layer(Lft) EXCEPT !.format = "YUYV"],
          [Layer(Dot) EXCEPT !.cursor = TRUE, !.layout = "rows"],
          [Layer(Dot) EXCEPT !.cursor = TRUE, !.blend = "coverage"],
          [Layer(Rgt) EXCEPT !.frame = NoRect, !.crop = NoRect]}

Members == {[id |-> 0, live |-> l, frame |-> f, turn |-> t] :
              l \in BOOLEAN, f \in {Lft, Rgt}, t \in {0}}
           \cup {[id |-> 0, live |-> TRUE, frame |-> NoRect, turn |-> 0],
                 [id |-> 0, live |-> FALSE, frame |-> Rgt, turn |-> 4],
                 [id |-> 0, live |-> TRUE, frame |-> Lft, turn |-> 4]}

Piece(f, v, o, r, k) ==
    [id |-> 0, frame |-> f, visible |-> v, opaque |-> o, corner_crop |-> f, radius |-> r, keep |-> k]
Pieces3 == {Piece(f, {}, o, 0, FALSE) : f \in {Lft, Rect(1, 0, 3, 1), All, Rect(1, 1, 4, 2)}, o \in BOOLEAN}
           \cup {Piece(All, {Dot, Rgt}, TRUE, 0, FALSE), Piece(All, {}, TRUE, 1, FALSE),
                 Piece(NoRect, {}, TRUE, 0, FALSE), Piece(Lft, {}, TRUE, 0, TRUE)}

Setup(aspect, kinds, most, client, vic, unit, offered, still) ==
    [aspect |-> aspect, kinds |-> kinds, most |-> most, client |-> client, vic |-> vic, unit |-> unit,
     offered |-> offered, still |-> still]
MCSetups ==
    {Setup("frame", "plain", 4, FALSE, TRUE, TRUE, TRUE, FALSE),
     Setup("frame", "plain", 4, FALSE, TRUE, FALSE, TRUE, TRUE),
     Setup("frame", "few", 4, TRUE, TRUE, TRUE, TRUE, FALSE),
     Setup("frame", "sorts", 3, FALSE, TRUE, TRUE, TRUE, TRUE),
     Setup("frame", "sorts", 3, FALSE, TRUE, TRUE, TRUE, FALSE),
     Setup("frame", "sorts", 2, TRUE, FALSE, FALSE, TRUE, FALSE),
     Setup("frame", "sorts", 2, TRUE, FALSE, TRUE, TRUE, FALSE),
     Setup("group", "members", 5, FALSE, TRUE, TRUE, TRUE, FALSE),
     Setup("occlusion", "pieces", 3, FALSE, TRUE, TRUE, TRUE, FALSE)}

MCKinds(s) == CASE s.kinds = "plain" -> Plain [] s.kinds = "few" -> Few [] s.kinds = "sorts" -> Sorts
                [] s.kinds = "members" -> Members [] s.kinds = "pieces" -> Pieces3
MCMaxLayers(s) == s.most
MCClientFrames == {Lft, All}
=============================================================================
