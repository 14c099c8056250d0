------------------------------- MODULE Sixel -------------------------------
(***************************************************************************)
(* The canvas of a chart as pixels, and their encoding for a terminal:     *)
(* bands of six rows, one pass over a band for each color that occurs in   *)
(* it, and in a pass runs of equal columns.  A column is the set of its    *)
(* rows, the two ways to write a run are one, and the palette is left out. *)
(***************************************************************************)
EXTENDS Chart

Rows == 0..5

\* fill_rect, clipped to the canvas, over a canvas of background.
Covers(rect, x, y) ==
    x \in rect.x..(rect.x + rect.w - 1) /\ y \in rect.y..(rect.y + rect.h - 1)

\* Canvas: a pixel's color in row-major order, the last drawn one.
Paint(rects) ==
    LET X(i) == (i - 1) % Width
        Y(i) == (i - 1) \div Width
        Color(i) ==
            LET last == SelectLastInSeq(rects, LAMBDA r : Covers(r, X(i), Y(i)))
            IN  IF last = 0 THEN Background ELSE rects[last].color
    IN  Listed([i \in 1..(Width * Height) |-> Color(i)])

\* bcols: the rows of a band that have the color, at each x.
Columns(px, band, color) ==
    Listed([x \in 1..Width |->
               {r \in Rows : /\ 6 * band + r < Height
                             /\ px[Width * (6 * band + r) + x] = color}])

\* The runs of a pass that are written, and the one that is being counted, as a
\* sequence.
RunsOf(columns) ==
    LET after[n \in 0..Len(columns)] ==
            IF n = 0 THEN [out |-> <<>>, run |-> <<>>]
            ELSE LET s == after[n - 1]
                     Of(count) == <<[rows |-> columns[n], count |-> count]>>
                 IN  IF s.run # <<>> /\ s.run[1].rows = columns[n]
                     THEN [out |-> s.out, run |-> Of(s.run[1].count + 1)]
                     ELSE [out |-> s.out \o s.run, run |-> Of(1)]
    IN  after[Len(columns)]

\* Seeded fault: the last run of a pass is not written.
RunsUnflushed(columns) == RunsOf(columns).out

\* The run-length encoding of a pass.
Runs(columns) == RunsOf(columns).out \o RunsOf(columns).run

\* encode_sixel: for each band its passes, [color, runs], in the palette's order.
Passes(px, band) ==
    [c \in 1..11 |-> [color |-> c - 1, columns |-> Columns(px, band, c - 1)]]

Sent(px, band) ==
    LET passes == Listed(Passes(px, band))
        used == {c \in 1..11 : \E x \in 1..Width : passes[c].columns[x] # {}}
        sent == RowsAt(passes, used)
    IN  Listed([p \in DOMAIN sent |-> [color |-> sent[p].color, runs |-> Runs(sent[p].columns)]])

EncodeSixel(px) == Listed([band \in 1..((Height + 5) \div 6) |-> Sent(px, band - 1)])
=============================================================================
