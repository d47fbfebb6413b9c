---------------------------- MODULE Framebuffer ----------------------------
(***************************************************************************)
(* The cell grid of src/src/framebuffer.rs: the screen that the bytes of   *)
(* the server draw on, and that the client repaints on the user's          *)
(* terminal.  A terminal is the same thing but for its widths: xterm.js    *)
(* gives one column to the supplementary wide glyphs the server gives two. *)
(*                                                                         *)
(* A position is <<column, row>>.  A glyph is a name; what a glyph's bytes *)
(* are is left to AnsiApply.  Sharing of rows and memory accounting are    *)
(* left out; the limit of a grapheme counts glyphs instead of bytes.       *)
(***************************************************************************)
EXTENDS Integers, Sequences, FiniteSets, SequencesExt, TLC

CONSTANT GraphemeLimit     \* MAX_GRAPHEME_BYTES

ASSUME FramebufferAssumption == GraphemeLimit \in Nat \ {0}

-----------------------------------------------------------------------------
(***************************************************************************)
(* Glyphs and cells.  A colour is -1 (default), an index below 256, or 256 *)
(* plus an RGB value; on is the set of SGR numbers of the styles in force. *)
(***************************************************************************)

Marks == {"accent", "zwj"}              \* combining: no width of their own
Supplementary == {"emoji"}              \* wide for the server, narrow for xterm
ServerWide == {"cjk", "emoji"}
Glyphs == {" ", "a", "b", "nbsp", "fffd"} \cup ServerWide

DefaultColor == -1
DefaultAttr == [on |-> {}, fg |-> DefaultColor, bg |-> DefaultColor]

Erased(bg) ==
    [ch |-> " ", marks |-> << >>, width |-> 1, attr |-> [DefaultAttr EXCEPT !.bg = bg],
     link |-> 0, empty |-> TRUE]

BlankCell == Erased(DefaultColor)
WideContinuation(bg) == [Erased(bg) EXCEPT !.width = 0]

\* content_len: the blank before a mark on an empty cell does not count.
ContentLen(c) ==
    IF c.empty THEN 0
    ELSE Len(c.marks) + IF c.ch = "nbsp" /\ c.marks # << >> THEN 0 ELSE 1

-----------------------------------------------------------------------------
(***************************************************************************)
(* The framebuffer.  comb is the set of at most one position that receives *)
(* the next mark; wrap is next_print_will_wrap; gen is scroll_generation.  *)
(* "none" is a title, icon name, clipboard or link that was never set.     *)
(***************************************************************************)

Grid(size) == (0 .. size[1] - 1) \X (0 .. size[2] - 1)

NewFramebuffer(size, wide) ==
    [size |-> size, wide |-> wide, cell |-> [pos \in Grid(size) |-> BlankCell],
     cur |-> <<0, 0>>, visible |-> TRUE, insert |-> FALSE, autowrap |-> TRUE,
     origin |-> FALSE, reverse |-> FALSE, paste |-> FALSE, mouse |-> 0,
     focus |-> FALSE, encoding |-> 0, top |-> 0, bottom |-> size[2] - 1,
     tabs |-> {x \in 1 .. size[1] - 1 : x % 8 = 0}, bells |-> 0,
     icon |-> "none", title |-> "none", clip |-> "none", links |-> << >>,
     link |-> 0, comb |-> {<<0, 0>>}, wrap |-> FALSE, gen |-> 0]

LastCol(fb) == fb.size[1] - 1
LastRow(fb) == fb.size[2] - 1

\* The members of a set of numbers in order.  (The library's sort enumerates
\* all sequences.)
Ascending(S) ==
    [i \in 1 .. Cardinality(S) |-> CHOOSE n \in S : Cardinality({k \in S : k < n}) = i - 1]

Clamp(n, low, high) == IF n < low THEN low ELSE IF n > high THEN high ELSE n

\* display_cell_width
CellWidth(fb, ch) == IF ch \in Marks THEN 0 ELSE IF ch \in fb.wide THEN 2 ELSE 1

\* The width of the cell at a position, -1 outside of the grid.
WidthAt(fb, pos) == IF pos \in DOMAIN fb.cell THEN fb.cell[pos].width ELSE -1

Beside(pos, n) == <<pos[1] + n, pos[2]>>

\* A movement of the cursor; a deferred wrap is forgotten (cur_x, cur_y,
\* next_print_will_wrap, retarget_combining_to_cursor).
MoveCursor(fb, x, y) ==
    [fb EXCEPT !.cur = <<x, y>>, !.wrap = FALSE, !.comb = {<<x, y>>}]

\* resize: what fits is kept, the margins are opened.
ResizeGrid(fb, size) ==
    IF size = fb.size THEN fb
    ELSE [fb EXCEPT
        !.size = size,
        !.cell = [pos \in Grid(size) |-> IF pos \in DOMAIN fb.cell THEN fb.cell[pos] ELSE BlankCell],
        !.cur  = <<Clamp(@[1], 0, size[1] - 1), Clamp(@[2], 0, size[2] - 1)>>,
        !.top  = 0, !.bottom = size[2] - 1,
        !.tabs = (@ \cap 0 .. size[1] - 1)
                     \cup {x \in fb.size[1] .. size[1] - 1 : x > 0 /\ x % 8 = 0},
        !.comb = @ \cap Grid(size),
        !.wrap = FALSE, !.gen = @ + 1]

-----------------------------------------------------------------------------
(***************************************************************************)
(* Tab stops and rows.                                                     *)
(***************************************************************************)

\* The count-th stop after or before the cursor, or the border of the row.
NextTabStop(fb, count) ==
    LET after == Ascending({x \in fb.tabs : x > fb.cur[1]})
    IN  IF count <= Len(after) THEN after[count] ELSE LastCol(fb)

PreviousTabStop(fb, count) ==
    LET before == Ascending({x \in fb.tabs : x < fb.cur[1]})
    IN  IF count <= Len(before) THEN before[Len(before) + 1 - count] ELSE 0

FillAll(fb, blank) == [fb EXCEPT !.cell = [pos \in DOMAIN @ |-> blank]]

\* erase_row_range: the columns from start up to, not including, end; a wide
\* glyph of which one half is erased loses the other too.
EraseRowRange(fb, y, start, end, blank) ==
    LET split(x) == WidthAt(fb, <<x - 1, y>>) = 2 /\ WidthAt(fb, <<x, y>>) = 0
        stop == Clamp(end, 0, fb.size[1])
        from == IF split(start) THEN start - 1 ELSE start
        to   == IF split(stop) THEN stop + 1 ELSE stop
    IN  IF y > LastRow(fb) \/ start >= end \/ start > LastCol(fb) THEN fb
        ELSE [fb EXCEPT !.cell = [pos \in DOMAIN @ |->
                 IF pos[2] = y /\ pos[1] \in from .. to - 1 THEN blank ELSE @[pos]]]

\* scroll_rows_up, insert_blank_rows: rows top to bottom move up by lines, or
\* down when lines is negative.
ShiftRows(fb, top, bottom, lines, blank) ==
    [fb EXCEPT !.cell = [pos \in DOMAIN @ |->
        IF pos[2] \notin top .. bottom THEN @[pos]
        ELSE IF pos[2] + lines \in top .. bottom THEN @[<<pos[1], pos[2] + lines>>]
        ELSE blank]]

\* Faulty: rows move, and predictions are not told.
ScrollSilently(fb, top, bottom, lines, blank) == ShiftRows(fb, top, bottom, lines, blank)

\* scroll_up_region, and the scrolling of RI, IL and DL.
ScrollRegion(fb, top, bottom, lines, blank) ==
    [ShiftRows(fb, top, bottom, lines, blank) EXCEPT !.gen = @ + 1]

-----------------------------------------------------------------------------
(***************************************************************************)
(* Glyphs put on the grid.                                                 *)
(***************************************************************************)

\* put_rune_with_hyperlink: a wide glyph owns the column to its right, and
\* one that loses either of its columns is gone.
PutRune(fb, pos, ch, attr) ==
    LET w == CellWidth(fb, ch)
        width(n) == WidthAt(fb, Beside(pos, n))
        background(n) == fb.cell[Beside(pos, n)].attr.bg
        owner == IF width(0) = 0 /\ width(-1) = 2
                 THEN Beside(pos, -1) :> Erased(attr.bg) ELSE << >>
        uncovered == IF w = 2 /\ width(1) = 2 /\ width(2) = 0
                     THEN Beside(pos, 2) :> Erased(background(2)) ELSE << >>
        next == IF w = 2 /\ width(1) # -1
                THEN Beside(pos, 1) :> WideContinuation(attr.bg)
                ELSE IF w # 2 /\ width(0) = 2 /\ width(1) = 0
                THEN Beside(pos, 1) :> Erased(background(1)) ELSE << >>
        cell == [ch |-> ch, marks |-> << >>, width |-> w, attr |-> attr,
                 link |-> fb.link, empty |-> FALSE]
    IN  [fb EXCEPT !.cell = pos :> cell @@ owner @@ uncovered @@ next @@ @,
                   !.comb = {pos}]

\* The cursor after w columns from the cursor were written.
Advance(fb, w, wraps) ==
    IF fb.cur[1] + w >= fb.size[1]
    THEN [fb EXCEPT !.cur = <<LastCol(fb), @[2]>>, !.wrap = wraps]
    ELSE [fb EXCEPT !.cur = Beside(@, w), !.wrap = FALSE]

\* try_extend_active_grapheme, for a mark.  On an empty cell it becomes a
\* cell of its own.
ExtendGrapheme(fb, mark) ==
    IF fb.comb = {} THEN fb
    ELSE LET pos == CHOOSE p \in fb.comb : TRUE
             c   == fb.cell[pos]
         IN  IF c.empty
             THEN Advance([fb EXCEPT !.cell[pos] =
                     [@ EXCEPT !.ch = "nbsp", !.width = 1, !.marks = <<mark>>, !.empty = FALSE]],
                     1, TRUE)
             ELSE IF ContentLen(c) >= GraphemeLimit THEN fb
             ELSE [fb EXCEPT !.cell[pos].marks = Append(@, mark)]

-----------------------------------------------------------------------------
(***************************************************************************)
(* Hyperlinks: a cell holds the number of its link in links.               *)
(***************************************************************************)

LinkName(fb, id) == IF id \in DOMAIN fb.links THEN fb.links[id] ELSE "none"

\* set_active_hyperlink
SetActiveHyperlink(fb, name) ==
    IF name = "none" THEN [fb EXCEPT !.link = 0]
    ELSE IF \E i \in DOMAIN fb.links : fb.links[i] = name
    THEN [fb EXCEPT !.link = CHOOSE i \in DOMAIN fb.links : fb.links[i] = name]
    ELSE [fb EXCEPT !.links = Append(@, name), !.link = Len(fb.links) + 1]

\* Faulty: the link of the pen is not counted.
ReferencedByCells(fb) == {fb.cell[pos].link : pos \in DOMAIN fb.cell}

Referenced(fb) == {fb.cell[pos].link : pos \in DOMAIN fb.cell} \cup {fb.link}

\* compact_hyperlinks: links nothing refers to any more are dropped, and the
\* others are renumbered.
CompactHyperlinks(fb) ==
    LET used == Referenced(fb) \cap DOMAIN fb.links
        kept == Ascending(used)
        renumbered(id) == IF id \in used THEN CHOOSE k \in DOMAIN kept : kept[k] = id ELSE 0
    IN  [fb EXCEPT !.links = [k \in DOMAIN kept |-> fb.links[kept[k]]],
                   !.link  = renumbered(@),
                   !.cell  = [pos \in DOMAIN @ |-> [@[pos] EXCEPT !.link = renumbered(@)]]]
=============================================================================
