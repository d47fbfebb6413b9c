----------------------------- MODULE FrameDiff -----------------------------
(***************************************************************************)
(* Framebuffer::diff of src/src/framebuffer.rs: the bytes that turn one    *)
(* frame on the user's terminal into the next.  No frame at all is one     *)
(* without any cell.                                                       *)
(***************************************************************************)
EXTENDS AnsiApply

NoFrame == NewFramebuffer(<<0, 0>>, ServerWide)

Csi(tokens) == <<"esc", "[">> \o tokens
Osc(prefix, value) == <<"esc", "]", prefix, value, "bel">>
Mode(n, on) == Csi(<<"?", ToString(n), IF on THEN "h" ELSE "l">>)
Cup(pos) == Csi(<<ToString(pos[2] + 1), ";", ToString(pos[1] + 1), "H">>)

\* Numbers separated by semicolons.
Joined(nums) ==
    [i \in 1 .. 2 * Len(nums) - 1 |-> IF i % 2 = 0 THEN ";" ELSE ToString(nums[(i + 1) \div 2])]

-----------------------------------------------------------------------------
(***************************************************************************)
(* Renditions, links and glyphs.                                           *)
(***************************************************************************)

\* append_color_param
ColorParams(c, base) ==
    CASE c = DefaultColor -> <<base + 9>>
      [] c \in 0 .. 7 -> <<base + c>>
      [] c \in 8 .. 15 -> <<base + 52 + c>>
      [] c \in 16 .. 255 -> <<base + 8, 5, c>>
      [] OTHER -> LET v == c - 256 IN <<base + 8, 2, v \div 65536, (v \div 256) % 256, v % 256>>

\* append_attr_diff: what cannot be switched off alone is reset.
AttrDiff(cur, next) ==
    LET lost == \/ ~ cur.on \subseteq next.on
                \/ cur.fg # DefaultColor /\ next.fg = DefaultColor
                \/ cur.bg # DefaultColor /\ next.bg = DefaultColor
        base == IF lost THEN DefaultAttr ELSE cur
        nums == (IF lost THEN <<0>> ELSE << >>)
                \o Ascending(next.on \ base.on)
                \o (IF next.fg # base.fg THEN ColorParams(next.fg, 30) ELSE << >>)
                \o (IF next.bg # base.bg THEN ColorParams(next.bg, 40) ELSE << >>)
    IN  IF cur = next THEN << >> ELSE Csi(Append(Joined(nums), "m"))

\* append_hyperlink_diff
LinkDiff(cur, next) ==
    IF cur = next THEN << >> ELSE <<"esc", "]", "8;", next, "esc", "\\">>

\* push_cell
CellBytes(c) ==
    FlattenSeq([i \in 1 .. Len(c.marks) + 1 |->
        LET g == (<<c.ch>> \o c.marks)[i] IN IF g \in Encoded THEN <<"utf8", g>> ELSE <<g>>])

-----------------------------------------------------------------------------
(***************************************************************************)
(* Rows.  A wide glyph hides the cell to its right.                        *)
(***************************************************************************)

\* visible_cell_starts: the columns of row y that are painted.
VisibleStarts(fb, y) ==
    LET visible[x \in -1 .. LastCol(fb)] ==
            /\ x >= 0 /\ fb.cell[<<x, y>>].width # 0
            /\ ~ (visible[x - 1] /\ fb.cell[<<x - 1, y>>].width = 2)
    IN  {x \in 0 .. LastCol(fb) : visible[x]}

\* cells_equivalent
Equivalent(new, old, pos) ==
    LET c == new.cell[pos]
        d == old.cell[pos]
    IN  /\ c.ch = d.ch /\ c.marks = d.marks /\ c.width = d.width /\ c.attr = d.attr
        /\ LinkName(new, c.link) = LinkName(old, d.link)

\* row_display_change_span: the columns that show something else.
Changed(new, old, y) ==
    {x \in VisibleStarts(new, y) : \/ x \notin VisibleStarts(old, y)
                                   \/ ~ Equivalent(new, old, <<x, y>>)}

\* What full_redraw paints of row y: everything up to the last contents.
Contents(fb, y) ==
    LET shows(x) == LET c == fb.cell[<<x, y>>]
                    IN  c.ch # " " \/ c.marks # << >> \/ c.attr # DefaultAttr \/ c.link # 0
        some == {x \in VisibleStarts(fb, y) : shows(x)}
    IN  IF some = {} THEN {} ELSE some \cup {0}

\* The columns painted of a row, from the first to the last of some.
Span(fb, y, some) ==
    Ascending({x \in VisibleStarts(fb, y) : \E a, b \in some : a <= x /\ x <= b})

\* Faulty: the terminal is expected to advance as the server did.
PenFollows(c, pos) == Beside(pos, c.width)

Nowhere == <<-1, -1>>

\* next_local_pen_x: where the terminal's cursor is after a cell, if known.
\* After a wide glyph it is not, unless the next one joins it.
PenAfter(c, pos) ==
    IF c.width = 2 /\ ~ (c.marks # << >> /\ Last(c.marks) = "zwj") THEN Nowhere
    ELSE Beside(pos, c.width)

\* One cell of a row, with the bytes so far and what the terminal's pen is.
PaintCell(fb, out, pos) ==
    LET c == fb.cell[pos]
        name == LinkName(fb, c.link)
    IN  [bytes |-> out.bytes \o (IF out.pen = pos THEN << >> ELSE Cup(pos))
                             \o LinkDiff(out.link, name) \o AttrDiff(out.attr, c.attr)
                             \o CellBytes(c),
         pen |-> PenAfter(c, pos), link |-> name, attr |-> c.attr]

PaintRow(fb, out, y, columns) ==
    FoldLeft(LAMBDA o, x : PaintCell(fb, o, <<x, y>>), out, columns)

\* The end of either diff: renditions off, the link of the pen.
Finished(fb, out) ==
    out.bytes \o (IF out.attr # DefaultAttr THEN Csi(<<"m">>) ELSE << >>)
              \o LinkDiff(out.link, LinkName(fb, fb.link))

-----------------------------------------------------------------------------
(***************************************************************************)
(* Modes and titles.                                                       *)
(***************************************************************************)

Titles(new, old, force) ==
    LET icon  == new.icon # "none" /\ (force \/ new.icon # old.icon)
        title == new.title # "none" /\ (force \/ new.title # old.title)
    IN  IF (force \/ new.icon # old.icon \/ new.title # old.title)
           /\ new.icon # "none" /\ new.icon = new.title
        THEN Osc("0;", new.icon)
        ELSE (IF icon THEN Osc("1;", new.icon) ELSE << >>)
             \o (IF title THEN Osc("2;", new.title) ELSE << >>)

\* One of several modes that exclude each other.
Choice(new, old, modes, force) ==
    IF ~force /\ new = old THEN << >>
    ELSE (IF force THEN FlattenSeq([i \in DOMAIN modes |-> Mode(modes[i], FALSE)])
          ELSE IF old # 0 THEN Mode(old, FALSE) ELSE << >>)
         \o (IF new # 0 THEN Mode(new, TRUE) ELSE << >>)

\* append_terminal_metadata
Metadata(new, old, force) ==
    LET flag(n, now, before) == IF force \/ now # before THEN Mode(n, now) ELSE << >>
        open == new.top = 0 /\ new.bottom = LastRow(new)
        margins == IF force THEN ~open ELSE <<new.top, new.bottom>> # <<old.top, old.bottom>>
    IN  (IF new.bells # old.bells THEN <<"bel">> ELSE << >>)
        \o Titles(new, old, force)
        \o (IF new.clip # old.clip THEN Osc("52;c;", IF new.clip = "none" THEN "" ELSE new.clip)
            ELSE << >>)
        \o flag(5, new.reverse, old.reverse)
        \o flag(2004, new.paste, old.paste)
        \o Choice(new.mouse, old.mouse, <<1003, 1002, 1001, 1000, 9>>, force)
        \o flag(1004, new.focus, old.focus)
        \o Choice(new.encoding, old.encoding, <<1015, 1006, 1005>>, force)
        \o (IF ~margins THEN << >>
            ELSE IF open THEN Csi(<<"r">>)
            ELSE Csi(<<ToString(new.top + 1), ";", ToString(new.bottom + 1), "r">>))

-----------------------------------------------------------------------------
(***************************************************************************)
(* The two diffs.                                                          *)
(***************************************************************************)

RowsOf(fb) == [i \in 1 .. fb.size[2] |-> i - 1]

\* full_redraw: a terminal of unknown contents is cleared, and the rows
\* follow each other by carriage return and line feed.
FullRedraw(new, old) ==
    LET start == [bytes |-> Mode(25, FALSE) \o Csi(<<"r">>) \o Csi(<<"H">>) \o Csi(<<"2", "J">>)
                            \o Csi(<<"m">>) \o LinkDiff("", "none"),
                  pen |-> <<0, 0>>, link |-> "none", attr |-> DefaultAttr]
        row(out, y) ==
            PaintRow(new, [out EXCEPT !.bytes = @ \o (IF y > 0 THEN <<"cr", "lf">> ELSE << >>),
                                      !.pen = <<0, y>>],
                     y, Span(new, y, Contents(new, y)))
    IN  Finished(new, FoldLeft(row, start, RowsOf(new)))
        \o Metadata(new, old, TRUE) \o Cup(new.cur)
        \o (IF new.visible THEN Mode(25, TRUE) ELSE << >>)

\* diff_same_size: every changed row is painted from its first to its last
\* change, with the cursor hidden meanwhile.
DiffSameSize(new, old) ==
    LET changed == \E y \in 0 .. LastRow(new) : Changed(new, old, y) # {}
        margins == <<new.top, new.bottom>> # <<old.top, old.bottom>>
        start == [bytes |-> Metadata(new, old, FALSE) \o (IF changed THEN Mode(25, FALSE) ELSE << >>),
                  pen |-> Nowhere, link |-> LinkName(old, old.link), attr |-> DefaultAttr]
        row(out, y) == PaintRow(new, out, y, Span(new, y, Changed(new, old, y)))
    IN  Finished(new, FoldLeft(row, start, RowsOf(new)))
        \o (IF changed \/ margins \/ new.cur # old.cur THEN Cup(new.cur) ELSE << >>)
        \o (IF changed THEN IF new.visible THEN Mode(25, TRUE) ELSE << >>
            ELSE IF new.visible # old.visible THEN Mode(25, new.visible) ELSE << >>)

\* Framebuffer::diff
Diff(new, old) == IF new.size = old.size THEN DiffSameSize(new, old) ELSE FullRedraw(new, old)
=============================================================================
