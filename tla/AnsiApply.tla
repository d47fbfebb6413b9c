----------------------------- MODULE AnsiApply -----------------------------
(***************************************************************************)
(* The interpreter of src/src/ansi_apply.rs: bytes in, a framebuffer and a *)
(* pen changed.                                                            *)
(*                                                                         *)
(* A byte is a token: "esc", a control, an ASCII character, or "utf8", the *)
(* start of a multi-byte glyph named by the next token.  A number, the     *)
(* prefix of an OSC and its value are one token each, and a chunk is cut   *)
(* between tokens.  A component of an RGB colour is below 256.             *)
(***************************************************************************)
EXTENDS Framebuffer

Numbers == 0 .. 110 \cup {255} \cup 1000 .. 1006 \cup {1015, 2004}
ValueOf == [s \in {ToString(n) : n \in Numbers} |-> CHOOSE n \in Numbers : ToString(n) = s]
Numerals == DOMAIN ValueOf

\* What may stand between CSI and the byte that ends it; what follows an
\* intermediate byte is not looked at.
Intermediates == {"!", " "}
Parameters == Numerals \cup {";", "?", ">", "cr", "lf", "bs", "tab", "bel"} \cup Intermediates

Encoded == {"cjk", "emoji", "nbsp", "fffd"} \cup Marks   \* multi-byte glyphs

NewPen ==
    [attr |-> DefaultAttr, carry |-> << >>,
     saved |-> [cur |-> <<0, 0>>, attr |-> DefaultAttr, autowrap |-> TRUE, origin |-> FALSE]]

NewTerminal(size, wide) == [fb |-> NewFramebuffer(size, wide), pen |-> NewPen]

ErasedCell(pen) == Erased(pen.attr.bg)

-----------------------------------------------------------------------------
(***************************************************************************)
(* Movement.                                                               *)
(***************************************************************************)

\* Absolute rows count from here, and end here.
TopRow(fb) == IF fb.origin THEN fb.top ELSE 0
EndRow(fb) == IF fb.origin THEN fb.bottom ELSE LastRow(fb)

\* One row down, scrolling at the bottom margin.
NextRow(t) ==
    IF t.fb.cur[2] = t.fb.bottom
    THEN ScrollRegion(t.fb, t.fb.top, t.fb.bottom, 1, ErasedCell(t.pen))
    ELSE [t.fb EXCEPT !.cur[2] = Clamp(@ + 1, 0, LastRow(t.fb))]

\* index_down, with the column the cursor is left in.
IndexDown(t, column) ==
    LET fb == NextRow(t) IN [t EXCEPT !.fb = MoveCursor(fb, column, fb.cur[2])]

\* RI
ReverseIndex(t) ==
    LET fb == t.fb
        up == IF fb.cur[2] = fb.top
              THEN ScrollRegion(fb, fb.top, fb.bottom, -1, ErasedCell(t.pen))
              ELSE [fb EXCEPT !.cur[2] = Clamp(@ - 1, 0, @)]
    IN  [t EXCEPT !.fb = MoveCursor(up, up.cur[1], up.cur[2])]

-----------------------------------------------------------------------------
(***************************************************************************)
(* Printing.                                                               *)
(***************************************************************************)

\* insert_chars, delete_chars: the row moves by n columns from the cursor on.
InsertChars(fb, n, blank) ==
    [fb EXCEPT !.cell = [pos \in DOMAIN @ |->
        IF n = 0 \/ pos[2] # fb.cur[2] \/ pos[1] < fb.cur[1] THEN @[pos]
        ELSE IF pos[1] - n >= fb.cur[1] THEN @[Beside(pos, -n)] ELSE blank]]

DeleteChars(fb, n, blank) ==
    [fb EXCEPT !.cell = [pos \in DOMAIN @ |->
        IF pos[2] # fb.cur[2] \/ pos[1] < fb.cur[1] THEN @[pos]
        ELSE IF pos[1] + n <= LastCol(fb) THEN @[Beside(pos, n)] ELSE blank]]

\* xterm_standalone_width
StandaloneWidth(ch) == IF ch \in ServerWide \ Supplementary THEN 2 ELSE 1

\* The wrap before a glyph: the one deferred by the last column, or that of
\* a wide glyph that does not fit, which leaves an erased cell behind.
Wrapped(t, ch) ==
    LET fb == t.fb
        begin(f) == [f EXCEPT !.cur[1] = 0, !.wrap = FALSE]
    IN  IF fb.autowrap /\ fb.wrap THEN begin(NextRow(t))
        ELSE IF fb.autowrap /\ StandaloneWidth(ch) = 2 /\ fb.cur[1] = LastCol(fb)
        THEN begin(NextRow([t EXCEPT !.fb.cell[fb.cur] = ErasedCell(t.pen)]))
        ELSE fb

\* apply_ansi_with_pen, for a character.
PrintGlyph(t, ch) ==
    IF ch \in Marks THEN [t EXCEPT !.fb = ExtendGrapheme(t.fb, ch)]
    ELSE LET at    == Wrapped(t, ch)
             w     == CellWidth(at, ch)
             room  == IF at.insert THEN InsertChars(at, w, ErasedCell(t.pen)) ELSE at
             put   == PutRune(room, at.cur, ch, t.pen.attr)
         IN  [t EXCEPT !.fb = Advance(put, w, put.autowrap)]

-----------------------------------------------------------------------------
(***************************************************************************)
(* Commands.                                                               *)
(***************************************************************************)

\* parse_params: an empty field, or one that is no number, is 0.
Params(tokens) ==
    LET raw  == IF tokens # << >> /\ tokens[1] = "?" THEN Tail(tokens) ELSE tokens
        seps == Ascending({0} \cup {i \in DOMAIN raw : raw[i] = ";"})
        field(s) == IF s < Len(raw) /\ raw[s + 1] \in Numerals THEN ValueOf[raw[s + 1]] ELSE 0
    IN  IF raw = << >> THEN << >> ELSE [k \in DOMAIN seps |-> field(seps[k])]

Argument(nums, i, default) == IF i <= Len(nums) THEN nums[i] ELSE default

\* A count or a coordinate: at least 1.
Count(nums, i) == LET n == Argument(nums, i, 1) IN IF n < 1 THEN 1 ELSE n

\* apply_sgr
RECURSIVE ApplySgr(_, _)
ApplySgr(attr, nums) ==
    IF nums = << >> THEN attr
    ELSE LET n       == nums[1]
             palette == n \in {38, 48} /\ Len(nums) >= 3 /\ nums[2] = 5
             rgb     == n \in {38, 48} /\ Len(nums) >= 5 /\ nums[2] = 2
             used    == IF palette THEN 3 ELSE IF rgb THEN 5 ELSE 1
             color   == CASE n \in 30 .. 37 \cup 40 .. 47 -> n % 10
                          [] n \in 90 .. 97 \cup 100 .. 107 -> (n % 10) + 8
                          [] palette -> nums[3]
                          [] rgb -> 256 + 65536 * nums[3] + 256 * nums[4] + nums[5]
                          [] OTHER -> DefaultColor
             painted == palette \/ rgb \/ n \in {39, 49}
             next    == CASE n = 0 -> DefaultAttr
                          [] n \in 1 .. 9 -> [attr EXCEPT !.on = @ \cup {IF n = 6 THEN 5 ELSE n}]
                          [] n = 22 -> [attr EXCEPT !.on = @ \ {1, 2}]
                          [] n \in {23, 24, 25, 27, 28, 29} -> [attr EXCEPT !.on = @ \ {n - 20}]
                          [] n \in 30 .. 37 \cup 90 .. 97 \/ (painted /\ n < 40) ->
                                 [attr EXCEPT !.fg = color]
                          [] n \in 40 .. 47 \cup 100 .. 107 \/ (painted /\ n > 40) ->
                                 [attr EXCEPT !.bg = color]
                          [] OTHER -> attr
         IN  ApplySgr(next, SubSeq(nums, used + 1, Len(nums)))

\* set_private_mode
SetPrivateMode(fb, mode, on) ==
    LET one(current) == IF on THEN mode ELSE IF current = mode THEN 0 ELSE current
    IN  CASE mode = 5 -> [fb EXCEPT !.reverse = on]
          [] mode = 6 -> MoveCursor([fb EXCEPT !.origin = on], 0, IF on THEN fb.top ELSE 0)
          [] mode = 7 -> [fb EXCEPT !.autowrap = on]
          [] mode = 25 -> [fb EXCEPT !.visible = on]
          [] mode = 2004 -> [fb EXCEPT !.paste = on]
          [] mode \in {9} \cup 1000 .. 1003 -> [fb EXCEPT !.mouse = one(@)]
          [] mode = 1004 -> [fb EXCEPT !.focus = on]
          [] mode \in {1005, 1006, 1015} -> [fb EXCEPT !.encoding = one(@)]
          [] OTHER -> fb

\* The margins of CSI r.
SetMargins(fb, nums) ==
    LET top    == Count(nums, 1) - 1
        bottom == IF Len(nums) >= 2 THEN Count(nums, 2) - 1 ELSE LastRow(fb)
        home(f) == MoveCursor(f, 0, TopRow(f))
    IN  IF top < bottom /\ bottom <= LastRow(fb)
        THEN home([fb EXCEPT !.top = top, !.bottom = bottom])
        ELSE IF nums = << >> THEN home([fb EXCEPT !.top = 0, !.bottom = LastRow(fb)])
        ELSE fb

\* ED, for modes 0 and 1; the cursor's row is erased in part.
EraseDisplay(fb, mode, blank) ==
    LET x == fb.cur[1]
        y == fb.cur[2]
        rest == IF mode = 0 THEN y + 1 .. LastRow(fb) ELSE 0 .. y - 1
        rows == [fb EXCEPT !.cell = [pos \in DOMAIN @ |-> IF pos[2] \in rest THEN blank ELSE @[pos]]]
    IN  IF mode = 0 THEN EraseRowRange(rows, y, x, fb.size[1], blank)
        ELSE EraseRowRange(rows, y, 0, x + 1, blank)

\* The commands of CSI that change the grid: IL, DL, ICH, DCH, EL, ED, ECH.
EditGrid(fb, final, nums, blank) ==
    LET n == Count(nums, 1)
        x == fb.cur[1]
        y == fb.cur[2]
        mode == Argument(nums, 1, 0)
        lines(by) == MoveCursor(
            IF y \in fb.top .. fb.bottom THEN ScrollRegion(fb, y, fb.bottom, by, blank) ELSE fb, 0, y)
    IN  CASE final = "J" /\ mode \in {2, 3} -> [FillAll(fb, blank) EXCEPT !.gen = @ + 1]
          [] final = "J" /\ mode \in {0, 1} -> EraseDisplay(fb, mode, blank)
          [] final = "K" /\ mode = 0 -> EraseRowRange(fb, y, x, fb.size[1], blank)
          [] final = "K" /\ mode = 1 -> EraseRowRange(fb, y, 0, x + 1, blank)
          [] final = "K" /\ mode = 2 -> EraseRowRange(fb, y, 0, fb.size[1], blank)
          [] final = "X" -> EraseRowRange(fb, y, x, x + n, blank)
          [] final = "@" -> InsertChars(fb, n, blank)
          [] final = "P" -> DeleteChars(fb, n, blank)
          [] final = "L" -> lines(-n)
          [] final = "M" -> lines(n)
          [] OTHER -> fb

\* apply_csi
ApplyCsi(t, tokens, final) ==
    LET fb == t.fb
        nums == Params(tokens)
        private == tokens # << >> /\ tokens[1] = "?"
        n == Count(nums, 1)
        x == fb.cur[1]
        y == fb.cur[2]
        moved(column, row) == [t EXCEPT !.fb = MoveCursor(fb, column, row)]
        column(i) == Clamp(Count(nums, i) - 1, 0, LastCol(fb))
        row == Clamp(TopRow(fb) + n - 1, 0, EndRow(fb))
    IN  CASE final \in {"H", "f"} -> moved(column(2), row)
          [] final = "A" -> moved(x, IF y - n > TopRow(fb) THEN y - n ELSE TopRow(fb))
          [] final = "B" -> moved(x, IF y + n < EndRow(fb) THEN y + n ELSE EndRow(fb))
          [] final = "C" -> moved(Clamp(x + n, 0, LastCol(fb)), y)
          [] final = "D" -> moved(Clamp(x - n, 0, x), y)
          [] final = "G" -> moved(column(1), y)
          [] final = "I" -> moved(NextTabStop(fb, n), y)
          [] final = "Z" -> moved(PreviousTabStop(fb, n), y)
          [] final = "d" -> moved(x, row)
          [] final = "g" -> LET mode == Argument(nums, 1, 0)
                            IN  [t EXCEPT !.fb.tabs = CASE mode = 0 -> @ \ {x}
                                                        [] mode = 3 -> {}
                                                        [] OTHER -> @]
          [] final = "m" -> [t EXCEPT !.pen.attr = IF nums = << >> THEN DefaultAttr
                                                   ELSE ApplySgr(@, nums)]
          [] final = "r" /\ ~private -> [t EXCEPT !.fb = SetMargins(fb, nums)]
          [] final \in {"h", "l"} /\ private ->
                 [t EXCEPT !.fb = FoldLeft(LAMBDA f, mode : SetPrivateMode(f, mode, final = "h"),
                                           fb, nums)]
          [] final \in {"h", "l"} /\ ~private /\ 4 \in ToSet(nums) -> [t EXCEPT !.fb.insert = final = "h"]
          [] OTHER -> [t EXCEPT !.fb = EditGrid(fb, final, nums, ErasedCell(t.pen))]

\* apply_osc
ApplyOsc(fb, payload) ==
    IF Len(payload) # 2 THEN fb
    ELSE CASE payload[1] = "0;" -> [fb EXCEPT !.icon = payload[2], !.title = payload[2]]
           [] payload[1] = "1;" -> [fb EXCEPT !.icon = payload[2]]
           [] payload[1] = "2;" -> [fb EXCEPT !.title = payload[2]]
           [] payload[1] = "52;c;" -> [fb EXCEPT !.clip = payload[2]]
           [] payload[1] = "8;" -> SetActiveHyperlink(fb, payload[2])
           [] OTHER -> fb

\* Faulty: the terminal may have shrunk since the cursor was saved.
RestoreAnywhere(t) ==
    LET s == t.pen.saved
    IN  [fb  |-> MoveCursor([t.fb EXCEPT !.autowrap = s.autowrap, !.origin = s.origin],
                            s.cur[1], s.cur[2]),
         pen |-> [t.pen EXCEPT !.attr = s.attr]]

\* DECRC: the cursor and what was saved with it.
RestoreCursor(t) ==
    LET s  == t.pen.saved
        fb == [t.fb EXCEPT !.autowrap = s.autowrap, !.origin = s.origin]
        y  == Clamp(s.cur[2], 0, LastRow(fb))
    IN  [fb  |-> MoveCursor(fb, Clamp(s.cur[1], 0, LastCol(fb)),
                            IF s.origin THEN Clamp(y, fb.top, fb.bottom) ELSE y),
         pen |-> [t.pen EXCEPT !.attr = s.attr]]

\* An escape and one byte.
ApplyEscape(t, byte) ==
    CASE byte = "M" -> ReverseIndex(t)
      [] byte = "D" -> IndexDown(t, t.fb.cur[1])
      [] byte = "E" -> IndexDown(t, 0)
      [] byte = "H" -> [t EXCEPT !.fb.tabs = @ \cup {t.fb.cur[1]}]
      [] byte = "7" -> [t EXCEPT !.pen.saved = [cur |-> t.fb.cur, attr |-> t.pen.attr,
                                                autowrap |-> t.fb.autowrap, origin |-> t.fb.origin]]
      [] byte = "8" -> RestoreCursor(t)
      [] OTHER -> t

\* A control byte, or an ASCII character.  A backspace while a wrap is
\* deferred only lands on the last column.
ApplyByte(t, byte) ==
    LET fb == t.fb
        x == fb.cur[1]
        y == fb.cur[2]
    IN  CASE byte = "cr" -> [t EXCEPT !.fb = MoveCursor(fb, 0, y)]
          [] byte = "lf" -> IndexDown(t, x)
          [] byte = "bs" -> [t EXCEPT !.fb = MoveCursor(fb, IF fb.wrap \/ x = 0 THEN x ELSE x - 1, y)]
          [] byte = "tab" -> [t EXCEPT !.fb = [MoveCursor(fb, NextTabStop(fb, 1), y)
                                                  EXCEPT !.wrap = fb.wrap]]
          [] byte = "bel" -> [t EXCEPT !.fb.bells = @ + 1]
          [] OTHER -> PrintGlyph(t, byte)

-----------------------------------------------------------------------------
(***************************************************************************)
(* Bytes.                                                                  *)
(***************************************************************************)

Least(S) == CHOOSE i \in S : \A j \in S : i <= j

\* How many tokens the sequence at the start of data takes, 0 when it is not
\* complete yet (decode_utf8_at, consume_escape).
UnitLength(data) ==
    LET ends == IF data[2] = "[" THEN {i \in 3 .. Len(data) : data[i] \notin Parameters}
                ELSE {i \in 3 .. Len(data) : \/ data[i] = "bel"
                                             \/ data[i] = "\\" /\ data[i - 1] = "esc"}
    IN  IF data[1] \notin {"esc", "utf8"} THEN 1
        ELSE IF Len(data) = 1 THEN 0
        ELSE IF data[1] = "utf8" THEN IF data[2] \in Encoded THEN 2 ELSE 1
        ELSE IF data[2] \notin {"[", "]"} THEN 2
        ELSE IF ends = {} THEN 0 ELSE Least(ends)

\* One complete sequence.
ApplyUnit(t, unit) ==
    LET last == unit[Len(unit)]
        body(n) == SubSeq(unit, 3, Len(unit) - n)
        params == SubSeq(body(1), 1, Least({i \in DOMAIN body(1) : body(1)[i] \in Intermediates}
                                               \cup {Len(unit) - 2}) - 1)
    IN  CASE unit[1] = "utf8" -> PrintGlyph(t, IF Len(unit) = 2 THEN last ELSE "fffd")
          [] unit[1] = "esc" /\ unit[2] = "[" -> ApplyCsi(t, params, last)
          [] unit[1] = "esc" /\ unit[2] = "]" ->
                 [t EXCEPT !.fb = ApplyOsc(@, body(IF last = "bel" THEN 1 ELSE 2))]
          [] unit[1] = "esc" /\ unit[2] \notin {"[", "]"} -> ApplyEscape(t, last)
          [] OTHER -> ApplyByte(t, last)

\* The loop of apply_ansi_with_pen: what is not complete is carried over.
RECURSIVE Interpret(_, _)
Interpret(t, data) ==
    IF data = << >> THEN t
    ELSE LET n == UnitLength(data)
         IN  IF n = 0 THEN [t EXCEPT !.pen.carry = data]
             ELSE Interpret(ApplyUnit(t, SubSeq(data, 1, n)), SubSeq(data, n + 1, Len(data)))

\* Faulty: a sequence cut in two is lost.
ApplyAfresh(t, data) == Interpret([t EXCEPT !.pen.carry = << >>], data)

\* apply_ansi_with_pen
ApplyAnsi(t, data) == Interpret([t EXCEPT !.pen.carry = << >>], t.pen.carry \o data)
=============================================================================
