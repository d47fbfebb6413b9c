----------------------------- MODULE Predictor -----------------------------
(***************************************************************************)
(* The prediction engine of src/src/prediction.rs: what the program draws  *)
(* for keys whose effect the server has not shown yet, and how it learns   *)
(* whether it was right.                                                   *)
(*                                                                         *)
(* A screen is a size, a glyph per cell, a cursor and a scroll generation; *)
(* renditions are left out, except the underline that flags a prediction.  *)
(* Input is a sequence of tokens, one per byte or complete character.      *)
(* What the clock says is a parameter of the operations that read it.      *)
(* The states without any sent frame ("unframed") are left out: dialling   *)
(* sends the first one before a predictor sees a frame number.  So is      *)
(* local_frame_acked, which nothing reads, and the count of confirmations. *)
(***************************************************************************)
EXTENDS Integers, Sequences, SequencesExt

CONSTANTS
    Empty,             \* the glyph of an empty cell
    BulkInput,         \* the longest input that is predicted (100 bytes)
    GlitchRepairs      \* GLITCH_REPAIR_COUNT (10)

ASSUME PredictorAssumption ==
    Empty = " " /\ BulkInput \in Nat /\ GlitchRepairs \in Nat \ {0}

-----------------------------------------------------------------------------
(***************************************************************************)
(* Screens and positions <<column, row>>.                                  *)
(***************************************************************************)

PositionsOf(size) == (0 .. size[1] - 1) \X (0 .. size[2] - 1)

EmptyScreen(size) ==
    [size |-> size, cell |-> [pos \in PositionsOf(size) |-> Empty],
     cur |-> <<0, 0>>, gen |-> 0]

LastColumn(scr) == scr.size[1] - 1
BottomRow(scr) == scr.size[2] - 1

\* The positions of the cursor's row, from its column on.
RowFrom(cur, scr) == {<<x, cur[2]>> : x \in cur[1] .. LastColumn(scr)}

LeftOf(pos) == <<pos[1] - 1, pos[2]>>

-----------------------------------------------------------------------------
(***************************************************************************)
(* Input.  "esc" is the escape byte, "cr" carriage return, "erase" 0x08 or *)
(* 0x7f, "ctl" another control byte or an undecodable one, "wide" a        *)
(* character that does not fill exactly one cell.                          *)
(***************************************************************************)

\* Bytes that may stand between CSI and the byte that ends it.
Parameters == {"0", ";", "<"}

\* try_parse_arrow: one more byte of input, after the incomplete escape
\* sequence held back from earlier bytes.  What it completes is a token of
\* its own: an arrow, another sequence, or the byte itself.
ReadByte(held, byte) ==
    LET hold    == [held |-> Append(held, byte), token |-> "none"]
        done(t) == [held |-> << >>, token |-> t]
        arrow   == IF byte = "C" THEN "right" ELSE IF byte = "D" THEN "left"
                   ELSE "sequence"
    IN  CASE held = << >> -> IF byte = "esc" THEN hold ELSE done(byte)
          [] held = <<"esc">> -> IF byte \in {"O", "["} THEN hold ELSE done("sequence")
          [] held = <<"esc", "O">> -> done(arrow)
          [] OTHER -> IF byte \in Parameters THEN hold ELSE done(arrow)

-----------------------------------------------------------------------------
(***************************************************************************)
(* The predictor.  cells maps a position to the prediction pending there:  *)
(* its glyph, the epoch that must be confirmed before it shows, the frame  *)
(* that must be acknowledged before it is judged, the glyphs it replaces,  *)
(* and whether it only says that the host's glyph will change.  cursors is *)
(* the list of predicted cursors, one per epoch.  wait is the frame whose  *)
(* acknowledgement ends a pause after an erasure, 0 when there is none.    *)
(***************************************************************************)

Preferences == {"always", "never", "adaptive", "experimental"}

\* A guess is judged at a frame that is numbered now or next, and never shown
\* before its epoch began; the newest cursor predicted is the current one.
PredictorOK(p, size) ==
    /\ p.pref \in Preferences /\ {p.over, p.active, p.show, p.flagging} \subseteq BOOLEAN
    /\ DOMAIN p.cells \subseteq PositionsOf(size) /\ p.cur \in PositionsOf(size)
    /\ \A g \in {p.cells[pos] : pos \in DOMAIN p.cells} \cup ToSet(p.cursors) :
           g.epoch <= p.epoch /\ g.exp \in 1 .. p.sent + 1
    /\ p.cells # << >> \/ p.cursors # << >> => p.active
    /\ p.cursors # << >> => Last(p.cursors).pos = p.cur
    /\ p.glitch \in 0 .. 2 * GlitchRepairs
    /\ p.wait \in 0 .. p.sent + 1 /\ p.late <= p.sent

NewPredictor(pref, over) ==
    [pref |-> pref, over |-> over, cells |-> << >>, cursors |-> << >>,
     cur |-> <<0, 0>>, epoch |-> 1, confirmed |-> 0, active |-> FALSE,
     show |-> pref \in {"always", "experimental"}, flagging |-> FALSE,
     glitch |-> 0, held |-> << >>, sent |-> 0, late |-> 0, wait |-> 0]

\* The frame that will carry the input typed now.
NextFrame(p) == p.sent + 1

Larger(a, b) == IF a < b THEN b ELSE a

\* The elements of a list that are in a set, in order.
Retain(list, set) ==
    FoldLeft(LAMBDA kept, c : IF c \in set THEN Append(kept, c) ELSE kept, << >>, list)

\* set_frames
SetWatermarks(p, sent, late) ==
    [p EXCEPT !.sent = Larger(@, sent), !.late = Larger(@, late)]

\* become_tentative
BecomeTentative(p) ==
    IF p.pref = "experimental" THEN p ELSE [p EXCEPT !.epoch = @ + 1]

\* reset
Reset(p) ==
    BecomeTentative([p EXCEPT !.cells = << >>, !.cursors = << >>,
                              !.active = FALSE, !.held = << >>])

SnapTo(p, scr) == [p EXCEPT !.cur = scr.cur]

\* set_cursor: the host's cursor counts while nothing is predicted; a new
\* row must be proven anew.
SetCursor(p, scr) ==
    IF p.active THEN p
    ELSE SnapTo(IF p.cur[2] # scr.cur[2] THEN BecomeTentative(p) ELSE p, scr)

\* Faulty: the first cursor of an epoch stays its prediction.
KeepCursor(p) ==
    LET c == [pos |-> p.cur, epoch |-> p.epoch, exp |-> NextFrame(p)]
    IN  IF p.cursors # << >> /\ Last(p.cursors).epoch = p.epoch
        THEN [p EXCEPT !.active = TRUE]
        ELSE [p EXCEPT !.cursors = Append(@, c), !.active = TRUE]

\* record_cursor_prediction
RecordCursor(p) ==
    LET c == [pos |-> p.cur, epoch |-> p.epoch, exp |-> NextFrame(p)]
    IN  IF p.cursors # << >> /\ Last(p.cursors).epoch = p.epoch
        THEN [p EXCEPT !.cursors = Append(Front(@), c), !.active = TRUE]
        ELSE [p EXCEPT !.cursors = Append(@, c), !.active = TRUE]

MoveTo(p, pos) == RecordCursor([p EXCEPT !.cur = pos])

-----------------------------------------------------------------------------
(***************************************************************************)
(* Predicting.                                                             *)
(***************************************************************************)

\* prediction_history: what stood at pos, shown by the host or predicted.
History(p, pos, scr) ==
    {scr.cell[pos]} \cup
        (IF pos \in DOMAIN p.cells /\ ~p.cells[pos].unknown
         THEN p.cells[pos].orig \cup {p.cells[pos].ch} ELSE {})

\* A new prediction at pos, in place of the one there.
Guess(p, pos, ch, unknown, scr) ==
    [ch |-> ch, epoch |-> p.epoch, exp |-> NextFrame(p),
     orig |-> History(p, pos, scr), unknown |-> unknown]

\* The predictions of p with those of the function "new" over them.
Overwritten(p, new) ==
    [p EXCEPT !.cells = [pos \in DOMAIN @ \cup DOMAIN new |->
                           IF pos \in DOMAIN new THEN new[pos] ELSE @[pos]]]

Place(p, ch, scr) ==
    Overwritten(p, [pos \in {p.cur} |-> Guess(p, pos, ch, FALSE, scr)])

\* newline_carriage_return: a scroll is not predicted, an empty row is.
Newline(p, scr) ==
    LET home == <<0, p.cur[2]>>
        bare == [pos \in RowFrom(home, scr) |-> Guess(p, pos, Empty, FALSE, scr)]
    IN  IF p.cur[2] >= BottomRow(scr)
        THEN MoveTo(Overwritten(p, bare), home)
        ELSE MoveTo(p, <<0, p.cur[2] + 1>>)

\* Faulty: the shifted row is taken from the host's screen alone.
HostAt(p, pos, scr) == [ch |-> scr.cell[pos], unknown |-> FALSE]

\* What the user is to see at pos.
Seen(p, pos, scr) ==
    IF pos \in DOMAIN p.cells
    THEN [ch |-> IF p.cells[pos].unknown THEN Empty ELSE p.cells[pos].ch,
          unknown |-> p.cells[pos].unknown]
    ELSE [ch |-> scr.cell[pos], unknown |-> FALSE]

\* predict_host_insert: the rest of the row moves right by one; what enters
\* the last column is not known.
Insert(p, ch, scr) ==
    LET shifted(pos) ==
            IF pos = p.cur THEN [ch |-> ch, unknown |-> FALSE]
            ELSE IF pos[1] = LastColumn(scr) THEN [ch |-> Empty, unknown |-> TRUE]
            ELSE Seen(p, LeftOf(pos), scr)
        row == [pos \in RowFrom(p.cur, scr) |->
                    Guess(p, pos, shifted(pos).ch, shifted(pos).unknown, scr)]
    IN  MoveTo(Overwritten(p, row), <<p.cur[1] + 1, p.cur[2]>>)

\* The glyph part of handle_decoded_char.
PrintGlyph(p, ch, scr) ==
    IF p.cur[1] >= LastColumn(scr)
    THEN Newline(BecomeTentative(Place(BecomeTentative(p), ch, scr)), scr)
    ELSE IF p.over THEN MoveTo(Place(p, ch, scr), <<p.cur[1] + 1, p.cur[2]>>)
    ELSE Insert(p, ch, scr)

\* move_cursor_left_n and move_cursor_right_n
MoveLeft(p) == IF p.cur[1] = 0 THEN p ELSE MoveTo(p, LeftOf(p.cur))

MoveRight(p, scr) ==
    IF p.cur[1] >= LastColumn(scr) THEN p ELSE MoveTo(p, <<p.cur[1] + 1, p.cur[2]>>)

\* handle_decoded_char, and what became of an escape sequence.
Predict(p, token, scr) ==
    CASE token = "none" -> p
      [] token = "left" -> MoveLeft(p)
      [] token = "right" -> MoveRight(p, scr)
      [] token = "cr" -> Newline(BecomeTentative(p), scr)
      [] token \in {"ctl", "wide", "sequence"} -> BecomeTentative(p)
      [] OTHER -> PrintGlyph(p, token, scr)

\* One byte of the loop in keystroke.
PredictByte(p, byte, scr) ==
    LET r == ReadByte(p.held, byte)
        q == IF p.pref = "experimental" THEN [p EXCEPT !.epoch = p.confirmed] ELSE p
    IN  Predict([q EXCEPT !.held = r.held], r.token, scr)

Erases(input) == \E i \in DOMAIN input : input[i] = "erase"

\* Faulty: the pause ends with the erasure, whatever was typed after it.
PauseOnce(p) == p.wait

\* Every input typed during the pause extends it.
Pause(p) == NextFrame(p)

\* keystroke
Keystroke(p, input, scr) ==
    IF p.pref = "never" THEN Reset(p)
    ELSE IF p.wait # 0
         THEN IF input = << >> THEN p ELSE [p EXCEPT !.wait = Pause(p)]
    ELSE IF Erases(input) THEN [Reset(p) EXCEPT !.wait = NextFrame(p)]
    ELSE IF Len(p.held) + Len(input) > BulkInput THEN Reset(p)
    ELSE FoldLeft(LAMBDA q, byte : PredictByte(q, byte, scr), p, input)

-----------------------------------------------------------------------------
(***************************************************************************)
(* Judging, against the host's screen.                                     *)
(***************************************************************************)

\* observe_late_ack
ObserveLateAck(p, hostUpdated) ==
    IF hostUpdated /\ p.wait # 0 /\ p.late >= p.wait THEN [p EXCEPT !.wait = 0] ELSE p

\* Frames are acknowledged late: after the server gave the application time
\* to answer.
IsDue(p, guess) == p.late >= guess.exp

\* clear_cursor_prediction
ClearCursors(p, scr) ==
    SnapTo([p EXCEPT !.cursors = << >>, !.active = p.cells # << >>], scr)

\* cull_cursor_predictions
CullCursors(p, scr) ==
    LET wrong   == p.cursors # << >> /\ IsDue(p, Last(p.cursors))
                      /\ Last(p.cursors).pos # scr.cur
        waiting == Retain(p.cursors, {c \in ToSet(p.cursors) : ~IsDue(p, c)})
    IN  IF wrong THEN IF p.pref = "experimental" THEN ClearCursors(p, scr)
                      ELSE SnapTo(Reset(p), scr)
        ELSE IF waiting = << >> /\ p.cells = << >> THEN ClearCursors(p, scr)
        ELSE [p EXCEPT !.cursors = waiting, !.active = TRUE]

Without(p, positions) ==
    [p EXCEPT !.cells = [pos \in DOMAIN @ \ positions |-> @[pos]]]

\* kill_epoch: this guess and all that depend on it are dropped; the host's
\* cursor anchors what is left.
KillEpoch(p, epoch, scr) ==
    LET doomed == {pos \in DOMAIN p.cells : p.cells[pos].epoch >= epoch}
        kept   == Retain(p.cursors, {c \in ToSet(p.cursors) : c.epoch < epoch})
        anchor == [pos |-> scr.cur, epoch |-> p.epoch, exp |-> NextFrame(p)]
    IN  BecomeTentative(SnapTo([Without(p, doomed) EXCEPT
                                  !.cursors = Append(kept, anchor),
                                  !.active = TRUE], scr))

Precedes(a, b) == a[2] < b[2] \/ (a[2] = b[2] /\ a[1] < b[1])

\* A match proves something unless the cell may have looked so before.
HasCredit(p, pos, scr) ==
    /\ ~p.cells[pos].unknown /\ p.cells[pos].ch # Empty
    /\ p.cells[pos].ch \notin p.cells[pos].orig

DueCells(p) == {pos \in DOMAIN p.cells : IsDue(p, p.cells[pos])}

\* The predictions due, in reading order, up to the first that turns out
\* wrong: credit given before it stands, it decides what is thrown away.
\* "repaired": the credit came quickly, and not right after another.
ConfirmCells(p, scr, repaired) ==
    LET due       == DueCells(p)
        wrong     == {pos \in due : /\ ~p.cells[pos].unknown
                                    /\ p.cells[pos].ch \notin {Empty, scr.cell[pos]}}
        first     == {pos \in wrong : \A w \in wrong : ~Precedes(w, pos)}
        judged    == IF p.pref = "experimental" THEN due
                     ELSE {pos \in due : \A w \in first : Precedes(pos, w)}
        credited  == {pos \in judged \ wrong : HasCredit(p, pos, scr)}
        confirmed == Max({p.confirmed} \cup {p.cells[pos].epoch : pos \in credited})
        q         == [Without(p, judged) EXCEPT !.confirmed = confirmed]
    IN  IF p.pref # "experimental" /\ first # {}
        THEN LET bad == p.cells[CHOOSE pos \in first : TRUE]
             IN  IF bad.epoch > confirmed THEN KillEpoch(q, bad.epoch, scr)
                 ELSE SnapTo(Reset(q), scr)
        ELSE CullCursors(
                 [q EXCEPT !.glitch = IF repaired /\ credited # {} /\ @ > 0
                                      THEN @ - 1 ELSE @], scr)

\* confirm
Confirm(p, scr, repaired) ==
    IF p.cells = << >> THEN CullCursors(p, scr)
    ELSE IF ~p.active THEN SnapTo(p, scr)
    ELSE ConfirmCells(p, scr, repaired)

-----------------------------------------------------------------------------
(***************************************************************************)
(* Showing.  Times are milliseconds.                                       *)
(***************************************************************************)

\* set_srtt
SetSrtt(p, srtt) ==
    LET idle    == p.cells = << >> /\ p.cursors = << >>
        demoted == p.pref = "adaptive" /\ srtt <= 20 /\ idle
        shown   == p.pref # "adaptive" \/ srtt > 30 \/ (p.show /\ ~demoted)
        flagged == srtt > 80 \/ (p.flagging /\ srtt > 50)
    IN  IF p.pref = "never" THEN [p EXCEPT !.show = FALSE, !.flagging = FALSE]
        ELSE [p EXCEPT !.show = shown \/ p.glitch > 0,
                       !.active = @ /\ ~demoted,
                       !.flagging = flagged \/ p.glitch > GlitchRepairs]

\* sample_pending_age: age is that of the oldest prediction.
SampleAge(p, age) ==
    IF p.cells = << >> THEN p
    ELSE IF age >= 5000
         THEN [p EXCEPT !.glitch = 2 * GlitchRepairs, !.show = TRUE, !.flagging = TRUE]
    ELSE IF age >= 250 /\ p.glitch < GlitchRepairs
         THEN [p EXCEPT !.glitch = GlitchRepairs, !.show = TRUE]
    ELSE p

\* Faulty: shows guesses of unconfirmed epochs.
ShowsAll(p, guess) == TRUE

Shows(p, guess) == guess.epoch <= p.confirmed

\* A cell as it is drawn: its glyph, and whether it is flagged by underline.
HostCell(ch) == [ch |-> ch, flag |-> FALSE]

\* What overlay makes of the host's cell at pos.
OverlayCell(p, pos, scr) ==
    LET guess == p.cells[pos]
        host  == scr.cell[pos]
    IN  IF guess.unknown
        THEN [ch |-> host,
              flag |-> p.flagging /\ host # Empty /\ pos[1] # LastColumn(scr)]
        ELSE [ch |-> guess.ch, flag |-> p.flagging /\ host # guess.ch]

\* overlay, once it is known that predictions are shown at all.
Overlay(p, scr) ==
    LET visible == {pos \in DOMAIN p.cells : p.active /\ Shows(p, p.cells[pos])}
        proven  == Retain(p.cursors, {c \in ToSet(p.cursors) : Shows(p, c)})
    IN  [size |-> scr.size,
         cell |-> [pos \in DOMAIN scr.cell |->
                      IF pos \in visible THEN OverlayCell(p, pos, scr)
                      ELSE HostCell(scr.cell[pos])],
         cur  |-> IF p.active /\ proven # << >> THEN Last(proven).pos ELSE scr.cur]
=============================================================================
