------------------------ MODULE MainLoopInvariant -------------------------
(***************************************************************************)
(* What is always true of MainLoop.tla, stated: the inductive invariants   *)
(* MainInv and TrueInv with their parts, and what a step of the predictor  *)
(* or the pipeline keeps and changes.  MainLoop_proofs.tla proves them.    *)
(*                                                                         *)
(* InputInv says what was sent, PipeInv what is predicted and shown, and   *)
(* MainInv joins them with the frames of the session. TrueInv follows the  *)
(* application over the whole stream: what it will show where the host's   *)
(* screen does not show it yet is what the predictor guesses.              *)
(***************************************************************************)
EXTENDS MainLoop

-----------------------------------------------------------------------------
(***************************************************************************)
(* The input: what a whole input means, what was made of it, and what was  *)
(* sent.                                                                   *)
(***************************************************************************)

\* keystroke, over what is forwarded.
PredictAll(p, seq, scr) == FoldLeft(LAMBDA q, byte : PredictByte(q, byte, scr), p, seq)

\* The commands to quit in x, and what each position of x sends.
Quits(x) == {i \in DOMAIN x : i - 1 \in CommandStarts(x) /\ x[i] = "."}

PartAt(x, i) ==
    IF i \in CommandStarts(x) \/ (\E q \in Quits(x) : q < i) THEN << >>
    ELSE IF i - 1 \in CommandStarts(x) THEN Command(x[i])
    ELSE <<x[i]>>

Parts(x) == [i \in 1 .. Len(x) |-> PartAt(x, i)]

\* Where a command may start or end after the input x.
Follows(x, e) ==
    /\ e.pending <=> Len(x) \in CommandStarts(x)
    /\ e.lineStart <=> /\ Len(x) > 0 /\ x[Len(x)] \in LineEnds
                       /\ Len(x) \notin CommandStarts(x)
                       /\ Len(x) - 1 \notin CommandStarts(x)

\* After the input x, of which "before" was forwarded by earlier reads.
Tracks(x, r, before) ==
    /\ r \in [esc : EscapeState, forward : Seq(Bytes), quit : BOOLEAN]
    /\ before \o r.forward = Meant(x)
    /\ r.quit <=> Quits(x) # {}
    /\ ~r.quit => Follows(x, r.esc)

Sizes == (Nat \ {0}) \X (Nat \ {0})

\* What the stream to the server is made of.
Elements == [byte : Bytes \cup {"resize"}, size : Sizes, frame : Nat]

ByteOf(item) == IF item.byte = "resize" THEN << >> ELSE <<item.byte>>

BytesOf(st) == [i \in DOMAIN st |-> ByteOf(st[i])]

SentOf(st) == FlattenSeq(BytesOf(st))

ItemsAt(bytes, f) == [i \in DOMAIN bytes |-> [byte |-> bytes[i], size |-> <<1, 1>>, frame |-> f]]

\* The shapes of what the loop keeps about the session.
SessionShape ==
    /\ scene \in Scenes
    /\ input \in Seq(Seq(Bytes))
    /\ stream \in Seq(Elements)
    /\ remote \in [sent : Nat, done : Nat, echo : Nat]
    /\ esc \in EscapeState
    /\ phase \in {"running", "draining", "over"}

\* While the loop runs no command to quit was read, and the escape key is
\* where the whole input so far left it.
EscapeFollows ==
    phase = "running" =>
        Quits(FlattenSeq(input)) = {} /\ Follows(FlattenSeq(input), esc)

InputInv == SessionShape /\ ForwardedIsMeant /\ EscapeFollows

-----------------------------------------------------------------------------
(***************************************************************************)
(* Screens and the predictor: what it holds between two steps, and what a  *)
(* step leaves alone.                                                      *)
(***************************************************************************)

\* A screen has its cursor on it.
ScreenOK(scr) ==
    /\ scr = [size |-> scr.size, cell |-> scr.cell, cur |-> scr.cur, gen |-> scr.gen]
    /\ scr.size \in Sizes
    /\ scr.cur \in PositionsOf(scr.size)

\* The record of the application.
AppOK(app) ==
    /\ app = [scr |-> app.scr, held |-> app.held, unseen |-> app.unseen,
              prompts |-> app.prompts, n |-> app.n]
    /\ ScreenOK(app.scr)

PredictorFields(p) ==
    p = [pref |-> p.pref, over |-> p.over, cells |-> p.cells, cursors |-> p.cursors,
         cur |-> p.cur, epoch |-> p.epoch, confirmed |-> p.confirmed, active |-> p.active,
         show |-> p.show, flagging |-> p.flagging, glitch |-> p.glitch, held |-> p.held,
         sent |-> p.sent, late |-> p.late, wait |-> p.wait]

\* What predicting and judging leave alone.
Keeps(p, q) ==
    /\ q.pref = p.pref /\ q.over = p.over
    /\ q.show = p.show /\ q.flagging = p.flagging
    /\ q.sent = p.sent /\ q.late = p.late /\ q.wait = p.wait

\* The epoch that guesses reach at most: the experimental predictor makes
\* them in the epoch confirmed.
Ceiling(p) == IF p.pref = "experimental" THEN p.confirmed ELSE p.epoch

GuessOK(g, top, sent) ==
    g.epoch \in Nat /\ g.exp \in Nat /\ g.epoch <= top /\ 1 <= g.exp /\ g.exp <= sent + 1

CellsOK(cells, size, top, sent) ==
    /\ cells = [pos \in DOMAIN cells |-> cells[pos]]
    /\ DOMAIN cells \subseteq PositionsOf(size)
    /\ \A pos \in DOMAIN cells : GuessOK(cells[pos], top, sent)

\* Cursors are predicted in the order of the frames they wait for.
CursorsOK(cursors, size, top, sent) ==
    /\ cursors \in Seq([pos : PositionsOf(size), epoch : Nat, exp : Nat])
    /\ \A i \in 1 .. Len(cursors) : GuessOK(cursors[i], top, sent)
    /\ \A i, j \in 1 .. Len(cursors) : i < j => cursors[i].exp <= cursors[j].exp

Numbers(p) ==
    /\ p.epoch \in Nat /\ p.confirmed \in Nat /\ p.confirmed <= p.epoch
    /\ p.sent \in Nat /\ p.late \in Nat /\ p.late <= p.sent
    /\ p.wait \in Nat /\ p.wait <= p.sent + 1
    /\ p.glitch \in 0 .. 2 * GlitchRepairs

\* Guesses in the middle of a prediction.
Guessing(p, size) ==
    /\ PredictorFields(p)
    /\ p.pref \in Preferences /\ p.active \in BOOLEAN /\ p.over \in BOOLEAN
    /\ p.show \in BOOLEAN /\ p.flagging \in BOOLEAN
    /\ Numbers(p)
    /\ CellsOK(p.cells, size, Ceiling(p), p.sent)
    /\ CursorsOK(p.cursors, size, Ceiling(p), p.sent)
    /\ p.cur \in PositionsOf(size)

Anchored(p) ==
    /\ p.cells # << >> \/ p.cursors # << >> => p.active
    /\ p.cursors # << >> => Last(p.cursors).pos = p.cur

PredictorInv(p, size) == Guessing(p, size) /\ Anchored(p)

\* Nothing is predicted.
Idle(p) == p.cells = << >> /\ p.cursors = << >> /\ ~p.active

\* The newest cursor waits for the next frame.
Newest(p) == p.cursors # << >> /\ Last(p.cursors).exp = p.sent + 1

\* Typing may make the predictor wait for an erasure.
KeepsButWait(p, q) ==
    /\ q.pref = p.pref /\ q.over = p.over
    /\ q.show = p.show /\ q.flagging = p.flagging
    /\ q.sent = p.sent /\ q.late = p.late

\* kept: the elements of list that are in set, in order.
Kept(kept, list, set, T) ==
    /\ kept \in Seq(T)
    /\ \A i \in 1 .. Len(kept) : kept[i] \in set /\ \E a \in 1 .. Len(list) : kept[i] = list[a]
    /\ \A i, j \in 1 .. Len(kept) : i < j =>
          \E a, b \in 1 .. Len(list) : a < b /\ kept[i] = list[a] /\ kept[j] = list[b]
    /\ list # << >> /\ Last(list) \in set => kept # << >> /\ Last(kept) = Last(list)

\* An epoch that may be the last one confirmed.
Credible(p, c) ==
    /\ c \in Nat /\ p.confirmed <= c /\ c <= p.epoch
    /\ p.pref = "experimental" => c = p.confirmed

\* Judged predictions leave the screen, their credit confirms an epoch.
Judged(p, judged, c) == [Without(p, judged) EXCEPT !.confirmed = c]

CellsLeft(p, judged) == [pos \in DOMAIN p.cells \ judged |-> p.cells[pos]]

\* What was predicted stays as it was, if its positions do.
SamePredictions(p, q) ==
    DOMAIN q.cells = DOMAIN p.cells => q.cells = p.cells /\ q.confirmed = p.confirmed

\* What deciding how to show predictions leaves alone.
SameGuesses(p, q) ==
    /\ q.pref = p.pref /\ q.over = p.over
    /\ q.cells = p.cells /\ q.cursors = p.cursors /\ q.cur = p.cur
    /\ q.epoch = p.epoch /\ q.confirmed = p.confirmed
    /\ q.sent = p.sent /\ q.late = p.late /\ q.wait = p.wait

\* set_frames of the predictor: the frames sent and acknowledged.
SameButFrames(p, q) ==
    /\ q.pref = p.pref /\ q.over = p.over
    /\ q.cells = p.cells /\ q.cursors = p.cursors /\ q.cur = p.cur
    /\ q.epoch = p.epoch /\ q.confirmed = p.confirmed
    /\ q.active = p.active /\ q.show = p.show /\ q.flagging = p.flagging

-----------------------------------------------------------------------------
(***************************************************************************)
(* The pipeline: what is on the terminal is current.                       *)
(***************************************************************************)

PipeFields(v) ==
    v = [host |-> v.host, shown |-> v.shown, pr |-> v.pr, overlay |-> v.overlay,
         notice |-> v.notice, updated |-> v.updated]

\* A screen that is a size away from none.
Sized(v) == PipeFields(v) /\ ScreenOK(v.host) /\ PredictorInv(v.pr, v.host.size)

\* The cells on the terminal are current.
Current(v) == v.shown # NotShown => v.shown.cell = Composed(v).cell

\* Predictions show only in the overlay, and a notice has always been painted.
PipeInv(v) ==
    /\ Sized(v)
    /\ Current(v)
    /\ v.pr.show => v.overlay
    /\ v.shown = NotShown => v.notice = NoNotice

\* The cells below the notice.
BaseCells(v) == IF v.pr.show THEN Overlay(v.pr, v.host).cell ELSE Bare(v.host).cell

NoticeOver(cells, notice) ==
    IF notice = NoNotice THEN cells
    ELSE [pos \in DOMAIN cells |-> IF pos[2] = 0 THEN HostCell(notice) ELSE cells[pos]]

\* What the cells shown depend on.
SameShown(p, q) ==
    /\ q.show = p.show
    /\ p.show => /\ q.cells = p.cells /\ q.confirmed = p.confirmed
                 /\ q.active = p.active /\ q.flagging = p.flagging

\* The parts of the pipeline that painting leaves alone.
SameButPaint(v, w) ==
    w.host = v.host /\ w.pr = v.pr /\ w.notice = v.notice /\ w.updated = v.updated

\* What set_frames does to the predictor.
FramesSeen(p, q, sent, late) ==
    /\ q.pref = p.pref /\ q.over = p.over
    /\ q.sent = Larger(p.sent, sent) /\ q.late = Larger(p.late, late)
    /\ q.wait = p.wait \/ (q.wait = 0 /\ q.late >= p.wait)

\* The frames as set_frames lets the predictor know them, and what it makes of
\* them.
Informed(v, sent, late) == ObserveLateAck(SetWatermarks(v.pr, sent, late), v.updated)

Rejudged(v, sent, late, repaired, age) ==
    IF v.pr.cells = << >> /\ ~v.pr.active THEN Informed(v, sent, late)
    ELSE SampleAge(Confirm(Informed(v, sent, late), v.host, repaired), age)

\* Another screen and another predictor.
OnScreen(v, host, pr) == [v EXCEPT !.host = host, !.pr = pr]

\* Another frame and another predictor.
OnFrame(v, host, updated, pr) == [v EXCEPT !.host = host, !.updated = updated, !.pr = pr]

\* What on_host_frame makes of the predictor.
Framed(v, frame, repaired, age) ==
    SampleAge(Confirm(SetCursor(IF Moved(v, frame) THEN Reset(v.pr) ELSE v.pr, frame),
                      frame, repaired), age)

\* The predictor with the host's cursor.
Synced(v) == IF v.pr.active THEN v.pr ELSE SetCursor(v.pr, v.host)

-----------------------------------------------------------------------------
(***************************************************************************)
(* The session's frames, and all of it joined.                             *)
(***************************************************************************)

\* Frames of the stream in order, none beyond the next.
Ordered(st, next) ==
    /\ \A i \in 1 .. Len(st) : st[i].frame <= next
    /\ \A i, j \in 1 .. Len(st) : i <= j => st[i].frame <= st[j].frame

\* All input but sizes is promised to the frames up to f.
TypedBy(st, f) == \A i \in 1 .. Len(st) : st[i].byte # "resize" => st[i].frame <= f

\* The predictor knows the frames of the session while the loop runs, and
\* waits for a frame that carries all that was typed.
PauseInv ==
    /\ phase = "running" => d.pr.sent = remote.sent /\ d.pr.late = remote.echo
    /\ d.pr.pref = "never" => d.pr.wait = 0
    /\ d.pr.wait # 0 => TypedBy(stream, d.pr.wait)

SessionInv ==
    /\ remote.echo <= remote.sent /\ remote.done <= Len(stream)
    /\ Ordered(stream, remote.sent + 1)

DisplayInv == PipeInv(d) /\ d.notice \in Notices \cup {NoNotice}

MainInv == InputInv /\ DisplayInv /\ SessionInv /\ PauseInv

-----------------------------------------------------------------------------
(***************************************************************************)
(* The application over the whole stream, and how a key is predicted as it *)
(* will be taken.                                                          *)
(***************************************************************************)

\* The application after the first n elements of st.
AppOf(st, n) == FoldLeft(Absorb, Start(scene.size), SubSeq(st, 1, n))

\* Its screens over all of st.
ScreensOf(st) == [n \in 0 .. Len(st) |-> AppOf(st, n).scr]

\* A screen with a glyph in each of its cells.
Glyphs(scr) == ScreenOK(scr) /\ DOMAIN scr.cell = PositionsOf(scr.size)

\* The cells after a glyph is drawn at the cursor.
DrawnCells(scr, ch, over) ==
    [pos \in DOMAIN scr.cell |->
        IF pos = scr.cur THEN ch
        ELSE IF ~over /\ pos \in RowFrom(scr.cur, scr) THEN scr.cell[LeftOf(pos)]
        ELSE scr.cell[pos]]

\* What the echoing application does with a key, the n-th element it gets.
KeyOn(scr, token, n) ==
    IF token \in {"none", "ctl", "wide", "sequence"} THEN scr
    ELSE IF token = "cr" THEN LineFeed(scr, n)
    ELSE Obey(scr, token, scene.over, n)

\* An application that echoes, after n elements of its input.
Echoing(app, n) ==
    /\ AppOK(app) /\ Glyphs(app.scr)
    /\ app.n = n /\ app.scr.gen \in 0 .. n
    /\ app.prompts = FALSE /\ app.unseen = FALSE

\* What stands on the predictor's screen stands on the application's, s, as
\* long as neither has scrolled.
Knows(p, host, s) ==
    s.gen = host.gen =>
        \A pos \in DOMAIN s.cell :
            IF pos \in DOMAIN p.cells THEN p.cells[pos].unknown \/ p.cells[pos].ch = s.cell[pos]
            ELSE host.cell[pos] = s.cell[pos]

\* The cells of q are those of p, or wait for the next frame.
Adds(p, q) ==
    /\ DOMAIN p.cells \subseteq DOMAIN q.cells
    /\ \A pos \in DOMAIN q.cells :
          \/ pos \in DOMAIN p.cells /\ q.cells[pos] = p.cells[pos]
          \/ q.cells[pos].exp = p.sent + 1 /\ Newest(q)

\* They tell what becomes of screen s, if it does not scroll, and where they
\* are silent it stays.
Tells(p, q, s, t, host) ==
    t.gen = s.gen =>
        \A pos \in DOMAIN s.cell :
            \/ t.cell[pos] = s.cell[pos]
               /\ (pos \in DOMAIN q.cells => pos \in DOMAIN p.cells /\ q.cells[pos] = p.cells[pos])
            \/ /\ pos \in DOMAIN q.cells /\ q.cells[pos].exp = p.sent + 1
               /\ s.gen = host.gen => q.cells[pos].unknown \/ q.cells[pos].ch = t.cell[pos]

\* The cursor stays, or a new one is predicted where it goes.
Leads(p, q, s, t) ==
    \/ q.cells = p.cells /\ q.cursors = p.cursors /\ q.active = p.active /\ q.cur = p.cur /\ t.cur = s.cur
    \/ Newest(q) /\ q.active = TRUE /\ t.cur = q.cur

\* A key is predicted as the application will take it.
Foretold(p, q, s, t, host) ==
    Adds(p, q) /\ Tells(p, q, s, t, host) /\ Leads(p, q, s, t) /\ q.held = p.held

\* A predictor on the screen of the application, ready for a key.
Ready(p, s, host) ==
    /\ Guessing(p, host.size) /\ p.epoch <= Ceiling(p)
    /\ Glyphs(host) /\ Glyphs(s) /\ s.size = host.size /\ p.cur = s.cur

-----------------------------------------------------------------------------
(***************************************************************************)
(* The guesses: what the predictor knows of the application's future.      *)
(***************************************************************************)

\* The first n elements hold all that the frames up to f carry.
Covers(st, n, f) == \A i \in 1 .. Len(st) : st[i].frame <= f => i <= n

\* A guess holds on every screen that answers its frame and has scrolled no
\* further than the host's; the newest cursor waits the longest, and it is
\* where the cursor will be.
Sound(p, host, S, st) ==
    /\ \A pos \in DOMAIN p.cells : p.cursors # << >> /\ p.cells[pos].exp <= Last(p.cursors).exp
    /\ \A pos \in DOMAIN p.cells, n \in 0 .. Len(st) :
          Covers(st, n, p.cells[pos].exp) /\ S[n].gen = host.gen =>
              p.cells[pos].unknown \/ S[n].cell[pos] = p.cells[pos].ch
    /\ p.active => p.cursors # << >>
    /\ \A n \in 0 .. Len(st) :
          p.cursors # << >> /\ Covers(st, n, Last(p.cursors).exp) => S[n].cur = p.cur

\* What the host's screen, S[h], does not tell of the last one is guessed.
Traced(p, h, S, st) ==
    /\ \A pos \in DOMAIN S[Len(st)].cell, n \in h .. Len(st) :
          (pos \in DOMAIN p.cells => Covers(st, n, p.cells[pos].exp)) /\ S[n].gen = S[Len(st)].gen =>
              S[n].cell[pos] = S[Len(st)].cell[pos]
    /\ p.cursors = << >> => \A n \in h .. Len(st) : S[n].cur = S[Len(st)].cur

\* The host's screen is S[h], though it may count its scrolling otherwise.
Matches(host, h, S, st) ==
    /\ h \in 0 .. Len(st) /\ host.gen <= h
    /\ host.size = S[h].size /\ host.cell = S[h].cell /\ host.cur = S[h].cur
    /\ \A n \in h .. Len(st) :
          S[n].size = host.size /\ (S[n].gen = host.gen => S[h].gen = host.gen)

\* The screens of an application that echoes.
Echoed(S, st) == \A n \in 0 .. Len(st) : Glyphs(S[n]) /\ S[n].gen \in 0 .. n

\* What guesses wait for has a number, the next frame's at most.
Awaits(p) ==
    /\ p.sent \in Nat
    /\ \A pos \in DOMAIN p.cells : p.cells[pos].exp \in Nat /\ p.cells[pos].exp <= p.sent + 1
    /\ p.cursors # << >> => Last(p.cursors).exp \in Nat /\ Last(p.cursors).exp <= p.sent + 1

\* S2 goes on where S ended, from screen s to screen t.
GoesOn(S, S2, st, s, t) ==
    /\ \A n \in 0 .. Len(st) : S2[n] = S[n]
    /\ s = S[Len(st)] /\ t = S2[Len(st) + 1]
    /\ t.gen = s.gen \/ t.gen = Len(st) + 1
    /\ DOMAIN t.cell = DOMAIN s.cell

\* The predictor holds back what a read leaves over.
Holds(q, r) == q.held = r.held

\* A predictor that is where the application will be once it has all of st.
OnTrack(p, host, h, st) ==
    /\ PredictorInv(p, host.size) /\ p.over = scene.over
    /\ p.cur = AppOf(st, Len(st)).scr.cur /\ p.held = AppOf(st, Len(st)).held
    /\ Matches(host, h, ScreensOf(st), st)
    /\ Sound(p, host, ScreensOf(st), st) /\ Traced(p, h, ScreensOf(st), st)

\* New guesses wait for frame f.
Grows(p, q, f) ==
    /\ \A pos \in DOMAIN q.cells :
          \/ pos \in DOMAIN p.cells /\ q.cells[pos] = p.cells[pos]
          \/ q.cells[pos].exp = f
    /\ q.cursors = p.cursors \/ (q.cursors # << >> /\ Last(q.cursors).exp = f)

\* The newest cursor stays, or it was judged and nothing is left to predict.
Leaves(p, q, scr) ==
    /\ q.held = p.held /\ q.epoch = p.epoch
    /\ \A pos \in DOMAIN q.cells : pos \in DOMAIN p.cells /\ q.cells[pos] = p.cells[pos]
    /\ \A pos \in DOMAIN p.cells : pos \in DOMAIN q.cells \/ IsDue(p, p.cells[pos])
    /\ \/ /\ Idle(q) /\ q.cur = scr.cur
          /\ p.cursors # << >> => IsDue(p, Last(p.cursors))
       \/ /\ p.cursors # << >> /\ q.cursors # << >> /\ Last(q.cursors) = Last(p.cursors)
          /\ q.cur = p.cur /\ q.active

\* What is due came true, and the newest cursor waits the longest.
Vindicated(p, scr) ==
    /\ \A pos \in DOMAIN p.cells :
          IsDue(p, p.cells[pos]) => p.cells[pos].unknown \/ p.cells[pos].ch = scr.cell[pos]
    /\ \A pos \in DOMAIN p.cells : p.cursors # << >> /\ p.cells[pos].exp <= Last(p.cursors).exp
    /\ p.cursors # << >> /\ IsDue(p, Last(p.cursors)) => p.cur = scr.cur

\* Guesses stay, or they were answered by the first k elements; the newest
\* cursor stays, or nothing is left to predict.
Trails(p, q, k, st) ==
    /\ \A pos \in DOMAIN q.cells : pos \in DOMAIN p.cells /\ q.cells[pos] = p.cells[pos]
    /\ \A pos \in DOMAIN p.cells : pos \in DOMAIN q.cells \/ Covers(st, k, p.cells[pos].exp)
    /\ \/ Idle(q) /\ (p.cursors # << >> => Covers(st, k, Last(p.cursors).exp))
       \/ /\ p.cursors # << >> /\ q.cursors # << >> /\ Last(q.cursors) = Last(p.cursors)
          /\ q.cur = p.cur

\* Nothing predicted is answered by the first k elements.
NotYet(p, k, st) ==
    /\ \A pos \in DOMAIN p.cells : ~Covers(st, k, p.cells[pos].exp)
    /\ p.cursors # << >> => ~Covers(st, k, Last(p.cursors).exp)

\* After the first h elements the size stays.
Rests(st, h) == \A j \in h + 1 .. Len(st) : st[j].byte # "resize"

\* The host's screen is the last one shown; or a size was sent after it, and
\* it is that screen in the new size, or, shown once more, the old one with
\* nothing predicted.  Guesses made for the new size are not answered yet.
Abreast(v, S, st, done, h) ==
    /\ done \in 0 .. Len(st) /\ h \in 0 .. Len(st) /\ (h = done \/ h = done + 1)
    /\ Rests(st, h)
    /\ h # done => S[h].size # S[done].size /\ NotYet(v.pr, done, st)
    /\ v.host.gen \in 0 .. h
    /\ \/ /\ v.host.size = S[h].size /\ v.host.cell = S[h].cell /\ v.host.cur = S[h].cur
          /\ h = done => v.host = S[done]
       \/ h # done /\ v.host = S[done] /\ Idle(v.pr)
    /\ Sound(v.pr, v.host, S, st)

\* Where the new screen is in the stream.
Later(h, n) == IF h <= n THEN n ELSE h

\* The pipeline w shows the n-th screen, coming from v, and has it judged.
Paints(v, w, frame, repaired, age) == w.host = frame /\ w.pr = Framed(v, frame, repaired, age)

\* The pipeline u shows what w does, with the frames acknowledged.
Hears(w, u, sent, late, repaired, age) ==
    u.host = w.host /\ u.pr = Rejudged(w, sent, late, repaired, age)

\* In every loop: the host's screen is the last one that came, unless a size
\* was sent since; it answers the frames the predictor takes as acknowledged;
\* and what is not to be predicted is not.
Known(v, S, st, done) ==
    /\ v.host = S[done] \/ ~Rests(st, done)
    /\ Covers(st, done, v.pr.late)
    /\ v.pr.pref = "never" \/ v.pr.wait # 0 => Idle(v.pr)

\* With nothing astray, guesses come true, and while keys are read they tell
\* what the host's screen does not.
Guessed(v, S, st, done, live) ==
    \E h \in 0 .. Len(st) :
        /\ Abreast(v, S, st, done, h)
        /\ live /\ v.pr.pref # "never" /\ v.pr.wait = 0 => Traced(v.pr, h, S, st)

TrueInv ==
    /\ Known(d, ScreensOf(stream), stream, remote.done)
    /\ d.pr.over = scene.over
    /\ ~astray /\ ~scene.prompts =>
          Guessed(d, ScreensOf(stream), stream, remote.done, phase = "running")

-----------------------------------------------------------------------------
(***************************************************************************)
(* The steps of the loop that the guesses go through.                      *)
(***************************************************************************)

\* A poll by its two steps: w shows the screen that came, if one did, and u
\* knows the frames acknowledged.
Polled(r, repaired, age, w, u) ==
    /\ remote' = r /\ d'.host = u.host /\ d'.pr = u.pr
    /\ IF News(r) THEN Paints(d, w, ScreensOf(stream)[r.done], repaired, age) ELSE w = d
    /\ PredictorInv(w.pr, w.host.size) /\ w.pr.late = d.pr.late
    /\ Hears(w, u, r.sent, r.echo, repaired, age)
    /\ u.pr.pref = d.pr.pref /\ u.pr.over = d.pr.over
    /\ u.pr.wait = d.pr.wait \/ u.pr.wait = 0
    /\ astray' = ((astray \/ LostTrack(d.pr, u.pr, r)) /\ ~Recovered(u.pr, r))

\* One element more, seen from both streams.
OneLonger(st, st2, item) ==
    /\ \A n \in 0 .. Len(st) : AppOf(st2, n) = AppOf(st, n)
    /\ \A n \in 0 .. Len(st) : ScreensOf(st2)[n] = ScreensOf(st)[n]
    /\ AppOf(st2, Len(st) + 1) = Absorb(AppOf(st, Len(st)), item)
    /\ ScreensOf(st2)[Len(st) + 1] = AppOf(st2, Len(st) + 1).scr

\* The predictor of w is that of v after the read: idle where it may not
\* predict, and otherwise it has predicted every byte or gave up on a bulk.
Typed(v, w, bytes) ==
    /\ w.host = v.host /\ w.pr.pref = v.pr.pref /\ w.pr.over = v.pr.over /\ w.pr.late = v.pr.late
    /\ w.pr.pref = "never" \/ w.pr.wait # 0 => Idle(w.pr)
    /\ w.pr.pref # "never" /\ w.pr.wait = 0 =>
          /\ v.pr.wait = 0 /\ ~Erases(bytes)
          /\ ~(Len(v.pr.held) + Len(bytes) > BulkInput) => w.pr = PredictAll(Synced(v), bytes, v.host)

\* A read goes astray only where it is predicted without the screen or the
\* sequence that it continues, or in bulk.
Astray(v, app, bytes) ==
    v.pr.held # app.held \/ v.host.size # app.scr.size \/ Len(v.pr.held) + Len(bytes) > BulkInput
=============================================================================
