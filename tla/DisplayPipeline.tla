--------------------------- MODULE DisplayPipeline ---------------------------
(***************************************************************************)
(* The single paint path of src/src/prediction.rs: the host's screen, the  *)
(* predictions over it and a notification bar in its first row make what   *)
(* the local terminal shows.  Every operation writes at most one diff from *)
(* what was shown last, and remembers what it then shows; the bytes of the *)
(* diff are left out, so painting makes the terminal show the screen.      *)
(* on_host_bytes is left out: the program paints reconstructed frames.     *)
(***************************************************************************)
EXTENDS Predictor

CONSTANT Notices       \* the texts the notification bar may show

NoNotice == "no notice"
NotShown == [size |-> <<0, 0>>, cell |-> << >>, cur |-> <<0, 0>>]

ASSUME PipelineAssumption == NoNotice \notin Notices

(***************************************************************************)
(* host: host_fb; shown: last_shown; pr: predictor; overlay:               *)
(* using_overlay_path; notice: notification; updated:                      *)
(* host_updated_since_frames.                                              *)
(***************************************************************************)
NewPipeline(size, pref, over) ==
    [host |-> EmptyScreen(size), shown |-> NotShown,
     pr |-> NewPredictor(pref, over),
     overlay |-> pref \in {"always", "experimental"},
     notice |-> NoNotice, updated |-> FALSE]

-----------------------------------------------------------------------------

Hidden == <<-1, -1>>

\* apply_notification: the bar fills the first row; a cursor in it is hidden.
WithNotice(shown, notice) ==
    IF notice = NoNotice THEN shown
    ELSE [shown EXCEPT
            !.cell = [pos \in DOMAIN @ |-> IF pos[2] = 0 THEN HostCell(notice) ELSE @[pos]],
            !.cur  = IF @[2] = 0 THEN Hidden ELSE @]

\* The host's screen as the terminal shows it.
Bare(scr) ==
    [size |-> scr.size, cell |-> [pos \in DOMAIN scr.cell |-> HostCell(scr.cell[pos])],
     cur |-> scr.cur]

\* What the terminal is to show.
Composed(d) ==
    WithNotice(IF d.pr.show THEN Overlay(d.pr, d.host) ELSE Bare(d.host), d.notice)

\* render_overlay_path
Render(d) == [d EXCEPT !.shown = Composed(d)]

RenderOverlay(d) == Render([d EXCEPT !.overlay = TRUE])

\* render_host_only, once the overlay path is left.
RenderHost(d) == [d EXCEPT !.overlay = FALSE, !.shown = Bare(d.host)]

\* A diff needs something to start from.
Started(d) == IF d.shown = NotShown THEN [d EXCEPT !.shown = Bare(d.host)] ELSE d

-----------------------------------------------------------------------------

\* set_notification
SetNotification(d, notice) ==
    LET n == [d EXCEPT !.notice = notice]
    IN  IF d.notice = notice THEN d
        ELSE IF notice # NoNotice \/ d.pr.show THEN RenderOverlay(n)
        ELSE RenderHost(n)

\* set_frames: judges again, in case only the acknowledgement moved, and
\* paints when the number of predictions, the newest cursor or the way to
\* show them changed.
SetFrames(d, sent, late, repaired, age) ==
    LET o == [d EXCEPT !.updated = FALSE,
                       !.pr = ObserveLateAck(SetWatermarks(@, sent, late), d.updated)]
        j == [o EXCEPT !.pr = SampleAge(Confirm(@, d.host, repaired), age)]
        changed == \/ DOMAIN j.pr.cells # DOMAIN d.pr.cells
                   \/ j.pr.active # d.pr.active \/ j.pr.cur # d.pr.cur
                   \/ j.pr.show # d.pr.show \/ j.pr.flagging # d.pr.flagging
    IN  IF d.pr.cells = << >> /\ ~d.pr.active THEN o
        ELSE IF ~changed THEN j
        ELSE IF j.pr.show \/ j.notice # NoNotice THEN RenderOverlay(j)
        ELSE IF j.overlay THEN RenderHost(j)
        ELSE j

\* Framebuffer::resize, as far as the predictor sees it.
ResizeScreen(scr, size) ==
    [size |-> size,
     cell |-> [pos \in PositionsOf(size) |->
                  IF pos \in DOMAIN scr.cell THEN scr.cell[pos] ELSE Empty],
     cur  |-> <<Min({scr.cur[1], size[1] - 1}), Min({scr.cur[2], size[2] - 1})>>,
     gen  |-> scr.gen + 1]

\* resize
ResizePipeline(d, size) ==
    LET host == ResizeScreen(d.host, size)
        r    == [d EXCEPT !.host = host, !.pr = SetCursor(Reset(@), host)]
    IN  IF size = d.host.size THEN d
        ELSE IF r.pr.show \/ r.notice # NoNotice THEN RenderOverlay(r)
        ELSE RenderHost(r)

\* Faulty: hiding predictions leaves them on the terminal.
LeaveShown(d, srtt) == [d EXCEPT !.pr = SetSrtt(@, srtt)]

\* set_srtt of the pipeline: paints when showing or flagging flips.
FollowSrtt(d, srtt) ==
    LET r == [d EXCEPT !.pr = SetSrtt(@, srtt)]
        pending == r.pr.active \/ r.pr.cells # << >>
    IN  IF d.pr.show /\ ~r.pr.show
        THEN IF r.notice # NoNotice THEN RenderOverlay(r) ELSE RenderHost(r)
        ELSE IF ~d.pr.show /\ r.pr.show
        THEN IF pending THEN RenderOverlay(Started(r)) ELSE [Started(r) EXCEPT !.overlay = TRUE]
        ELSE IF r.pr.show /\ r.pr.flagging # d.pr.flagging /\ r.overlay THEN Render(r)
        ELSE r

\* tick: predictions that wait for long are shown, then flagged.
PipelineTick(d, age) ==
    LET r == [d EXCEPT !.pr = SampleAge(@, age)]
    IN  IF r.pr.flagging = d.pr.flagging /\ r.pr.show = d.pr.show THEN r
        ELSE IF r.pr.cells = << >> /\ ~r.pr.show /\ r.notice = NoNotice THEN RenderHost(r)
        ELSE IF r.pr.show THEN RenderOverlay(r) ELSE Render(r)

\* The screen's geometry changed under the predictions.
Moved(d, frame) == d.host.size # frame.size \/ d.host.gen # frame.gen

\* on_host_frame
OnHostFrame(d, frame, repaired, age) ==
    LET differs == Bare(frame) # Bare(d.host)
        kept    == IF Moved(d, frame) THEN Reset(d.pr) ELSE d.pr
        r == [d EXCEPT !.host = frame, !.updated = @ \/ differs,
                       !.pr = SampleAge(Confirm(SetCursor(kept, frame), frame, repaired), age)]
    IN  IF r.pr.show \/ r.notice # NoNotice THEN RenderOverlay(r) ELSE RenderHost(r)

\* on_keystroke
OnKeystroke(d, input) ==
    LET synced == IF d.pr.active THEN d.pr ELSE SetCursor(d.pr, d.host)
        r      == [d EXCEPT !.pr = Keystroke(synced, input, d.host)]
    IN  IF d.pr.pref = "never" THEN d
        ELSE IF r.pr.show THEN RenderOverlay(Started(r)) ELSE r
=============================================================================
