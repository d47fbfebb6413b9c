------------------------------ MODULE Terminal ------------------------------
(***************************************************************************)
(* From the bytes of the server to the user's terminal: host states are    *)
(* read into a framebuffer (src/src/terminal.rs), frames are painted as    *)
(* the difference from what was painted last (DisplayPipeline in           *)
(* src/src/prediction.rs), and the terminal interprets the paint.          *)
(*                                                                         *)
(* The terminal is the same interpreter, as in the replays of the          *)
(* repository's tests, or one with the widths of xterm.js.                 *)
(***************************************************************************)
EXTENDS FrameDiff

CONSTANT Scenes
(* A scene: size, the sizes the window may take; wide, the glyphs that take *)
(* two columns on the user's terminal; chunks, what the server sends, each  *)
(* whole or, with splits, cut in two; predicts, whether a prediction may be *)
(* drawn over a frame; maxChunks and maxResizes.                            *)

ASSUME ScenesAssumption == \A s \in Scenes :
    s.maxChunks \in Nat /\ s.maxResizes \in Nat /\ s.wide \subseteq ServerWide

VARIABLES
    scene,
    host,      \* the host's framebuffer and pen, as host states arrive
    whole,     \* the same bytes read at once, with every link kept
    rest,      \* what is still to come of a chunk that was cut
    shown,     \* last_shown: the frame painted last
    local,     \* the user's terminal
    chunks, resizes

vars == <<scene, host, whole, rest, shown, local, chunks, resizes>>

-----------------------------------------------------------------------------
Init ==
    /\ scene \in Scenes
    /\ host = NewTerminal(scene.size, ServerWide)
    /\ whole = host
    /\ rest = << >>
    /\ shown = NoFrame
    /\ local = NewTerminal(scene.size, scene.wide)
    /\ chunks = 0 /\ resizes = 0

\* apply_host_message, for a hoststring.
Read(t, data) ==
    LET after == ApplyAnsi(t, data) IN [after EXCEPT !.fb = CompactHyperlinks(@)]

\* A host state arrives with a chunk, or with its first part.
Receive(chunk, n) ==
    /\ chunks < scene.maxChunks /\ rest = << >>
    /\ chunks' = chunks + 1
    /\ host' = Read(host, SubSeq(chunk, 1, n))
    /\ rest' = SubSeq(chunk, n + 1, Len(chunk))
    /\ whole' = ApplyAnsi(whole, chunk)
    /\ UNCHANGED <<scene, shown, local, resizes>>

\* The next one brings what was left.
ReceiveRest ==
    /\ rest # << >>
    /\ host' = Read(host, rest)
    /\ rest' = << >>
    /\ UNCHANGED <<scene, whole, shown, local, chunks, resizes>>

\* overlay: a narrow glyph predicted at the cursor, flagged.
Predicted(fb) ==
    [fb EXCEPT !.cell[fb.cur] = [@ EXCEPT !.ch = "b", !.marks = << >>, !.empty = FALSE,
                                          !.width = 1, !.attr.on = @ \cup {4}],
               !.cur = <<Clamp(@[1] + 1, 0, LastCol(fb)), @[2]>>]

Frames == {host.fb} \cup (IF scene.predicts THEN {Predicted(host.fb)} ELSE {})

\* render_host_only, render_overlay_path: the paint goes to the terminal.
Paint(frame) ==
    /\ frame # shown
    /\ local' = ApplyAnsi(local, Diff(frame, shown))
    /\ shown' = frame
    /\ UNCHANGED <<scene, host, whole, rest, chunks, resizes>>

\* The user's window changes its size: DisplayPipeline::resize repaints from
\* nothing.  The host's state follows when the server has learned of it.
Resize(size) ==
    /\ resizes < scene.maxResizes /\ rest = << >> /\ size # host.fb.size
    /\ resizes' = resizes + 1
    /\ host' = [host EXCEPT !.fb = ResizeGrid(@, size)]
    /\ whole' = [whole EXCEPT !.fb = ResizeGrid(@, size)]
    /\ shown' = host'.fb
    /\ local' = ApplyAnsi([local EXCEPT !.fb = ResizeGrid(@, size)], Diff(host'.fb, NoFrame))
    /\ UNCHANGED <<scene, rest, chunks>>

Next ==
    \/ \E chunk \in scene.chunks :
           \E n \in (IF scene.splits THEN 1 .. Len(chunk) ELSE {Len(chunk)}) : Receive(chunk, n)
    \/ ReceiveRest
    \/ \E frame \in Frames : Paint(frame)
    \/ \E size \in scene.sizes : Resize(size)

Spec == Init /\ [][Next]_vars

-----------------------------------------------------------------------------
(***************************************************************************)
(* Properties.                                                             *)
(***************************************************************************)

FrameOK(fb) ==
    /\ DOMAIN fb.cell = Grid(fb.size)
    /\ {fb.cur} \cup fb.comb \subseteq Grid(fb.size) /\ Cardinality(fb.comb) <= 1
    /\ 0 <= fb.top /\ fb.top <= fb.bottom /\ fb.bottom <= LastRow(fb)
    /\ fb.tabs \subseteq 0 .. LastCol(fb)
    /\ IsInjective(fb.links) /\ Referenced(fb) \subseteq 0 .. Len(fb.links)
    /\ \A pos \in DOMAIN fb.cell : LET c == fb.cell[pos] IN
           c.width \in 0 .. 2 /\ c.ch \in Glyphs /\ ToSet(c.marks) \subseteq Marks
           /\ ContentLen(c) <= GraphemeLimit

\* Cursor, margins, tab stops and links stay within the grid, whatever size
\* it takes and whatever the server restores (Framebuffer, AnsiPen).
TypeOK ==
    /\ FrameOK(host.fb) /\ FrameOK(local.fb)
    /\ shown.size # <<0, 0>> => FrameOK(shown)

\* A cell as it looks.
Look(fb, pos) ==
    LET c == fb.cell[pos] IN <<c.ch, c.marks, c.attr, LinkName(fb, c.link)>>

\* What is not a cell: cursor, modes, titles.
Stance(fb) ==
    <<fb.cur, fb.visible, fb.reverse, fb.paste, fb.mouse, fb.focus, fb.encoding,
      fb.top, fb.bottom, LinkName(fb, fb.link)>>

\* A paint makes the terminal show the frame: every glyph stands where the
\* frame has it, even on a terminal that gives some glyphs fewer columns,
\* half a glyph is left nowhere, and cursor, modes and titles are the
\* frame's (Framebuffer::diff and its replay by the terminal).
LocalShowsFrame == shown.size # <<0, 0>> =>
    /\ \A y \in 0 .. LastRow(shown) : \A x \in VisibleStarts(shown, y) :
           Look(local.fb, <<x, y>>) = Look(shown, <<x, y>>)
    /\ scene.wide = ServerWide => \A y \in 0 .. LastRow(shown) :
           \A x \in VisibleStarts(shown, y) :
               WidthAt(local.fb, <<x, y>>) = WidthAt(shown, <<x, y>>)
    /\ Stance(local.fb) = Stance(shown)
    /\ shown.title \in {"none", local.fb.title} /\ shown.icon \in {"none", local.fb.icon}

\* However the bytes were cut, and however often links were compacted, the
\* host's screen is that of the bytes read at once (AnsiPen::carry,
\* compact_hyperlinks).
CutsDontMatter == rest = << >> =>
    /\ \A pos \in DOMAIN host.fb.cell : Look(host.fb, pos) = Look(whole.fb, pos)
    /\ Stance(host.fb) = Stance(whole.fb)
    /\ host.pen = whole.pen
    /\ <<host.fb.wrap, host.fb.comb, host.fb.gen>> = <<whole.fb.wrap, whole.fb.comb, whole.fb.gen>>

RowOf(fb, y) == [x \in 0 .. LastCol(fb) |-> fb.cell[<<x, y>>]]

\* Row y, which has contents, stands in row z now, and did not before.
Moved(y, z) ==
    /\ \E x \in 0 .. LastCol(host.fb) : ~ host.fb.cell[<<x, y>>].empty
    /\ RowOf(host'.fb, z) = RowOf(host.fb, y) /\ RowOf(host.fb, z) # RowOf(host.fb, y)
    /\ RowOf(host'.fb, y) # RowOf(host.fb, y)

\* Rows do not move without a new scroll generation, on which predictions
\* made for the old rows are dropped (Framebuffer::scroll_generation).
MovesAreTold == [][host'.fb.gen = host.fb.gen =>
    \A y, z \in 0 .. LastRow(host.fb) : ~ Moved(y, z)]_host
=============================================================================
