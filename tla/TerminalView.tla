---------------------------- MODULE TerminalView ----------------------------
(***************************************************************************)
(* The client's copy of the server's screens, src/src/terminal.rs: one     *)
(* snapshot per host state the client may still be sent diffs against.     *)
(*                                                                         *)
(* A screen is an opaque value.  A host diff repaints the screen it was    *)
(* computed from into another and may carry the server's echo              *)
(* acknowledgement; applied to any other screen it leaves garbage.  How a  *)
(* diff is painted (framebuffer.rs, ansi_apply.rs) and what is written to  *)
(* the local terminal (display.rs) is left out.                            *)
(***************************************************************************)
EXTENDS Naturals

CONSTANTS
    Screens,           \* what the server's screen may look like
    Blank,             \* a new screen
    Garbled            \* a screen no server ever showed

ASSUME ScreenAssumption == Blank \in Screens /\ Garbled \notin Screens

HostState == [screen : Screens, echo : Nat]

HostDiff == [from : Screens, to : Screens, echo : Nat]

\* A view is a record: remote_states by number, latest_remote_num, the
\* screen of displayed_remote, echo_ack.
BlankState == [screen |-> Blank, echo |-> 0]

NewView ==
    [states |-> [n \in {0} |-> BlankState], latest |-> 0,
     displayed |-> Blank, echo |-> 0]

-----------------------------------------------------------------------------

AtLeast(a, b) == IF a < b THEN b ELSE a

\* apply_host_message; an empty diff holds no instruction.
ApplyHostMessage(state, diff) ==
    IF diff \notin HostDiff THEN state
    ELSE [screen |-> IF state.screen = diff.from THEN diff.to ELSE Garbled,
          echo   |-> AtLeast(state.echo, diff.echo)]

\* Faulty: repaints whatever is on display.
PaintDisplayed(v, old, diff) ==
    ApplyHostMessage([screen |-> v.displayed, echo |-> v.echo], diff)

\* The declared base, repainted.
Paint(v, old, diff) == ApplyHostMessage(v.states[old], diff)

\* Faulty: forgets the watermark's own state.
RetainAbove(v, throw) == {n \in DOMAIN v.states : throw = 0 \/ n > throw}

Retain(v, throw) == {n \in DOMAIN v.states : throw = 0 \/ n >= throw}

\* Faulty: shows whatever came last.
ShowAlways(v, new, next) ==
    [v EXCEPT !.latest = new, !.displayed = next.screen, !.echo = next.echo]

\* Only a newer state reaches the display.
Show(v, new, next) ==
    IF new <= v.latest THEN v
    ELSE [v EXCEPT !.latest = new, !.displayed = next.screen,
                   !.echo = AtLeast(@, next.echo)]

\* apply_host_state: the view afterwards, and whether the state was rejected
\* (its base is not there, its size is illegal or the history would outgrow
\* MAX_REMOTE_STATE_BYTES: "oversized").  A rejection changes nothing.
ApplyHostState(v, old, new, throw, diff, oversized) ==
    LET next == Paint(v, old, diff)
        kept == Retain(v, throw)
        held == [v EXCEPT !.states =
                   [n \in kept \cup {new} |-> IF n = new THEN next ELSE v.states[n]]]
    IN  IF new \in DOMAIN v.states THEN [v |-> v, rejected |-> FALSE]
        ELSE IF old \notin DOMAIN v.states \/ oversized THEN [v |-> v, rejected |-> TRUE]
        ELSE [v |-> Show(held, new, next), rejected |-> FALSE]
=============================================================================
