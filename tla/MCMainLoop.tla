----------------------------- MODULE MCMainLoop -----------------------------
(***************************************************************************)
(* Small instances of MainLoop for TLC.                                    *)
(***************************************************************************)
EXTENDS MainLoop

\* Input in flight: keys, newlines, erasures, arrows whole and split.
Typing ==
    [size |-> <<3, 2>>, sizes |-> {}, pref |-> "always", over |-> FALSE,
     prompts |-> FALSE, quiet |-> FALSE,
     reads |-> {<<"a">>, <<"b">>, <<"cr">>, <<"erase">>, <<"esc", "[", "D">>},
     srtts |-> {25}, ages |-> {0},
     maxReads |-> 3, maxFrames |-> 3, maxResizes |-> 0]

\* Every second line is a secret.
Secrets == [Typing EXCEPT !.prompts = TRUE, !.reads = {<<"a">>, <<"cr">>}, !.maxReads = 4]

\* What is painted when predictions appear, age, are flagged and withdrawn,
\* notices come and go and the terminal changes its size.
Painting ==
    [Typing EXCEPT !.pref = "adaptive", !.quiet = TRUE, !.sizes = {<<2, 2>>},
                   !.reads = {<<"a">>, <<"cr">>}, !.srtts = {10, 100},
                   !.ages = {0, 5000}, !.maxReads = 2, !.maxFrames = 2,
                   !.maxResizes = 1]

Experimental ==
    [Painting EXCEPT !.pref = "experimental", !.quiet = FALSE, !.over = TRUE,
                     !.reads = {<<"a">>, <<"esc">>, <<"[", "D">>, <<"ctl">>}]

\* Local commands, in one read and split over several.
Commands ==
    [Typing EXCEPT !.pref = "never",
                   !.reads = {<<"cr">>, <<"~">>, <<".", "a">>, <<"~", "a">>, <<"cr", "~">>, <<"ctrl-z">>},
                   !.maxReads = 3, !.maxFrames = 1]

\* A proven line, an arrow, a newline.
Proven == [Typing EXCEPT !.reads = {<<"a">>, <<"cr">>, <<"esc", "[", "D">>},
                         !.maxReads = 3, !.maxFrames = 5]

\* An escape sequence begun in a pause after an erasure, and ended after it.
Paused == [Typing EXCEPT !.size = <<3, 1>>,
                         !.reads = {<<"a", "erase">>, <<"esc">>, <<"[", "D">>}]

\* The terminal grows while keys are under way.
Widened == [Typing EXCEPT !.size = <<2, 2>>, !.sizes = {<<3, 2>>},
                          !.reads = {<<"a">>, <<"esc", "[", "C">>},
                          !.maxFrames = 2, !.maxResizes = 1]

Scenarios == {Typing, Secrets, Painting, Experimental, Commands, Paused, Widened}
JustProven == {Proven}
=============================================================================
