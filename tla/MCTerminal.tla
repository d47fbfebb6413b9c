----------------------------- MODULE MCTerminal -----------------------------
(***************************************************************************)
(* Small instances of Terminal for TLC: what the server sends, after the   *)
(* frames that mosh's Display draws, and the commands it never needs.      *)
(***************************************************************************)
EXTENDS Terminal

At(x, y) == Cup(<<x, y>>)
Utf8(glyph) == <<"utf8", glyph>>
Sgr(params) == Csi(Append(params, "m"))
Link(name) == <<"esc", "]", "8;", name, "esc", "\\">>

\* Wide glyphs put over, next to and out of each other, at the right border
\* and at the bottom, as libc and as xterm.js count columns.
Wide ==
    [size |-> <<4, 2>>, sizes |-> {}, wide |-> ServerWide, splits |-> FALSE, predicts |-> TRUE,
     chunks |-> {At(0, 0) \o Utf8("cjk"), At(1, 0) \o Utf8("cjk"), At(0, 1) \o Utf8("emoji"),
                 At(1, 0) \o Utf8("emoji") \o <<"b">>, At(1, 0) \o <<"a">>,
                 <<"bs", "bs">> \o Csi(<<"K">>), At(3, 1) \o Utf8("cjk")},
     maxChunks |-> 4, maxResizes |-> 0]

Narrow == [Wide EXCEPT !.wide = ServerWide \ Supplementary]

\* Renditions, marks, erasures and links.
Colors ==
    [Wide EXCEPT !.predicts = FALSE, !.maxChunks = 3,
        !.chunks = {Sgr(<<"1", ";", "31">>), Sgr(<<"48", ";", "5", ";", "100">>), Sgr(<<"22">>),
                    Sgr(<< >>), Utf8("accent"), <<"a">>, Link("u"), Link("none"), Link("v") \o <<"b">>,
                    At(1, 0) \o Csi(<<"2", "X">>), At(0, 0) \o Csi(<<"J">>), <<"cr", "lf">>}]

\* Margins, scrolling and everything that moves rows or columns.
Editing ==
    [Wide EXCEPT !.size = <<3, 3>>, !.predicts = FALSE, !.maxChunks = 3,
        !.chunks = {At(0, 0) \o <<"a", "b">>, At(0, 2) \o <<"b">>, Csi(<<"2", ";", "3", "r">>),
                    Csi(<<"L">>), Csi(<<"M">>), <<"lf">>, <<"esc", "M">>, Csi(<<"@">>), Csi(<<"P">>),
                    Mode(6, TRUE), Csi(<<"4", "h">>), <<"esc", "E">>, Mode(7, FALSE), <<"a", "b">>}]

\* Modes and titles, tab stops, a saved cursor, and a window of other sizes.
Modes ==
    [Wide EXCEPT !.size = <<3, 2>>, !.sizes = {<<2, 3>>, <<3, 2>>, <<10, 1>>}, !.predicts = FALSE, !.maxChunks = 3,
        !.chunks = {Mode(1000, TRUE) \o Mode(1006, TRUE), Mode(1002, TRUE), Mode(1002, FALSE),
                    Mode(2004, TRUE) \o Mode(25, FALSE) \o Mode(5, TRUE) \o Mode(1004, TRUE),
                    Osc("0;", "t") \o <<"bel">>, Osc("2;", "u"), Osc("52;c;", "x"),
                    <<"tab", "a", "esc", "H">>, Csi(<<"2", "Z">>) \o <<"b">>, Csi(<<"3", "g">>),
                    At(2, 1) \o <<"esc", "7">>, <<"esc", "8", "a">>},
        !.maxResizes = 1]

\* The same read in pieces.
Pieces ==
    [Wide EXCEPT !.splits = TRUE, !.predicts = FALSE, !.maxChunks = 3,
        !.chunks = {Utf8("cjk"), At(2, 1) \o <<"a">>, Link("u") \o <<"a">> \o Link("none"),
                    <<"cr">> \o Link("v") \o <<"b">>, Sgr(<<"7">>), Csi(<<"?", "5", ";", "25", "h">>),
                    Csi(<<">", "0", "c">>), <<"utf8", "b">>}]

\* A wide glyph in a window that gets narrower.
Cut ==
    [Wide EXCEPT !.sizes = {<<2, 2>>}, !.predicts = FALSE, !.maxResizes = 1,
        !.chunks = {At(1, 0) \o Utf8("cjk"), At(0, 1) \o <<"a">>}]

Screens == {Wide, Narrow, Colors, Editing, Modes, Pieces}
JustCut == {Cut}
=============================================================================
