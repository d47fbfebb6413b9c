----------------------------- MODULE LocalEscape -----------------------------
(***************************************************************************)
(* The local commands of src/src/bin/mosh_client.rs: an escape key and the *)
(* byte after it are taken out of the user's input, wherever the reads     *)
(* from the terminal happen to end.                                        *)
(***************************************************************************)
EXTENDS Integers, Sequences, SequencesExt

CONSTANTS
    EscapeKey,         \* the byte that starts a command, "off" when disabled
    PassKeys,          \* the bytes that ask for a literal escape key
    NeedsLineStart     \* a printable escape key counts only after a newline

ASSUME EscapeAssumption == NeedsLineStart \in BOOLEAN

EscapeState == [pending : BOOLEAN, lineStart : BOOLEAN]

\* from_value: no line has been entered yet.
NewEscape == [pending |-> FALSE, lineStart |-> FALSE]

LineEnds == {"cr", "lf"}

\* What a byte after the escape key sends to the server.
Command(byte) ==
    IF byte \in {".", "ctrl-z"} THEN << >>
    ELSE IF byte \in PassKeys THEN <<EscapeKey>>
    ELSE <<EscapeKey, byte>>

\* One byte of the loop in process; nothing is read after a quit.
ProcessByte(r, byte) ==
    IF r.quit THEN r
    ELSE IF r.esc.pending
    THEN [esc |-> [pending |-> FALSE, lineStart |-> FALSE],
          forward |-> r.forward \o Command(byte), quit |-> byte = "."]
    ELSE IF byte = EscapeKey /\ (NeedsLineStart => r.esc.lineStart)
    THEN [r EXCEPT !.esc = [pending |-> TRUE, lineStart |-> FALSE]]
    ELSE [r EXCEPT !.forward = Append(@, byte), !.esc.lineStart = byte \in LineEnds]

\* Faulty: a command has to arrive in one read.
ProcessAlone(esc, input) ==
    FoldLeft(ProcessByte, [esc |-> [esc EXCEPT !.pending = FALSE],
                           forward |-> << >>, quit |-> FALSE], input)

\* process
ProcessInput(esc, input) ==
    FoldLeft(ProcessByte, [esc |-> esc, forward |-> << >>, quit |-> FALSE], input)

-----------------------------------------------------------------------------
(***************************************************************************)
(* What the commands mean, for everything read at once.                    *)
(***************************************************************************)

\* The positions of input at which a command starts: the escape key, not
\* itself the second byte of a command, and, where that is asked for, right
\* after a newline that is not one either.
CommandStarts(input) ==
    LET starts[i \in 0 .. Len(input)] ==
            /\ i > 0 /\ input[i] = EscapeKey /\ ~starts[i - 1]
            /\ NeedsLineStart =>
                   /\ i > 1 /\ input[i - 1] \in LineEnds
                   /\ ~starts[i - 2]
    IN  {i \in 1 .. Len(input) : starts[i]}

\* What the server is to get of it: nothing from the command to quit on.
Meant(input) ==
    LET starts == CommandStarts(input)
        quits  == {i \in DOMAIN input : i - 1 \in starts /\ input[i] = "."}
        part(i) == IF i \in starts \/ (\E q \in quits : q < i) THEN << >>
                   ELSE IF i - 1 \in starts THEN Command(input[i])
                   ELSE <<input[i]>>
    IN  FlattenSeq([i \in 1 .. Len(input) |-> part(i)])
=============================================================================
