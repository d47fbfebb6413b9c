------------------------------ MODULE MainLoop ------------------------------
(***************************************************************************)
(* The loop of src/src/bin/mosh_client.rs: what the user types, what comes *)
(* back from the server, and what the terminal shows of both.              *)
(*                                                                         *)
(* One action is one step of the loop.  Every turn goes through all of     *)
(* them, but each may find nothing to do, so they are taken in any order;  *)
(* what one turn never separates (the poll, the host's frame, the          *)
(* acknowledged frames, the notice) is one action.  The loop may stop at   *)
(* any of them (a signal, a dead client, the server's shutdown): stopping  *)
(* changes nothing more and has no action of its own.                      *)
(*                                                                         *)
(* The session below is reduced to what Session.tla and RemoteScreen.tla   *)
(* show of it: input reaches the server in order, in the numbered frame    *)
(* after the last one sent, and screens come back in order, each with an   *)
(* echo acknowledgement that never runs ahead of it.  The application is   *)
(* one that does what the keys say: it echoes, moves its cursor, wraps and *)
(* scrolls; where it prompts, every second line is typed unseen.           *)
(***************************************************************************)
EXTENDS DisplayPipeline, LocalEscape

CONSTANT Scenes        \* what the user, the terminal and the application
                       \* may be like

\* What a read may hold; "resize" is kept for a size in the stream.
Bytes == STRING \ {"resize"}

(***************************************************************************)
(* A scene: the terminal's first size and the sizes it may change to; the  *)
(* prediction preference; whether application and prediction overwrite;    *)
(* whether the application prompts; what one read may return; round trips  *)
(* and ages, in milliseconds; whether the connection may go quiet.         *)
(* Bounds: maxReads reads from the terminal, maxFrames frames numbered,    *)
(* maxResizes changes of size.                                             *)
(***************************************************************************)
ASSUME ScenesAssumption ==
    /\ EscapeKey \in Bytes /\ {"network", "help", "exiting"} \subseteq Notices
    /\ \A s \in Scenes :
          /\ s.size \in (Nat \ {0}) \X (Nat \ {0})
          /\ s.sizes \subseteq (Nat \ {0}) \X (Nat \ {0})
          /\ s.pref \in Preferences /\ {s.over, s.prompts, s.quiet} \subseteq BOOLEAN
          /\ s.reads \subseteq Seq(Bytes) /\ s.srtts \subseteq Nat /\ s.ages \subseteq Nat
          /\ {s.maxReads, s.maxFrames, s.maxResizes} \subseteq Nat

VARIABLES
    d,                 \* the DisplayPipeline record
    esc,               \* the LocalEscape record
    stream,            \* everything sent to the server, in order: bytes and
                       \* sizes, each with the frame it was promised to
    remote,            \* the session as the last poll left it: the frames
                       \* sent, how much of the stream the shown screen
                       \* answers, and the echo acknowledgement
    scene,             \* the one that is played
    input,             \* history: the reads from the terminal, in order
    astray,            \* history: the predictor lost track of what is typed
    phase              \* running; draining, after end of input; over

vars == <<d, esc, stream, remote, scene, input, astray, phase>>

-----------------------------------------------------------------------------
(***************************************************************************)
(* The application and the server.                                         *)
(***************************************************************************)

\* To the start of the next line; the last row scrolls, and the state that
\* scrolled is marked with its number n.
LineFeed(scr, n) ==
    IF scr.cur[2] < BottomRow(scr) THEN [scr EXCEPT !.cur = <<0, @[2] + 1>>]
    ELSE [scr EXCEPT !.cur = <<0, @[2]>>, !.gen = n,
                     !.cell = [pos \in DOMAIN @ |->
                                 IF pos[2] = BottomRow(scr) THEN Empty
                                 ELSE @[<<pos[1], pos[2] + 1>>]]]

Drawn(scr, ch, over, n) ==
    LET row == RowFrom(scr.cur, scr)
        put == [scr EXCEPT !.cell = [pos \in DOMAIN @ |->
                    IF pos = scr.cur THEN ch
                    ELSE IF ~over /\ pos \in row THEN @[LeftOf(pos)] ELSE @[pos]]]
    IN  IF scr.cur[1] = LastColumn(scr) THEN LineFeed(put, n)
        ELSE [put EXCEPT !.cur = <<@[1] + 1, @[2]>>]

Rubbed(scr) ==
    IF scr.cur[1] = 0 THEN scr
    ELSE LET at == LeftOf(scr.cur)
         IN  [scr EXCEPT !.cur = at,
                         !.cell = [pos \in DOMAIN @ |->
                             IF pos \notin RowFrom(at, scr) THEN @[pos]
                             ELSE IF pos[1] = LastColumn(scr) THEN Empty
                             ELSE @[<<pos[1] + 1, pos[2]>>]]]

\* What a token does to the screen of the application.
Obey(scr, token, over, n) ==
    CASE token = "erase" -> Rubbed(scr)
      [] token = "left" -> IF scr.cur[1] = 0 THEN scr ELSE [scr EXCEPT !.cur = LeftOf(@)]
      [] token = "right" -> IF scr.cur[1] = LastColumn(scr) THEN scr
                            ELSE [scr EXCEPT !.cur = <<@[1] + 1, @[2]>>]
      [] OTHER -> Drawn(scr, token, over, n)

\* The application acts on a token, the n-th element of its input.  Where it
\* prompts, every second line is typed unseen.
Act(app, token, over, n) ==
    IF token \in {"none", "ctl", "wide", "sequence"} THEN app
    ELSE IF token = "cr"
    THEN [app EXCEPT !.scr = LineFeed(@, n), !.unseen = app.prompts /\ ~@]
    ELSE IF app.unseen THEN app
    ELSE [app EXCEPT !.scr = Obey(@, token, over, n)]

Start(size) ==
    [scr |-> EmptyScreen(size), held |-> << >>, unseen |-> FALSE,
     prompts |-> scene.prompts, n |-> 0]

Absorb(app, item) ==
    LET n == app.n + 1
        r == ReadByte(app.held, item.byte)
    IN  IF item.byte = "resize"
        THEN [app EXCEPT !.n = n, !.scr = [ResizeScreen(@, item.size) EXCEPT !.gen = n]]
        ELSE Act([app EXCEPT !.n = n, !.held = r.held], r.token, scene.over, n)

\* The application after the first n elements of the stream.
AppAfter(n) == FoldLeft(Absorb, Start(scene.size), SubSeq(stream, 1, n))

ScreenAfter(n) == AppAfter(n).scr

\* How much of the stream the frames up to f carry.
CarriedBy(f) == Cardinality({i \in DOMAIN stream : stream[i].frame <= f})

-----------------------------------------------------------------------------
(***************************************************************************)
(* The loop.                                                               *)
(***************************************************************************)

\* Dialling has sent the first frame, and the first turn learns that.
Init ==
    /\ scene \in Scenes
    /\ d = [NewPipeline(scene.size, scene.pref, scene.over) EXCEPT
               !.pr = SetWatermarks(@, 1, 0)]
    /\ esc = NewEscape
    /\ stream = << >> /\ input = << >>
    /\ remote = [sent |-> 1, done |-> 0, echo |-> 0]
    /\ astray = FALSE
    /\ phase = "running"

Running == phase = "running"

\* set_srtt at the top of a turn.
AdaptDisplay ==
    /\ Running
    /\ \E srtt \in scene.srtts : d' = FollowSrtt(d, srtt)
    /\ UNCHANGED <<esc, stream, remote, scene, input, astray, phase>>

\* What client.poll() may find: it may flush what was typed or an empty
\* state, and any later screen of the server may have come.
PollResults ==
    {r \in [sent : {remote.sent, remote.sent + 1}, done : remote.done .. Len(stream),
            echo : remote.echo .. remote.sent] :
        /\ r.sent <= scene.maxFrames
        /\ CarriedBy(r.echo) <= r.done /\ r.done <= CarriedBy(remote.sent)}

\* A new state came.
News(r) == r.done # remote.done \/ r.echo # remote.echo

\* Faulty: acknowledgements reach the predictor before the screen they
\* belong to.
AcksBeforeFrame(r, repaired, age) ==
    LET acked == SetFrames(d, r.sent, r.echo, repaired, age)
    IN  IF News(r) THEN OnHostFrame(acked, ScreenAfter(r.done), repaired, age) ELSE acked

\* The host's frame first, then the acknowledged frames.
FrameThenAcks(r, repaired, age) ==
    LET framed == IF News(r) THEN OnHostFrame(d, ScreenAfter(r.done), repaired, age) ELSE d
    IN  SetFrames(framed, r.sent, r.echo, repaired, age)

\* The help for a pending command hides the state of the connection.
NoticeDue(late) ==
    IF esc.pending THEN "help" ELSE IF late THEN "network" ELSE NoNotice

\* The predictor goes astray when it drops a prediction for input the
\* server has not answered, or forgets the beginning of an escape sequence.
LostTrack(before, after, r) ==
    \/ /\ before.cursors # << >> /\ Last(before.cursors).exp > r.echo
       /\ after.cursors = << >> \/ Last(after.cursors) # Last(before.cursors)
    \/ after.held # before.held

\* It is back once it is idle, everything is answered, and no sequence is
\* under way that it has forgotten.
Recovered(p, r) ==
    ~p.active /\ r.done = Len(stream) /\ p.held = AppAfter(Len(stream)).held

Poll ==
    /\ Running
    /\ \E r \in PollResults, repaired \in BOOLEAN, age \in scene.ages, late \in {FALSE, scene.quiet} :
          LET polled == FrameThenAcks(r, repaired, age)
          IN  /\ d' = SetNotification(polled, NoticeDue(late))
              /\ remote' = r
              /\ astray' = /\ astray \/ LostTrack(d.pr, polled.pr, r)
                           /\ ~Recovered(polled.pr, r)
    /\ UNCHANGED <<esc, stream, scene, input, phase>>

\* tick: predictions that wait for long.
Tick ==
    /\ Running
    /\ \E age \in scene.ages : d' = PipelineTick(d, age)
    /\ UNCHANGED <<esc, stream, remote, scene, input, astray, phase>>

Items(bytes) ==
    [i \in DOMAIN bytes |->
        [byte |-> bytes[i], size |-> <<1, 1>>, frame |-> remote.sent + 1]]

\* A read from the terminal: commands are taken out, the rest is predicted
\* and sent.  Input that is not predicted leads astray, unless the predictor
\* waits for an erasure; so does typing on from an escape sequence it saw only
\* part of, or on a screen of another size than the application has.
Stdin ==
    /\ Running
    /\ \E read \in scene.reads :
          LET p == ProcessInput(esc, read)
              typed == OnKeystroke(d, p.forward)
              app == AppAfter(Len(stream))
          IN  /\ Len(input) < scene.maxReads
              /\ input' = Append(input, read)
              /\ esc' = p.esc
              /\ stream' = stream \o Items(p.forward)
              /\ d' = IF p.quit THEN SetNotification(typed, "exiting") ELSE typed
              /\ phase' = IF p.quit THEN "over" ELSE phase
              /\ astray' = \/ astray
                           \/ /\ typed.pr.wait = 0
                              /\ \/ d.pr.held # app.held \/ d.host.size # app.scr.size
                                 \/ Len(d.pr.held) + Len(p.forward) > BulkInput
    /\ UNCHANGED <<remote, scene>>

\* Every quarter second the size of the terminal is looked at.
Resize ==
    /\ Running
    /\ Cardinality({i \in DOMAIN stream : stream[i].byte = "resize"}) < scene.maxResizes
    /\ \E size \in scene.sizes \ {d.host.size} :
          /\ stream' = Append(stream, [byte |-> "resize", size |-> size,
                                       frame |-> remote.sent + 1])
          /\ d' = ResizePipeline(d, size)
    /\ astray' = (astray \/ remote.done # Len(stream) \/ d.pr.held # << >>)
    /\ UNCHANGED <<esc, remote, scene, input, phase>>

\* The terminal is gone: for two seconds only host frames are painted.
EndOfInput ==
    /\ Running
    /\ phase' = "draining"
    /\ UNCHANGED <<d, esc, stream, remote, scene, input, astray>>

Drain ==
    /\ phase = "draining"
    /\ \E r \in PollResults, repaired \in BOOLEAN, age \in scene.ages :
          /\ d' = IF News(r) THEN OnHostFrame(d, ScreenAfter(r.done), repaired, age) ELSE d
          /\ remote' = r
    /\ UNCHANGED <<esc, stream, scene, input, astray, phase>>

Next ==
    \/ AdaptDisplay \/ Poll \/ Tick \/ Stdin \/ Resize
    \/ EndOfInput \/ Drain

Spec == Init /\ [][Next]_vars

-----------------------------------------------------------------------------
(***************************************************************************)
(* Properties.                                                             *)
(***************************************************************************)

\* Predictions stay on the screen and in order, and the frames confirmed never
\* run ahead of those sent (Predictor, DisplayPipeline).
TypeOK ==
    /\ PredictorOK(d.pr, d.host.size)
    /\ d.notice \in Notices \cup {NoNotice}
    /\ esc \in EscapeState
    /\ remote.echo <= remote.sent /\ remote.done <= Len(stream)
    /\ phase \in {"running", "draining", "over"}

\* The screen that answers all input up to the frame a guess waits for.
Answer(guess) == ScreenAfter(CarriedBy(guess.exp))

\* Predictions for an application that echoes everything it is sent are what
\* its screen will show once it has the input of the frame they wait for,
\* unless it scrolls on the way.
PredictionsComeTrue ==
    ~astray /\ ~scene.prompts =>
        \A pos \in DOMAIN d.pr.cells :
            LET guess == d.pr.cells[pos]
            IN  \/ guess.unknown \/ Answer(guess).gen # d.host.gen
                \/ guess.ch = Answer(guess).cell[pos]

\* Whatever is shown, the application's screen shows it already, or will once
\* it has some of the input under way: never a key it does not echo.
OnlyEchoedShows ==
    ~astray /\ d.pr.pref # "experimental" /\ d.pr.show =>
        \A pos \in DOMAIN d.host.cell :
            \E n \in remote.done .. Len(stream) :
                /\ ScreenAfter(n).size = d.host.size
                /\ Overlay(d.pr, d.host).cell[pos].ch = ScreenAfter(n).cell[pos]

\* Cells on the terminal are those of the host, the predictions and the
\* notice as they are now: no step leaves a withdrawn prediction on it.
CellsAreCurrent == d.shown # NotShown => d.shown.cell = Composed(d).cell

\* What the terminal shows is what the pipeline would compose now, the cursor
\* included (set_frames "Returns Diff paint if overlay must update").
ShownIsCurrent == d.shown # NotShown => d.shown = Composed(d)

\* After an erasure prediction starts again only from a screen that answers
\* all input typed meanwhile.
ResumesInformed ==
    [][d.pr.wait # 0 /\ d'.pr.wait = 0 =>
           \A i \in DOMAIN stream : i > remote'.done => stream[i].byte = "resize"]_vars

\* An application that echoes everything never proves a prediction wrong,
\* in whatever order screens and acknowledgements come.
NeverRefuted ==
    [][~astray /\ ~scene.prompts /\ d.pr.active /\ d'.host # d.host
          /\ ~Moved(d, d'.host) /\ stream' = stream
       => d'.pr.epoch = d.pr.epoch]_vars

\* The bytes sent, without the sizes.
Sent ==
    FlattenSeq([i \in DOMAIN stream |->
                   IF stream[i].byte = "resize" THEN << >> ELSE <<stream[i].byte>>])

\* The server gets the user's input without the local commands, however it
\* was split over reads.
ForwardedIsMeant == Sent = Meant(FlattenSeq(input))
=============================================================================
