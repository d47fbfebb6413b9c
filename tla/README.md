# MoshCatty in TLA+

A model of MoshCatty, a mosh client in Rust, checked with TLC and, for its
protocol layers and its main loop, proved with TLAPS. Source paths below are relative to the repository
root (`src/src/transport.rs` is the transport of the crate in `src/`).

## The system

mosh keeps two objects in step over UDP: the *user state* (everything typed,
and terminal resizes), which the client owns, and the *host state* (the
screen), which the server owns. Both travel by the State Synchronization
Protocol (SSP): each side numbers its states, sends diffs between two numbers,
acknowledges the newest number it holds, and tells the peer (the *throwaway*
watermark) which states it may forget. Datagrams may be lost, reordered or
repeated; a session has no connection to lose and ends only on request, on a
hard error, or if the server is never heard of.

| component | state | operations | talks to |
|---|---|---|---|
| SSP transport, `transport.rs` | queue of unacknowledged states, send times, acknowledged number, window of received numbers, watermarks, flags of pending work, shutdown progress, sequence numbers, RTT | `set_pending_from`, `tick`, `recv_state_with_congestion`, `start_shutdown`, `set_max_fragment_payload`, ... | client (calls), peer (instructions) |
| Client session, `client.rs` | log of user actions, how much of it each state covers, dirty / force flags, sockets, dead | `dial*`, `send_keys`, `resize`, `poll`, `flush_ticks`, `process_acks`, `graceful_shutdown` | transport, terminal, sockets |
| Fragments, `fragment.rs` | slots of the instruction being assembled | `fragmentize_with_payload`, `Assembler::add` | transport |
| Remote terminal, `terminal.rs` | snapshots by host state number, newest, displayed screen, echo acknowledgement | `apply_host_state` | client (each accepted state) |
| Prediction, `prediction.rs` | overlay cells and cursors with epochs and expiry frames, display preference | `on_keystroke`, `on_host_frame`, `set_frames`, `tick`, ... | main loop |
| Main loop, `bin/mosh_client.rs` | stdin channel, local escape state, terminal size | poll, paint, confirm, read a key, resize, quit | client, prediction |
| Grid and interpreter, `framebuffer.rs`, `ansi_apply.rs` | cells, cursor, margins, modes, hyperlinks; the pen and the bytes of an unfinished sequence | `apply_ansi_with_pen`, `resize`, `compact_hyperlinks`, `diff` | remote terminal (reading), display (painting) |
| Sockets, `ecn.rs`; crypto, `crypto.rs`; encoding, `pb.rs` | | pure functions and I/O | client, transport |

Everything on the client runs on one thread (the stdin reader only fills a
channel), so concurrency is between the two endpoints: what is hard is the
order in which lost, late, repeated and overtaking instructions meet calls that
queue, cull, rebase, give up or shut down. `PROJECT.json` lists these hazards
at their lines.

What makes each component correct:

* transport: the peer holds the state diffs start from; no watermark passes a
  base still needed; a state is delivered once; shutdown is agreed by both;
* client: the server's states are prefixes of the input, the log is what the
  server lacks, all input arrives in the end, and quitting loses none of it;
* fragments: what is assembled is a message somebody sent, whatever the order;
* remote terminal: it holds every state the transport lists, and never rewinds;
* prediction: confirmed only by acknowledgements that cover it, killed with
  its epoch;
* main loop: what is painted is what host, predictions and notice are now, and
  the server gets the user's input without the local commands;
* grid, interpreter and diff: however bytes are cut, the screen read is the
  same, and the user's terminal shows the frame painted last;
* sockets: the path that works is never the one dropped, and no more candidates
  are given up before one attached than the limit forces.

## Modules

| module | models | how |
|---|---|---|
| `Transport` | `Transport` of `transport.rs` | a record, each method an operator from the record before to the record after |
| `SspLink` | two transports and the path, an arbitrary application on top | `ep[e]`, `net[e]`; actions `Submit`, `ShrinkFragments`, `Shutdown`, `Tick`, `Receive` |
| `Client` | `Client` of `client.rs` above its transport | a record; `flush_ticks` is `FlushTicks`, built from `ProcessAcks`, `QueueInput`, `TickAndSend` |
| `InputStream` | the abstract promise: the server sees ever longer prefixes of the input | `Act`, `Advance` |
| `Session` | a client, the network, the server | `Type`, `Flush`, `Receive`, `InitialTimeout`, `GiveUp`, `Quit`, `Close`; `ServerReceive`, `ServerSend` |
| `TerminalView` | `TerminalView` and its snapshots, `terminal.rs` | a record; `apply_host_state` is `ApplyHostState`, built from `Paint`, `Retain`, `Show` |
| `RemoteScreen` | a server's screens, both transports, the terminal | `Draw`, `ServerTick`, `ServerReceive`; `ClientTick`, `ClientReceive` |
| `Assembler` | cutting and assembling, `fragment.rs` | a record; `fragmentize_with_payload` is `Fragments`, `Assembler::add` is `Add` |
| `DatagramPath` | one direction of datagrams below the instructions of `SspLink`: end of `tick`, start of `recv_state_with_congestion`, `encrypt_fragment` | `Send`, `Shrink`; `Open`, `Echo` |
| `Sockets` | the sockets of `client.rs` and their clocks, with a path under each | `PollReceives`, `Flush` (`HopPort`, `KeepPort`), `GiveUp`, `Wait`; `Hear`, `Reply`, `Lose`, `Fail` |
| `Predictor` | `Predictor` of `prediction.rs` | a record; each method an operator (`Keystroke`, `Confirm`, `SetWatermarks`, `ObserveLateAck`, `Overlay`, ...) |
| `DisplayPipeline` | `DisplayPipeline` of `prediction.rs` above a predictor | a record; each method an operator, `shown` is `last_shown` |
| `LocalEscape` | `LocalEscape` of `bin/mosh_client.rs` | a record; `process` is `ProcessInput`; `Meant` is what a user means by the same bytes in one read |
| `MainLoop` | the loop of `bin/mosh_client.rs`, the terminal's user, the server's application | `Poll`, `Tick`, `Stdin`, `Resize`, `EndOfInput`, `Drain` |
| `Framebuffer` | `framebuffer.rs` but its diff | a record; grid operations, wide glyphs, graphemes, hyperlinks and their compaction |
| `AnsiApply` | `ansi_apply.rs` | `ApplyAnsi` from the terminal (framebuffer and pen) before some bytes to that after |
| `FrameDiff` | `Framebuffer::diff` | `Diff`, the bytes that lead a terminal from one frame to another |
| `Terminal` | host bytes to framebuffer to paint to the user's terminal | `Receive`, `ReceiveRest`, `Paint`, `Resize` |
| `MCSspLink`, `MCSession`, `MCRemoteScreen`, `MCSockets`, `MCMainLoop`, `MCTerminal` | small instances | definitions for the `.cfg` files |
| `Transport_proofs`, `Client_proofs` | lemmas about the methods | one or two per method: what it keeps, what it sends |
| `SspLink_proofs`, `RemoteScreen_proofs`, `DatagramPath_proofs`, `Session_proofs`, `Sockets_proofs`, `MainLoop_proofs` | theorems about the systems | an inductive invariant each, one case per action |
| `MainLoopInvariant` | the invariants of the main loop's proofs | `MainInv`, `TrueInv`, and what a step of predictor and pipeline keeps |

Conventions.

* Methods are operators because the client calls several of them in one turn
  (`flush_ticks` runs `process_acks`, `set_pending_from` and `tick` without
  interruption); an action is one such turn. The same operators serve both the
  link of two transports and the session.
* Time is not state. A method that compares timestamps takes the outcomes of
  the comparisons as an argument (`Clock`, `Readings`), constrained only by what
  must hold (nothing is overdue that was never sent). Every timing is covered,
  and timers may fire at any moment. Readings microseconds apart inside one
  flush count as one.
* Numbers enter `outbound_states` in increasing order only, so it is a set
  ordered by number. `sent_state_times` is a sequence: a state sent again after
  its entry was culled enters anew, at the back. `CullKeep` is the 16 of
  `len() - 16`.
* One instruction stands for all fragments of one tick. Loss: it never enters
  the path, or stays there. Duplication: a copy stays behind. An exact replay
  inside the 512-number replay memory changes nothing and is not a step, so a
  second delivery is a replay older than that memory or a retransmission.
* `ShutdownNum` stands for `u64::MAX`; numbers given out by the bounded runs
  stay below it, as they do in any real session.
* In `Session` an action is its position in the input and a diff is the
  sequence of actions it encodes; byte lengths appear only as the outcome of
  the size comparison (`Savings`), the instruction limit (`too_large`) and the
  datagram limit (`Refusals`).
* In `RemoteScreen` a screen is an opaque value and a diff names the two screens
  it leads between; painted on any other screen it leaves `Garbled`. The server
  is external: it draws, cuts each new state from any state it still has queued
  or from the acknowledged one, and never lets its queue overflow; its echo
  acknowledgement names a user state it received.
* `DatagramPath` refines what `SspLink` takes for granted of an instruction. A
  payload is a range of bytes of the instruction it was cut from. `wire` only
  grows: what is never opened was lost, what is opened twice is a replay, and
  any order is possible. A timestamp is named by the sequence number it came
  with; its value and the round trip computed from it are left out. Sender and
  receiver are the two ends of one direction, so `Echo` is the receiver's own
  sending, taken for its effect on `last_ts` alone.
* In `Sockets` time is state, because sockets are dropped by age: a unit is
  longer than a heartbeat, every unit sends, and clocks stop past the last
  threshold they are compared with. The order of the real constants is kept
  (hop before the initial timeout, pruning later than a hop). A poll that receives
  and then flushes is two steps, which the program's own polls may be. Any
  number of candidates may be dialled, also more than the limit of sockets, as
  `dial_candidates_with_size` does.
* The clock of round trips is set to the time the acknowledged state was last
  sent (`process_roundtrip_ack`), so `Sockets` tells acknowledgements apart by
  that time: repeated ones leave the clock alone; a state sent last before the
  hop gives an age from then (`OldState`); a state that was in the queue at the
  hop was sent again since, and its acknowledgement, earned on an older path,
  may come with any later state and give any age (`Late`); what was sent over
  the newest socket is acknowledged on it (`Anew`). `owed` counts how many of
  the states queued at the hop are left for `Late`; it starts at `Queued`, for
  which the code has `SENT_STATE_CAP`, and lasts until the next hop. An
  acknowledgement that uses up several is counted as one, so the model allows
  more late round trips than the code.
* In `MainLoop` the session below is reduced to what `Session` and
  `RemoteScreen` show of it: input reaches the server in order, screens come
  back in order, and an echo acknowledgement never runs ahead of its screen.
  The application is external; it echoes, moves, wraps and scrolls, and where
  it prompts every second line is unseen. `astray` records that the predictor
  lost track of the input by design, where it may guess wrong: more than
  `BulkInput` at once; typing on from an escape sequence that it did not see
  begin, or on a screen of another size than the application has by then; a
  guess withdrawn before its frame was acknowledged, or a sequence dropped
  unfinished; a resize under input in flight. It ends once the predictor is idle
  and everything is answered.
* In `Predictor` and `DisplayPipeline` a screen is glyphs of one column, a
  cursor and a scroll generation; of renditions only the flag of a prediction
  is kept. Ages and round trips are arguments. `set_srtt` and `on_keystroke`
  may record the host's screen as the one shown before anything was painted
  (`Started`).
* In `Framebuffer`, `AnsiApply` and `FrameDiff` a byte string is a sequence of
  tokens: a control, a printable glyph, a number or an operation name inside a
  sequence. The glyphs are one of each kind the code tells apart: narrow, wide
  for all, wide for the server but not for xterm.js, combining. The user's
  terminal is the same interpreter, as in the tests of `terminal.rs`, with its
  own table of widths.
* mosh-server is not in the repository. `Session` uses the server the tests of
  `client.rs` build (`apply_user_state` and the loops around it); those
  definitions are marked external in `PROJECT.json`.

## Runs

| run | question | bounds |
|---|---|---|
| `SspLink` | do bases stay available and watermarks low, is nothing delivered twice, is an acknowledged shutdown mutual | client numbers 2 states, server 1; two instructions under way each way; both sides may quit, with one attempt; queue cap 3 and receive window 2, so send times are culled and the quench happens; the client's datagrams may prove too long |
| `RemoteScreen` | is every base held, every snapshot exact, does the display only advance | server numbers 3 states over two screens, client 1; two instructions under way each way; receive window 1, so the quench happens |
| `DatagramPath` | is what is assembled what was sent, is a complete instruction delivered, are replays and old timestamps refused | two instructions of up to four bytes in one to four fragments, payload limit 2 or 1 or shrinking, memory of 2, six datagrams opened |
| `SessionArrives` | is the input a reliable stream to the server (`InputStream` as a refinement), does all of it arrive, does the log empty | 3 actions, 2 numbers for empty states, 1 host state, queue cap 2, optimistic bases, path of one instruction |
| `SessionClose` | is the input a prefix and the log exact under every failure, does quitting keep all input | 2 actions, two instructions under way each way, failed ticks, refusals, rejections, the initial timeout, quitting with one attempt; cap 4 (no overflow), known bases only |
| `Sockets` | does the session talk to the server only, which candidates are closed before attachment, does pruning spare a path that answers, does the session always resume over a new socket or end | three candidates, the second with a narrow path; 2 sockets; one state owed at a hop; a hop after 2 units, the initial timeout after 2 and 1, pruning beyond 2; two faults |
| `MainLoop` | do predictions come true, do secrets stay hidden, is what is shown current, is the escape key found in any split | seven users (`Scenarios`): 2 to 4 reads, 1 to 3 frames, screens up to 3 by 2, one resize; an escape sequence begun while the predictor waits, and a terminal that grows under keys |
| `Terminal` | does the local terminal show the frame, do cuts and compactions matter, are moves of rows told | six sets of server bytes (`Screens`): 3 or 4 chunks, screens up to 4 by 2 or 3 by 3, one resize, every cut in two |
| `SessionCloseIncomplete`, `MainLoopStale`, `TerminalResize`, `SocketsCandidates` | the four findings | small instances of their own |

The bounds are small but not vacuous: three actions and a resent or empty state
are enough for both queues of cap 2 to lose their middle entry, for an optimistic base to be lost under a state
that builds on it, and for an acknowledgement to arrive between the two; two
instructions under way are enough for overtaking, and copies that stay behind
give late and repeated delivery for ever. A cap of 2 with `CullKeep` 2 removes
the oldest but one of three exactly as a cap of 32 with 16 removes one of 33.
Six openings of up to eight datagrams with a memory of two let both instructions
interleave fragment by fragment and a datagram return after it was forgotten.
In `Sockets` the first hop makes four sockets and the loop closes two of them
at once. A late acknowledgement can keep a newest socket that never answered for
four units, longer than the two beyond which the others are pruned, so the run
has both ways of pruning `PruneSpares` speaks of. One fault breaks the path in
use, the second its successor or the bind of one.
`MainLoop` and `Terminal` play separate scenes rather than one large instance,
because their cases (secrets, commands, margins, links) do not meet in the code
either. Scenes leave out what the code cannot get right on any terminal: a wide
glyph cut by ICH, DCH or with autowrap off, which mosh's server never sends.
Runs in which the program may stop (shutdown, death) or whose inputs run out do
not check deadlock; `RemoteScreen` and `SessionArrives` do.

Each property has a mutant of a modelled definition (`PROJECT.json`), an
operator kept just before it and marked "Faulty", under which TLC finds the
property violated.

### Fairness

`SessionArrives` assumes `FairSpec`. `LateFlush` is a flush made
late enough for every queued state to be due again, whose datagram arrives; it
is strongly fair, because the client polls for ever, its clock runs, and a path
that keeps losing but not for ever lets one of infinitely many datagrams
through. Without it the path could lose everything and nothing could be
promised. The server's sending is strongly fair likewise; taking what arrived
from a socket is weakly fair on both sides. `ENABLED LateFlush` is written out
as `LateFlushEnabled` to keep TLC fast. `InputArrives` needs no more.
`InputAcknowledged` has a premise: retransmissions of old and new states in
turn can keep culling the send time of the newest, whose acknowledgement then
says nothing. With the real caps that takes fifteen forgotten states resent
within one round trip; the property says that the log empties unless this goes
on for ever.

`Sockets` assumes that polling never stops (weak fairness of `Flush`, `GiveUp`
and `Wait`) and that a working path of the newest socket, which loses and
delays, again and again passes a datagram and its answer before the next hop
(strong fairness of `Hear`, `Reply` and of receiving there an acknowledgement
that is not repeated: the client numbers a new state at least with every
heartbeat). Old paths need not deliver anything.

## Findings

* `SessionCloseIncomplete` is about the comment in `Client::graceful_shutdown`
  (`client.rs`, 306-308), "Stock shutdown carries the current user state". The
  shutdown state is the newest queued state on whatever base that was queued on.
  If it is an optimistic base whose datagram was lost, nothing rebases it any
  more (`set_pending_from` does nothing once shutdown began), and no attempt can
  be applied: this is the counterexample TLC prints. With `Savings = {FALSE}` it
  prints another: after the send queue overflowed, an acknowledgement taken
  during shutdown drops queued states based on an older one and asks for a
  rebase that cannot happen either; the shutdown goes out without the newest
  input, is acknowledged, and `graceful_shutdown` returns true. `SessionClose`
  (no overflow, known bases only) is where quitting does keep all input.
* `MainLoopStale`: `DisplayPipeline::set_frames` ("Returns Diff paint if overlay
  must update", `prediction.rs`, 1311) compares a summary of the predictions
  before and after. An acknowledgement that withdraws a confirmed cursor which
  is not the newest changes what the overlay composes but not the summary, so
  the terminal keeps the old cursor until something else changes. Cells are
  always repainted (`CellsAreCurrent`).
* `TerminalResize`: `Framebuffer::resize` keeps a wide glyph cut at the new right
  edge. `full_redraw` prints it, the terminal wraps it, and the relative line
  feed puts all following rows one too low ("Re-address after any wide cell so
  later paint cannot shift left", `framebuffer.rs`, 798-800); later diffs repair
  only rows that change.
* `SocketsCandidates`: `dial_candidates_with_size` opens up to sixteen sockets
  (`client.rs`, 33 and 183) to "Try every resolved bootstrap endpoint until one
  returns an authenticated state" (158-159). The hop after ten seconds without
  an answer adds one to the first address, and the loop of `maybe_hop_port`
  (511-513) closes the oldest beyond ten, several at once when there are many,
  though nobody was heard from yet. With the real constants a timeout leaves
  room for two hops, so this takes ten addresses or more. What does hold, for
  any number of them, is `FewCandidatesClosed`: the first address always has a
  socket, and of the others only the first few lose theirs, as many as the hops
  before the initial timeout push beyond the limit.

## Proofs

`SspLink_proofs` proves, for every queue cap, window, bound, diff set and
combination of faults and quitting endpoints, under the assumptions named in
`Transport` and `SspLink` (`CapAssumption`: the caps are naturals and a cull
spares at least two entries; `LinkAssumption`: two distinct endpoints, numbers
below `ShutdownNum`):

* `TypeCorrect`: `Spec => []TypeOK`;
* `BaseIsHeld`, `QueueIsApplicable`, `ShutdownIsMutual`: the invariants
  `KnownBaseHeld`, `QueuedBaseKept`, `ShutdownAgreed`;
* `StatesAreDistinct`: the action property `NoStateTwice`.

None is inductive. That the peer holds an endpoint's acknowledged state says
nothing of the watermarks and acknowledgements still under way, either of which
may break it on arrival. `IInv` adds, per endpoint, `Sound` (queued states lie
between the acknowledged state and the last number given out; the received
window runs from the watermark to the newest state and contains it) and, per
direction, what instructions under way may still do: `Discards` (no watermark
under way exceeds the acknowledged state, the base of a queued state or its own
base) and `Acknowledges` (an acknowledgement that is still news names a state
its sender holds). `Transport_proofs` shows once per method that it keeps
`Sound`, leaves the other half of the record alone and sends only instructions
the endpoint can answer for (`Announces`); `SendStep`, `QuietStep` and
`ReceiveStep` lift this to the link, and `NextHolds` has one case per action.

`RemoteScreen_proofs` shows that the screens implement the link
(`ScreenIsLink`, so everything above holds of them), and, for any number of
screens and any caps, `ScreensAreTyped`, `BasesAreHeld`, `SnapshotsMatch`,
`DisplayIsCurrent` and `DisplayMovesForward`. To `IInv` of the link `SInv` adds
that the server's echo acknowledgements never fall with the number
(`HostIsOrdered`), that every diff queued or under way leads from the server's
screen of its base to that of its number (`DiffsFollow`), and that the
terminal's snapshots reach up to its newest, which is the one displayed
(`ViewIsBounded`). A state arriving late is then cut from a screen the terminal
holds, and painting it gives exactly the server's.

`DatagramPath_proofs` proves, for every limit, set of payloads and memory,
`PathIsTyped`, `MessagesAreSent`, `NothingIsWithheld`, `ReplaysWait` and
`EchoesOnlyAdvance`. `PInv` says that the wire holds each instruction cut to
one payload and nothing else (`WireIsCut`), that the assembler holds pieces of
one instruction and knows their number once it holds the last (`HoldsPieces`),
that the memory is the end of what was opened (`MemoryIsRecent`), and that
timestamps held or echoed lie below the next one taken (`EchoesAreBelow`).
`CountIsExact` and `PiecesAdjoin` are the arithmetic of cutting;
`CompleteReads` puts the pieces together. `CountIsHeld` is `SizeIsHeld`. The sum
over the slots is a fold that takes them in an order nobody chose; that it is
the number of bytes held, whatever the order, is an induction over the slots
taken (`WeighingCounts`, `HeldCounts`). A fragment that repeats one held has as
many bytes (`SameNumber`), because one payload was used for the whole
instruction; without `WireIsCut` the count would be wrong.

`SendTimesAreTyped` is the lemma about the culls and drains of the send times.

`Session_proofs` proves, for any amount of input, any caps, windows and sets of
faults (`SessionAssumption`; the shutdown number lies above the two numbers a
session starts with, being `u64::MAX` in the code):

* `SessionIsTyped`, `InputStaysPrefix`, `NothingIsForgotten`: `TypeOK`,
  `InputIsPrefix`, `NothingForgotten`, with no further assumption;
* `CloseCarriesInput`, `SessionIsStream`: `CloseKeepsInput`, and that every step
  is a step or a stutter of `InputStream` (`ImplementsStream`), of behaviours
  that are always `Calm`: no overflow of the send queue is unresolved while a
  shutdown is under way. Without that the theorem is false (the second way of
  `SessionCloseIncomplete`). Nothing else is assumed: any overflow before
  the shutdown, and its rebase, is within the theorems;
* `CloseReachesBase`: `CloseFindsBase`, if the size comparison never favours an
  optimistic base (`Savings \subseteq {FALSE}`, as in the run `SessionClose`);
  `SessionCloseIncomplete` shows it fails otherwise.

None of them says enough of the numbers to be inductive. What a state number
stands for is fixed when the state is queued and known to neither side: the
client keeps counts only of some, the server has what arrived, and a diff under
way may never arrive or arrive on a base that was rebuilt since. So the
invariant (`SInv`) says that some function V from numbers to positions in the
input explains all of it at once. `Faithful` (in `Client_proofs`) is what the
client's record says of V: V does not decrease along the queue (`Marks`), each
queued diff is the input between two values of V (`Queued`), log and counts are
V's (`Logged`), and the newest queued state reaches the end of the log unless
input is waiting for the flush or the queue for its rebase. `PathStands` and
`UserStands` say the same of diffs under way and of the server's states.
`AcksHeld` is the acknowledgements' half of it (the server keeps the state the
client last processed an acknowledgement of and every one it may still hear
of), and `NotHeard` and `Closing` say how a session that starts or ends differs.
A flush picks a new V that extends the old one by the numbers it gives out
(`Extends`); every other action keeps V. `calm` tells whether the shutdown's
number is explained too; it is in `CalmInv`.
`InputStaysPrefix` and `NothingIsForgotten` then read the invariant at one
number. For the refinement, `SeenAdvances` needs also that what the server holds
newest is longest (`SeenIsLongest`), which follows from V being monotone.
`BasesHeld`, for `CloseReachesBase`, is about numbers alone: with known bases
only, every base queued, under way or tried by a shutdown is held by the server
and above every watermark under way.

`Client_proofs` has a lemma per method for this: `process_acks` (which drains
the log and the counts), the input queued, the tick, the flush as a whole,
`start_shutdown`, and the receipt of a host state each keep `Faithful`.

`Sockets_proofs` proves, for any number of candidates, any limit of sockets, any
`Queued` and any intervals (`SocketsAssumption`: old age is no shorter than a
hop), `SocketsAreTyped`, `FewAreClosed`, `ServerIsFound` and `PruningIsSafe`.
Which candidates are dropped is a matter of time: in `SocketsInv`, `HopsAreTimed`
says that before attachment the sockets are the candidates and some number of
hops to the first of them, less the oldest that the limit closed, and that each
hop took its `HopAfter`; `ConnectIsTimed` and `CloseIsTimed` bound that time, and
`HopsFit` the hops in it. `TrialIsShort` is why pruning is safe: a newest socket
that never answered is replaced after one interval, unless late acknowledgements
keep the hop off, each for one interval more, so the age of the newest is
bounded by how many of them came. With the real constants six must come before
such a socket is a minute old; nothing in the code excludes that, and
`PruneSpares` says no more.

`MainLoop_proofs` proves, for every set of scenes that `ScenesAssumption`
admits (screens of any size, reads of any length in any number, frames without
bound, any preference), and any `BulkInput`, `GlitchRepairs` and notices:

* `InputIsMeant`: `ForwardedIsMeant`, which the run checks for a few splits of
  two inputs;
* `MainIsTyped` and `CellsStayCurrent`: `TypeOK` and `CellsAreCurrent`;
* `PausesEndInformed`: the action property `ResumesInformed`;
* `PredictionsHold` and `NothingRefuted`: `PredictionsComeTrue`, and the action
  property `NeverRefuted`.

The argument has four parts. `MainInv` joins the first three, and `TrueInv`
stands on it.

* *The input* (`InputInv`). `Meant` says what a whole input means by the
  positions where commands start; `ProcessInput` sees one byte at a time. That
  the bytes sent so far are right does not tell what the next read will do, so
  `EscapeFollows` adds that `esc` is what the last bytes of the whole input make
  it: pending exactly if a command starts at the last byte, at the start of a
  line exactly after a line end that is no part of a command. `TrackByte`
  is one byte, `TrackRead` a read of any length, and `SentGrows` the bytes
  appended to the stream.
* *The display* (`PipeInv`). Cells are current after a step that paints nothing
  only if the step changed nothing that shows, which needs the predictor's side:
  a judgement that leaves the same positions predicted has withdrawn and
  confirmed nothing (`SamePredictions`), and what is not in the overlay does not show
  (`v.pr.show => v.overlay`). `set_frames` relies on both when its summary has not
  changed. `PredictorInv` strengthens `PredictorOK` by what makes it inductive:
  cursors wait for frames in order, so culling keeps the last one or none;
  guesses lie below `Ceiling`, which for the experimental predictor is the epoch
  confirmed. There is a lemma for each method of the predictor and the pipeline.
* *The frames* (`SessionInv`, `PauseInv`). Elements of the stream are promised
  to frames in order, and while the predictor waits, all bytes typed are promised
  to frames up to the one it waits for. `CarriedFirst` counts: an acknowledgement
  of that frame comes with a screen that answers them all.
* *The guesses* (`TrueInv`). That every guess comes true is far from inductive:
  the next key is predicted from all guesses before it, from the cursor guessed
  and from the host's screen where nothing is guessed. So `TrueInv` compares
  the predictor with the whole future: the screens S[0], S[1], ... that the
  application shows after each element of the stream (`AppOf`, `ScreensOf`).
  `Sound` says that a guess agrees with every screen that has the input of its
  frame (`Covers`) and has not scrolled past the host's; `Traced`, that what the
  last screen shows and the host's screen does not show yet is guessed;
  `Abreast`, that the host's screen is the one acknowledged or, after a resize,
  the next; `Known` is what holds in any case, astray or not. A key is then
  predicted as the application takes it (`KeyForetold`, `ByteForetold`, and
  `ReadTracked` for a whole read), and a judgement withdraws only what the
  host's screen shows by then (`ConfirmVindicated`, `FramedTracked`,
  `NewsTracked`), whether the screen comes before its acknowledgement or after.
  `NothingRefuted` reads the latter off the same lemmas. The invariant is
  `TrueInvariance`.

Proving this corrected the model. `astray` did not record two ways for
the predictor to lose the application, which the earlier scenes never reached:
an escape sequence begun in a pause and finished after it, and keys typed while
the screen of a resize is under way. The scenes `Paused` and `Widened` reach
them.

The model uses four folds over sequences of any length. The library's induction
theorems take an operator as a parameter, which these provers cannot
instantiate, so `InductiveSet` states induction for a *set* of numbers (from the
well-foundedness of `<`), and each fold is unrolled to a recursion on the sets
`1 .. n` with a named step (`StepOf`), whose lemmas are proved once. In the
course of this two definitions with overlapping `CASE` arms (`Command` and the
application's `Act`), whose value TLA+ leaves open where both arms apply, became
conditionals, and `Meant` ends at a command to quit.

Only model-checked: everything about `Terminal`, because its interpreter and
its diff are recursive operators; in `MainLoop` that nothing is shown which the
application does not echo (`OnlyEchoedShows`). Where it prompts, guesses are
wrong by design, and what keeps them from the screen is that their epoch is not
confirmed; `TrueInv` says nothing of them, and a proof would have to tie each
guess to the very element it was made at, and each epoch to what was echoed
since it began. The liveness properties (`InputArrives`, `InputAcknowledged`,
`Resumes`) are out of the prover's reach, and so is that the shutdown of a
session ends.

## Not modelled

* Encryption, encoding and compression (`crypto.rs`, `pb.rs`): pure functions of
  bytes. The socket calls (`ecn.rs`): I/O; loss, refusal and failed binds are
  choices of the models. The wording of status lines and errors.
* Round-trip estimation: it only paces sends, and timers may fire at any moment
  here. The budget of datagrams under one key: its end is an outcome of a tick
  (`exhausted`). An instruction of more than 32,768 fragments (refused by
  `tick`, `too_large` in `Transport`).
* In the framebuffer, sharing of unchanged rows and the accounting of memory,
  which change no screen; in the predictor, states without a sent frame, which
  dialling excludes; in the main loop, arguments, raw mode and signals.

## Plan

Done: the transport and the link, the client session and its sockets,
`RemoteScreen`, `DatagramPath`, the predictor, pipeline and main loop, the
framebuffer, interpreter and diff, the proofs about the protocol layers
(the transport, the link, the screens, the datagrams, the session, the sockets)
and about the main loop. Next, in this order:

1. `OnlyEchoedShows`, from `TrueInv` and an invariant about epochs.
2. Round-trip estimation on 16-bit clocks that wrap, and the budget of
   datagrams under one key, as a module of pure operators.
