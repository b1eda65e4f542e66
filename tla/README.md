# Robocol in TLA+

A verification development for the Robocol workspace: the
driver-station (DS) client library with its packet formats, the stand-in robot
controller (RC) it is tried against, the HTTP camera client, the capture decoder
and the command-line DS. TLC checks the modules on small instances; TLAPS proves
the theorems for every value of the constants.

    tlc -config MCClientSession.cfg MCRobocolClient.tla  # any run below
    tlapm RobocolClientProofs.tla                        # any proof module

`PROJECT.json` lists the runs, which source lines each definition models, and
the hazards the properties are for.

## 1. Inventory

### The DS client worker — `robocol/src/client.rs`
State: the peer, whether discovery is on, the peer's robot state; the instants
of the last packet, heartbeat and frame request; the queue of commands not yet
acknowledged; the ring of commands already surfaced; whether the camera is on,
whether a frame request is owed, and the frames under assembly.
Operations: the application's `connect`, `disconnect`, `send_command`,
`send_gamepad` and drop, through a channel; `handle_datagram` and the handlers
it calls; the link timeout; `tick`; `maybe_request_webcam_frame`;
`retransmit_pending`. It interacts with the network by best-effort UDP and with
the application by an event channel whose receiver may be dropped.
Hard: one thread interleaves four kinds of input, three clocks and two queues;
a session can end in several places and must take everything of it along;
acknowledgements are matched by name and stamp; frames are not deduplicated.
Right when: the application is told of every session and its end, and nothing
passes from one session to the next; a command is never lost in silence nor
retransmitted for ever; frames are whole; requests are paced and never dry up;
what a peer can make the client hold is bounded.

### Commands and frame payloads — `robocol/src/cmd.rs`
Names, JSON payloads, the frame chunk size. No state.

### Packet formats — `robocol/src/packets/`, `wire.rs`, `types.rs`, `base64.rs`
Pure encoders and parsers of six packets. Hard: counts and lengths are written as
one or two bytes without a check, and read from buffers that may be cut short.
Right when parsing undoes encoding of whatever fits its prefixes, and no length
field is believed beyond its buffer.

### HTTP camera client — `robocol/src/video.rs`
State: a connection, whether frames were delivered over it, the stop flag and
the receiver of the events, both shared with another thread.
Hard: reconnecting, stopping and reporting race; the boundary search keeps a
partial match across reads; bodies may be chunked; any of three nested readers
may fail after it has consumed part of what it wanted.
Right when: frames are the pictures sent, whole and in order; a picture never
outlives its connection on the pane; the thread ends when asked to.

### The stand-in robot controller — `fake_rc/src/main.rs`
State: the station served and when it was last heard; robot state, OpMode, its
start; configurations, the active and the pending one; the camera and its frame
number; gamepad edges. It handles a command each time it arrives and remembers
none. Hard: several stations; repeated and reordered commands; a crash that
races with commands; a frame number that wraps.
Right when: an OpMode that ends leaves nothing behind, a change reaches the
station served, and a crash comes.

### Capture decoder — `capture/decode/`
State: the fragments that wait, by source, destination and identification; the
datagrams decoded. It reads pcap files, reassembles IP fragments (`net.rs`),
decodes what is UDP, guesses which end is the controller and reports. Hard: a
capture has fragments twice, out of order, cut short or not at all, and an
identification is used again; directions and counts rest on a guess over the
whole capture.
Right when what is decoded was sent, each datagram counts as often as it was
captured, no row has the wrong direction, and a list that was lost is shown.

### Command-line DS — `ds_cli/src/main.rs`
State: `known_configs`, shared by a prompt and an event thread; the last OpMode
initialised; where the prompt is in its line. Its calls wait in the client's
control channel. Hard: the list may be replaced between a line's typing, its
lookup and the call; the stick is pushed by one call and released by another.
Right when a command acts on a list that was announced and is no older than the
one on the screen, and a stick that was pushed is released or loses its session.

## 2. Modules

| module | models |
|---|---|
| `VecOps` | the `Vec`/`VecDeque` operations used: retain, drop the oldest, contains |
| `FrameChunks`, `FrameSource` | chunk arithmetic; what the controller cuts a picture into |
| `FrameAssembly` | `PartialFrame`, `handle_frame_begin`, `handle_frame_chunk`, eviction |
| `CameraStream` | source, faulty network and assembly composed |
| `DsSession` | abstract: what the client promises about its link |
| `RobocolClient` | the whole worker of `client.rs` and the application's calls |
| `FakeRc` | the loop of `fake_rc` |
| `RobocolSystem` | `RobocolClient` and `FakeRc` (by `INSTANCE`) over a faulty network |
| `VideoStream` | the control of `video.rs`: connect, pump, report, nap, stop |
| `MjpegReader` | `VideoStream` with its connections opened up: chunks, lines, headers and the boundary search, byte by byte, and the server |
| `Wire`, `Packets` | fields at offsets of a buffer; every `serialize` and `parse` |
| `Base64` | both directions of `base64.rs` |
| `Codecs` | what both codecs promise, of given packets and bytes |
| `Reassembly` | `net.rs`: fragments that wait, completeness, what is put together |
| `Capture` | a capture of any traffic through `Reassembly` and `Packets`, and what the report makes of it |
| `DsCli` | prompt and event thread of `ds_cli`, over `DsSession` |
| `MCRobocolClient`, `MCFakeRc`, `MCRobocolSystem`, `MCMjpegReader`, `MCCapture`, `MCDsCli` | inputs of the checked instances |
| `FrameAssemblyProofs`, `CameraStreamProofs`, `RobocolClientProofs`, `FakeRcProofs`, `RobocolSystemProofs`, `MjpegReaderProofs`, `CaptureProofs`, `DsCliProofs` | theorems |

### How the client's model follows the code
`Worker::run` is cut where another actor or the clock can come between two
steps; `pc` says which is next:

| `pc` | actions | code |
|---|---|---|
| `ctrl` | `TakeShutdown`, `TakeCommand`, `TakeGamepad`, `TakeConnect`, `TakeDisconnect`, `Drained` | the drain loop, one message a step |
| `recv` | `ReadNothing`, `ReadError`, `ReadWhilePaused`, `Read` | one `recv_from` and the whole of `handle_datagram` |
| `expire` | `Expire`, `NotExpired` | the link timeout |
| `beat` | `Beat`, `NoBeat` | `tick` |
| `webcam` | `RequestOwedFrame`, `RecoverStall`, `WebcamIdle` | `maybe_request_webcam_frame` |
| `retransmit` | `Retransmit`, `NothingToRetransmit` | `retransmit_pending` |

A handler is one action: `AcceptStreamOn`, for instance, is the acknowledgement,
the greeting a first packet sets off, the duplicate filter, `handle_stream_change`
and the paced request, with their events in order. `Tell` is the checked send of
`emit`: with the receiver gone it ends the worker. `sent` and `events` hold what
the last step put on the socket and on the channel; `appPeer` is what an
application that follows the events believes.

The network is free: any datagram of the instance, from any address, at any
read. Loss, delay, duplication, reordering and packets of other hosts are all
behaviours of it. `RobocolSystem` has a real network, a set that only grows.

### How `MjpegReader` follows the code
Its actions are those of `VideoStream` with what is read conjoined: `Deliver` is a
`Frame`, `NoHeader`, `OverCap` and `BodyEnds` are the ways in which `PartFails`. One
byte is looked at in a step; `Fill` is one read of the socket or one call of
`ChunkedReader::read`. Bytes are bytes: a chunk size is a digit that is parsed, a
boundary is compared with what was read. The server is outside the code: it adds a
picture when it has sent the last one, cuts the stream into any chunks and
arrivals, and may go away after any byte. `ReadFails` may come at any read and
consumes any part of what the call wanted (`FailPoints`), as a time-out does.
`taken`, `pictures`, `fresh` and `failed` are history.

### How `Capture` and `DsCli` follow the code
A step of `Capture` is one frame of the file, through `handle_frame`,
`parse_udp`, the reassembler and the packet's parser. The stations come with it:
they cut a datagram into fragments, and the capture has them in any order and
number, each cut to `snap` bytes. `of` says which datagram a fragment is from,
which the code cannot know. The report is a set of operators over what has been
decoded, and its properties are asked at every frame, as if the file ended there.
The codecs are functions of constants: `CodecsRoundTrip` (`Codecs`) is asked of one state,
without traffic, and of the packets, bytes and widths of lines its constants name.
`IsPacket` says what a packet of the program is: its fields by name, each of its
width, enumerations at one of their values, strings that are text.

In `DsCli` the event thread keeps a list and then prints it, two steps; the prompt
reads a line, looks a name up under the lock, and calls, three steps; a pulse is
two calls. The worker below takes the calls one by one and moves as `DsSession`
does, which is what `client_session` shows that the client implements.

### Abstractions
- Of a response head only the status, the boundary and the transfer encoding
  count; of a part's headers only the blank line. A size line has one digit.
- Time is counted in ticks and an `Instant` is an age, kept up to the limit it
  is compared with. A handler reads the clock once; where the code reads it
  again within a handler the reading is taken to be the same.
- A packet is what the code tells apart in it. Sequence numbers are written and
  never read; they are left out. `telemetry` is a state and nothing more.
- A payload that fails to decode changes nothing, as a negative length or chunk
  index does; those stand for it.
- A rendered picture has its own number in every byte, so a byte from another
  picture, or one never written, shows.
- In the packet modules a number is the sequence of its big-endian bytes, and is
  not converted. An entry of an OpMode list is one byte: an object with a name,
  a bare string, or neither.
- `FakeRc`'s telemetry timers are nondeterministic: either packet may be due in
  any iteration. Loading, rendering and the field demo are left out.
- An `update_robot_state` and a `telemetry` share one set of states.
- The names of events `"Connected"` and `"Disconnected"` are assumed not to be
  command names; a command is surfaced under its own name in the model.

Each module has operators marked *seeded fault* just before the definition they
distort. No specification uses them; they record which slip in the code each
property is there to catch, and the properties are checked to fail with them.

## 3. What is checked

| run | instance | shows |
|---|---|---|
| `client_session` | two controllers, busy replies, garbage, a camera with frames of 0, 1, 2 and too many bytes and chunks that repeat and do not fit; all intervals 1 | `TypeOK`, `QuietWhenPaused`, `FreshSession`, `WebcamArmed`, `NoCompleteFrameWaits`, `RequestsPaced`; `SessionSpec`: the client implements `DsSession` |
| `client_commands` | one controller that acknowledges or not, also late; 2 stamps, queue of 3, 2 attempts | `BoundedMemory`, `FirstSentInOrder`, `LossIsReported` |
| `client_liveness` | one controller with a camera that may fall silent for good | `SilenceEndsSession`, `KeepsBeating`, `CommandsSettle`, `CameraKeepsAsking`, `ShutdownEnds` |
| `camera_stream` | 4 pictures of 5 bytes in chunks of 2 (the last is short), 2 frames at once | `FramesAreWhole`, `AssemblyBounded` |
| `fake_rc` | two stations, every command, gamepads, a frame number that wraps at once | `RcTypeOK`, `OpModeTornDown`, `ChangesAnnounced`, `CrashComes`, `NobodyIsLockedOut` |
| `system` | client and controller through connects, timeouts and a busy controller; RUN and one request of the greeting cross the network, so that an acknowledgement can outlive its session | `SettledWasHandled`, `LinkIsMutual` |
| `mjpeg_reader` | an endless stream, chunked or not, of three pictures that hold parts of the boundary, one at the cap and one over it; pieces of 1 or 2 bytes | `FramesAreServed`, `NothingIsMissed`, `SearchIsExact`, `PartIsBounded`, `PaneIsLive`, `ClearsAPicture`, `StopReturns` |
| `capture` | any 2 of 8 datagrams, in one piece and in several, of both versions of IP, from controller, station and a name server, with identifications of their own or the same; up to 5 frames, whole or cut. For the codecs: every kind of packet, with texts at the ends of their prefixes and up to 60 telemetry lines; all sequences of up to 4 of 5 bytes, with line breaks after 1, 3 and 4 letters | `DecodedIsSent`, `OrderlyReuseIsHarmless`, `CountsAreExact`, `RcIsTheController`, `LossIsShown`, `CodecsRoundTrip` |
| `ds_cli` | lists with a name missing, moved and there twice; lines of every kind; 2 calls waiting | `ActsOnWhatWasSeen`, `PulseEnds` |

Some of them in words:
- `RequestsPaced`: a frame request that is newly queued, other than by the
  application, is queued only when one is due. Requests come from a frame
  completed, the stream turned on, a request owed and a stall.
- `LossIsReported`: of the commands that leave the queue unreported in one step,
  in a session that goes on, all have the one name and stamp an acknowledgement
  had.
- `SettledWasHandled` says the same across the wire: the controller handled it.
- `NobodyIsLockedOut`: a station is turned away again and again only if the one
  that is served is heard again and again.
- `OrderlyReuseIsHarmless`: fragments of two datagrams that share an
  identification are put together only if some were lost, doubled or overtaken.
- `RcIsTheController`: with telemetry in the capture, who is labelled controller is
  one, and no row of the report's commands counts more requests than that side sent of
  the name: a mixed or foreign datagram is never counted for the other side. Without
  telemetry both ends may be labelled; see the hazards.

Bounds, and why they are enough for the question asked:
- `MaxCtrl`, `MaxControl`: messages waiting in the control channel, 1 or 2. They are
  taken one at a time and nothing looks past the head; more only delays.
- `Stamps`, `RcStamps`: two stamps tell a command from an earlier one of its name,
  which is all the code compares. In `RobocolSystem` every step that queues
  commands gets a stamp of its own, so `Stamps` bounds how many times it does.
- Intervals of 1 or 2 ticks: a tick may fall between any two steps, so every
  order of timers and steps occurs. `client_liveness` has a stall timeout longer
  than the pacing interval.
- `CrashDelay` is 0 in `system`, where a crash only has to come; `fake_rc`
  has it later.
- `MaxPendingCommands` 3 is the greeting's own size: a fourth command overflows. In
  `client_session` it is 1, so that greetings overflow as well.
- `MaxConcurrentFrames` 2, `MaxFrames` 4: eviction with frames above and below.
- `Carried`: the kinds of nameless packets and the names of commands that the
  network of `RobocolSystem` carries. All others are lost on the way, which the
  client must survive in any case.
- `VIEW`s of `client_session` and `system` leave out what the last step put on the
  socket and the channel, except what a property asks of it. No action reads it,
  so states that differ in nothing else have the same steps.
- `MaxFrameNum`, `MaxResourceId`: the wrap of the frame number is brought down
  to 0, and two configurations can be created.
- `Naps`, 20 in the code, is 1: each step of the nap does the same.
- `MaxParts`: at most two pictures are on the way at once, as many as the reader
  can hold parts of. `MaxPiece` 2: every byte can be the first or the last of a
  piece. The boundary `--` `-f` overlaps itself, so the search falls back.
- `MaxFrameBytes` 11 with pictures of 9 and 10 bytes and a line break: one reaches
  the cap and one exceeds it.
- `Mtu` 16 cuts most datagrams of the instance into two fragments or more; `SnapLens`
  is the same or less. `MaxCaptured` 5 with `MaxSent` 2: a datagram in two fragments
  can be there twice, and another between.
- `MaxLists` 3: one list on the screen, one kept but not yet printed, one announced
  and not yet kept.

The runs of the client, the reader, the capture and `ds_cli` do not check deadlock:
the worker and the prompt stop for good, and a capture ends.

### Fairness
`FairSpec` assumes that the worker's thread is scheduled (`WF` of `Worker`), that
time passes (`WF` of `Tick`), and that the drain loop finds the channel empty when
it again and again may (`SF` of `Drained`): the loop drains to empty before it
reads the socket or looks at a timer, so an application that sends without pause
keeps it there, and the properties fail without this. Nothing is assumed of the
network or of the peer. `RcFairSpec` assumes its loop and time go on. `CliSpec`
assumes that the worker takes what waits and that the prompt goes on with the line
it has begun; what is typed, and when, is up to the operator. `VideoSpec`
assumes its thread does; that a server ends each part is part of that assumption,
since the code bounds the body of a part but not the number of its headers.
`MjpegSpec` assumes only the thread, whose reads may fail at any time but need not
be helped by the server.

### Where the code and a document differ
- `restart_doc`: `client.rs` promises to restart the robot "only on an explicit
  ACTIVATE". `OneRestartPerActivate` fails: each acknowledgement named ACTIVATE,
  also a duplicate or one that answers a retransmission, queues a RESTART.
- `mjpeg_doc`, a defect: "a read error means the stream dropped", but a read that
  fails in the rest of a boundary's line is ignored. `EachFrameIsServed` fails: a
  time-out between the boundary and its line break makes the late line break the
  end of the next part's headers, and those are delivered as part of a frame.
  `FramesAreServed`, which holds, excludes what follows a failed read only.
- `video_drop_doc`: `run_stream` says it returns once "the receiver is dropped".
  `DropReturns` fails: the failed send ends the connection and it connects again.

## 4. What is proved

All theorems hold for every value of the constants that satisfies the named
assumptions (`...Assumption`, in the module that declares the constants): limits
and intervals are naturals (the queue, the ring and the number of frames at least
1, the chunk size at least 1), `None` is no value, the commands the client sends
have names, datagrams are packets, and a command that names an OpMode or a
configuration names one. The traffic of a capture is packets (`IsPacket`) that fit a UDP
datagram, with ports of 16 bits; a fragment holds more than the 8 bytes of a UDP header
(`Mtu > 8`, as of any link); and telemetry is sent by controllers, which do not talk to
each other (`ControllerAssumption`, the comment on `infer_rc`). `CodecAssumption` says
that the samples of `Codecs` are packets and bytes, any number of them. Whether bytes
are text (`Utf8`) is left open: a string is whatever it accepts.

`RobocolClientProofs`:
- `TypeCorrect`: `Spec => []TypeOK`
- `PausedIsQuiet`, `SessionsAreFresh`, `CameraStaysArmed`, `MemoryIsBounded`,
  `NothingCompleteWaits`: the invariants of the runs
- `ClientImplementsSession`: `Spec => SessionSpec`, the refinement of `DsSession`

The inductive invariant `ClientInv` is the conjunction of the types, the limits
of the queues (`QueueOK`) and of the frames (`FramesOK`), `WebcamArmed`,
`FreshSession`, `QuietWhenPaused` and `ViewIsPeer`. None of the last four could
be proved alone. A client without a peer requests no frame, so its queue stays
unsent, because a request is owed only while the camera is on (`WebcamArmed`);
the application's view is the peer because the packet that makes a peer is never
the one that completes a frame, no frame being under assembly then
(`FreshSession`); and the session that is lost passes to a search, not to a
pause, because a paused client has no peer (`QuietWhenPaused`). One lemma per
part carries it over a step. For the view, events are divided into those of the
session and all others (`News`), and `Told` is shown to be moved by the former
only. The refinement then follows from what a step may do to the peer and to the
search (`Moves`).

Of the order and the pace of what the client sends, in the same module:
- `CommandsKeepOrder`: `Spec => []FirstSentInOrder`. Commands join at the end and
  leave anywhere, which keeps an order. A round of retransmissions tries every
  command never tried, because one never tried has no time of sending to wait for
  (`Dated`); without that a later one could be tried first.
- `RequestsArePaced`: `Spec => RequestsPaced`. `Dated` is needed again: the clock
  makes older what was sent, and would turn an unsent request into one that looks
  new.
- `NoSilentLoss`: `Spec => LossIsReported`. `Holds(q, r, evs, X)` says that what was in
  `q` is in `r`, in the events as dropped, or in `X`; it composes, and each handler is
  a composition of pushes, a retain and events. `X` is what one acknowledgement
  named.

`FakeRcProofs`:
- `RcTypeCorrect`, `OpModesAreTornDown`: the invariants `RcTypeOK` and `OpModeTornDown`.
- `EveryChangeIsAnnounced`: `RcSpec => ChangesAnnounced`. A change is announced to the
  station served, so there must be one: until a station is served nothing was ever
  started (`NothingUnserved`), and the camera is on only in an OpMode
  (`OpModeTornDown`), so that nothing is torn down unheard.

`RobocolSystemProofs`:
- `LinksAreMutual`: `SysSpec => []LinkIsMutual`. Whatever the controller ever put on the
  wire, except a refusal, went to the station it served then and still serves
  (`Vouched`); and a client without a peer takes no refusal for one.
- `SettledIsHandled`: `SysSpec => SettledWasHandled`. A station sends nothing of what it
  would acknowledge, so what reaches one as an acknowledgement comes from the
  controller (`Honest`), which acknowledges in the step in which it handles. What a
  step of the client loses was named by the acknowledgement it read: this is
  `ReadKeeps` and `OtherKeeps` of `RobocolClientProofs`, stated for any packets and any
  stamps, so that packets on the wire need no types (`QueueFits`).

`MjpegReaderProofs`:
- `ReaderImplementsVideo`: a step of the byte-level reader is one of `VideoStream`, or
  changes nothing there. What is proved of `VideoStream`'s steps holds of both.
- `PaneStaysLive`, `OnlyPicturesAreCleared`: while the owner listens, a picture on the
  pane was delivered over the connection at hand (`ShownWasDelivered`), so the report
  that ends it clears the pane; and until that report what was delivered is on the
  pane (`DeliveredIsShown`), so no report clears an empty one.
- `FailureIsLongestBorder`: the table of `kmp_failure` holds, for each length, the
  longest proper prefix of the boundary that the prefix of that length ends with. A
  recursive function is a `CHOOSE` of a solution here; that there is one, and that it
  is right, is shown by the least index at which it would not be, which is how
  induction is put to this prover (`LeastNat`).
- `ScanIsExact`: one byte leaves the longest match of the boundary with what was
  matched and that byte, and passes on exactly the bytes before it. Following the
  fallbacks meets every border of the match, longest first (`BorderOfBorder`).
- `SearchStaysExact`, `PartStaysBounded`: `MjpegSpec => []SearchIsExact` and
  `[]PartIsBounded`. `ReaderInv` adds the types and the place of the reader
  (`Place`): which boundary it looks for, and that what it looks through is the body.
- `FramesStayServed`, `NothingGoesMissing`: `MjpegSpec => FramesAreServed` and
  `MjpegSpec => []NothingIsMissed`. `ServeInv`: as long as no read failed, what the reader has yet
  to see (`Pending`: the bytes it holds, those on the wire taken out of their chunks,
  those not sent) is what the server set out to send from the place the reader is at
  (`Expected`), unless the connection was cut in the middle of the body
  (`CutShort`). The server's steps move bytes from one part of it to the next; each
  step of the reader takes its first byte. A boundary is met where a picture ends and
  nowhere before (`FoundInPlace`): the picture does not hold it (a guard of the
  server), and it has no line break, so it cannot lie across the one that ends the
  picture. That is what `ReaderAssumption` is for; it also says that the boundary, the
  dashes around it and the header are lines the client reads under its cap.

`CaptureProofs`, of the codecs:
- `EveryPacketRoundTrips`: a packet whose parts fit their counts and length prefixes
  (`Encodable`) is itself after the wire, and cut short anywhere it is read as nothing
  or as itself. A packet is fields put at places that do not meet, then strings and
  entries end to end: each reader is shown to return what was written and to stop
  where the next begins (`PacketSurvives`). Telemetry's lists are read by a recursive
  function over the count; what it has read after `n` entries is the first `n`
  written, by the least count at which it would not be (`LeastNat`). The numbers are
  written in the order of their names, which needs that `Before` orders texts. Of a
  buffer that ends early every reader says what it says of the whole, or `Beyond`
  (`ParseCut`), and `Beyond` stays.
- `Base64ReadsBack`: `Decode` undoes `Encode` for bytes of any number, and with line
  breaks after every `w` letters for any `w`. Each group of letters gives back its bytes
  (`DecodeGroup` of `EncodeGroup`, three lengths), the letters before the padding are a
  number of groups that follows from the number of bytes (`LettersEncode`), and
  line breaks only move letters apart, which what is kept of them cannot tell
  (`SpreadLetters`).
- `CodecsKeepTheirPromise`: `CodecsRoundTrip`, for any samples.

`CaptureProofs`, of the decoder. `CountsStayExact`, `OrderlyReuse` and `ReassemblyIsExact` are
about frames captured in full (`snap >= Mtu`), the others about any:
- `CountsStayExact`: `CaptureSpec => []CountsAreExact`. What waits under a key is pieces
  captured under it, short of a datagram (`EntriesOK`), so each decoding of a datagram
  with a key of its own uses up a capture of each of its fragments, and what waits is
  the rest (`Accounted`). The last fragment gives the length, and when every fragment
  has come the pieces reach it without a gap (`Offsets`, `DivUp`), so it is decoded.
- `OrderlyReuse`: `CaptureSpec => []OrderlyReuseIsHarmless`. As long as the datagrams of a
  key come one after the other (`Orderly`), one of them waits at a time, each fragment
  once (`OneAtATime`); so whatever was put together of two was not in that order
  (`MixedIsDisorder`).
- `ReassemblyIsExact`: `CaptureSpec => []DecodedInFull`. Pieces of one datagram agree where
  they overlap, so which of them is kept makes no difference (`AssembledIsBody`); and
  the ports and the length are read back from the header as they were written
  (`UdpIs`), for which the fold that reads two bytes is unrolled (`NumberOfTwo`).
- `DecodedStaysSent`: `CaptureSpec => []DecodedIsSent` for traffic that is `Encodable`, also
  where frames are cut short. In full frames it is `ReassemblyIsExact` with
  `EveryPacketRoundTrips`. Cut short, a datagram in one frame is a beginning of its
  bytes, which `ParseCut` is about; one in several is never complete, since every first
  fragment lacks its last bytes and the total reaches past them (`ComesFrom`).
- `RcStaysTheController`: `CaptureSpec => []RcIsTheController`, whatever was mixed. Bytes of
  the first fragment, where the addresses, the ports and the kind of packet are, come
  from one datagram of those put together (`HeadsOK`), so what is decoded as telemetry
  was sent as telemetry, by its sender (`SourceInv`); what filtering by port and the
  stable sort keep are datagrams decoded, each in one place (`Robocol`). Labels are then
  right, and a row's requests are requests of its side.
- `LossStaysShown`: `CaptureSpec => []LossIsShown`. What is reported is the two maxima; a
  list that was understood has as many entries parsed as it has, so the maxima differ
  only if one was not, and differ if the parsed are all none.

`DsCliProofs`:
- `PromptActsOnWhatWasSeen`: `CliSpec => []ActsOnWhatWasSeen`. A list is kept before it
  is printed, so the one kept is never older than the one printed
  (`EventsInOrder`, `KeptIsAnnounced`).

`CameraStreamProofs`:
- `WholeFrames`: `StreamSpec => []FramesAreWhole`. A frame under assembly holds
  its number in every byte of the chunks received and is blank elsewhere
  (`Partly`); rounding up the number of chunks makes them cover the picture
  (`ChunkOfByte`), so a frame with all its chunks is whole. It rests on every
  packet on the wire being one that was cut from a picture (`NetGenuine`).
- `AssemblyIsBounded`: `StreamSpec => []AssemblyBounded`.

`FrameAssemblyProofs` shows what beginning a frame and adding a chunk preserve;
that eviction leaves at most the allowed number is `LatestBounded`, by the least
of the survivors. Its first part shows that the rank of an index enumerates a
finite set of integers, from which `Retain` is a sequence of what it keeps.

Only model-checked: the liveness properties (`SilenceEndsSession`, `KeepsBeating`,
`CommandsSettle`, `CameraKeepsAsking`, `ShutdownEnds`, `CrashComes`, `NobodyIsLockedOut`,
`StopReturns`, `PulseEnds`), since fairness
and `ENABLED` are beyond the prover. Every invariant and every property of single steps
that a passing run checks is also proved, `DecodedIsSent` for traffic that is
`Encodable`: what is said of a packet that does not fit its prefixes is in the
hazards. Induction over data, which the prover does not have either, is put to it
as the least number at which a claim would fail (`LeastNat`).

## 5. Not modelled

- JSON: what `serde_json` makes of a text is outside; a payload that does not parse
  is one value.
- The pcap containers and link headers (`pcap.rs`, `strip_link`): each frame is
  parsed by itself, from a file. The layout of the report and its table of peers.
- IPv6 fragments are in the model and ignored, as in the code.
- In `ds_cli`: line editing, printing, and the filter on repeated telemetry lines.
- The text of response heads, URLs and the debug dumps of `video.rs`.
- Rendering, the MJPEG server thread and the field demo of `fake_rc`: drawing and
  output. Scripts and build files are outside the program.
- `battery_voltage` of a telemetry packet, which reads a value out of a decoded one.

## 6. Plan

What is left, in order of what matters most:
1. Several stations and one controller in `RobocolSystem`, where `FakeRc` alone has
   them now.
2. The wrap of the frame number in `CameraStream`, where the client orders frames
   by number.
3. The report's table of peers and its warning for lists that are no JSON.
