# uArm tag detection: a specification

The repository controls a uArm from a Linux console (`src/Tag Detection`, Java with
Processing and G4P) and from tablets (`src/AndroidArmGUI`, Java and C).  The console shows
the arm's position on sliders, looks for tagged boxes with a camera and retrieves them, and
lets a tablet move the arm or decide on a retrieval over ZeroMQ.  This directory holds TLA+
modules of its control logic, TLC configurations that check them on small instances, and
TLAPS proofs of what matters most.

File names below are short: `uArm_Client.java` and its neighbours are in
`src/Tag Detection/src`, the tablet's files in `src/AndroidArmGUI/src/com/camera/simplemjpeg`
and `src/AndroidArmGUI/jni/ImageProc`.

## Inventory

| Component | State | Operations | Interaction | What is hard |
|---|---|---|---|---|
| Tablet requests (`ZeroMQMessageTask`) | one REQ socket per request | connect, send, recv, close | REP sockets of the console, one endpoint | no timeout, no retry: a lost request blocks its task for ever |
| Remote control session (`AndroidControl`) | position and suction byte of its own, socket, static `exitFlag` | construct, `exit`, loop recv / test / reply / move / set sliders | serial port, sliders, other sessions through `exitFlag` and the endpoint | revived sessions, late moves, endpoint held by a withdrawn session |
| Arm panel (`uArm_Client.draw`, sliders, `button1`, `sendPos`) | shown values, targets, `UPDATE_EN`, `suctionCup`, `serialOut` | frame, use of a control, toggle | sets and is set by sessions; serial port | panel and arm disagree; limits; no serial port, or one that fails on a write without the caller knowing |
| Console window (`uArm_Client`, checkboxes and buttons 3 to 6) | enabled buttons, camera flags, `video`, `boxCoordinates`, scan and retrieval under way | select feed, locate, scan, retrieve, ask a tablet, begin and end a session | blocks the animation thread while it works; camera threads; prompt's socket | handlers that stop half way, stale coordinates, tablets moving the arm during a retrieval or the camera during a search, frames lost, blocked window |
| Box detection (`BoxRetrieve`) | none between calls | `locate` | camera or MJPEG parser | exceptions, no end |
| MJPEG parser (`MJPEGParser`) | `ready`, picture | thread reads lines and a picture | polled by `BoxRetrieve` | end of stream, unsynchronised flag |
| Tablet application (`MjpegActivity`, `MjpegView`) | `suspending` flags, queue of tasks, view thread, stream | life cycle calls, `DoRead`, buttons | one serial queue of tasks for requests and video | blocked queue, start and stop racing |
| Video stream (`MjpegInputStream`) | previous lengths, buffers | find marks, read a frame | native decoding | marks missed, lengths of -1, timeouts |
| Native decoding (`ImageProc.c`) | `rgb`, its size, source manager | decode, copy, free, skip | bitmap of the view | buffer of another size, free while in use |
| JPEG library (`jni/jpeg8d`, libjpeg 8d as source) | a decompressor: tables, marker reader, input and output position, memory pools; coefficients; transformation | read header, start, read rows, finish, abort; transforms of blocks; Huffman and arithmetic coding of scans; lossless turns | called by native decoding, returns to it by `longjmp` on errors | suspension at any byte, multi-scan files, damaged data, memory after errors, sixty-four hand-written transforms |
| Settings (`SettingsActivity`) | the form | check and return | restarts the activity | - |
| `ZeroMQServer` | - | - | nothing constructs it | - |

What makes each of them correct, in short: a session moves the arm only for the tablet it
serves, never two at a time, and once more at most after it was withdrawn; panel and arm agree
at rest; a retrieval brings every box to the drop-off place unless someone else moved the arm or
a frame did not get to it;
the console never waits for a tablet that cannot reach it; a frame handed to the decoder is a
frame of the stream; the native buffer has the size of the picture copied from it.
`PROJECT.json` lists the hazards of the code line by line with the properties that cover them.

## Plan

The modules, in the order they were written (each extends those before it where they
interact):

1. `ZmqLink`, `ArmPanel`, `AndroidControl`: the endpoint, the panel, the sessions.
2. `RemoteControl` composes them; `ArmLease` is its abstract specification;
   `RemoteControlProofs` proves that it implements it.
3. `UArmClient` adds the window; `BoxDelivery` is the abstract specification of retrieving.
4. `TabletApp`: activities, views and their threads, the queue of tasks, the native buffer.
5. `MjpegStream` with its readers `MjpegInputStream` (tablet) and `MjpegParser` (console),
   composed in `StreamReaders`.
6. `JpegMarkers`, `JpegDecompress`, `ImageProc`: a frame through the native decoder.
7. `DctKernels`, `InverseDct`, `ForwardDct`, composed in `DctBlock`: a block through the
   transforms.
8. `HuffmanCodes`, `HuffmanEncoder`, `HuffmanDecoder` and `ArithCodes`, `ArithEncoder`,
   `ArithDecoder`, composed in `CoefScans`: a picture's coefficients through either coder.
9. `Transupp`: pictures turned without decoding.

10. `PanelProofs`, `UArmClientProofs`, `TabletAppProofs`, `ImageProcProofs`: proofs about 2, 3, 4
    and 6.
11. `StreamProofs`, `FrameProofs`: proofs about 5, first of what a search for a mark
    finds, then of where pictures lie in a stream and of the types, then of the frames.
12. `TransuppProofs`: proofs about 9.

The modules of the two coders and of the transforms declare recursive operators and stay with TLC.

## Modules

**ZmqLink** - the link.  `req[c]` is the REQ socket of tablet `c`: `idle`, `queued` (sent, no
server reached), `inbox` (in the pipe of a server's socket), `taken` (returned by its `recv`),
`answered`, `lost` (the server closed its socket; the tablet's `recv` never returns).  `port` is the
socket bound to port 9000.  `Send` and `Receive` are `ZeroMQMessageTask.doInBackground`; the rest is
the library, jeromq 0.2.0, as the code uses it: `bind` on an endpoint another socket has bound
returns without binding and without an exception; REQ and REP sockets alternate send and recv;
`close` forgets the requests in the socket's pipe, while replies already sent still go out.  A
tablet has one request at a time because its `AsyncTask`s run one after the other (the
application's target version selects the serial executor).

**ArmPanel** - the arm is the last frame written, with its sender.  Controls have a `target`
(what `setValue` sets, clamped to the limits of `createGUI`) and a `shown` value that eases to it,
frame by frame; each change raises `UPDATE_EN`, and `draw()` of the same frame sends what is shown.
Handlers and `draw()` run on Processing's animation thread, so a frame is one action.  That is
sound with sessions running besides: in a frame they can only write targets, and a target written
during the frame is a target written right after it.  `MoveControl` stands for every way of
moving a control (drag, wheel, hovering after a click).  Without a serial port `serialOut` is null:
`sendPos` throws, and an exception in `draw()` ends the animation thread (`awake`).  With one, a
write may fail: `sendPos` catches the `IOException`, prints it and returns (lines 714 to 718 of
`uArm_Client.java`), so that its callers go on, `draw()` clearing `UPDATE_EN`, as if the arm had moved.
`SendPos` therefore writes the frame or leaves the arm as it is, each time anew; the history variable
`writeFailed` says which it was.  A frame that was not written does not reach the arm in part: what
its firmware makes of half a frame is not in the repository.

**AndroidControl** - one thread per session; `pc` follows `RunThread.run`, with a step wherever
another thread can see or change something: bind, recv, test of `exitFlag` (with the new position,
which is the thread's own), reply, `sendPos`, `setValueXY`, `setValue`, close.  `revoked` and
`lateMoves` are history variables, as is `userSet` of the panel, the axes whose control was last set by
the user and not by a session.

**RemoteControl** - `BeginSession` and `EndSession` are the two halves of `button6_click1`.

**UArmClient** - the window.  `gui` is where the handler that holds the animation thread is; while
it is not `idle` nothing is drawn and no other handler runs, but sessions and camera threads do.
G4P catches an exception of a handler, which leaves the handler where it is: the alternatives of
`LeaveUSB`, `DeselectUSB` and `Locate` with `video = "null"`; without a serial port `Locate` ends
before it has changed anything.
`Look` is `BoxRetrieve.locate` by its outcomes: some boxes, none, an exception, no end.  The camera is
on the arm, and `locate` computes coordinates from the pose its caller sent the arm to (`Assumed`).
They are the box's own if the arm got there and is still there; after a write that failed, or a
session's frame between `sendPos` and the image, they are any of `Mistaken`, among them the place
of another box.  `boxCoordinates` keeps them, with the boxes they are meant for.
`GetFrame` is one of the eight frames `getBox` sends for a box (the sleeps between them are where
sessions get in).  It needs no case for a missing port: an offer takes a search, which would
have thrown (lemma `PortUsedAlways`).  A frame that is not written is skipped, and the box noted in
the history variable `spoilt`.  The world is external: a box is caught when the arm comes to it with the pump
on, and comes off when the valve opens, delivered if the arm was already at the drop-off place,
whoever opened it.  No two boxes are in one place.

**TabletApp** - the tablet's application.  A handler on the user-interface thread is an action,
but `stopPlayback` waits there for the view's thread, so that it has two halves (`StopBegin`,
`JoinReturns`); `ui` says who waits.  `queue` holds the `AsyncTask`s of all activities, run one
after the other, `posted` their results on the way to the user-interface thread.  `thread[a]` is
where the view's thread is: a Java thread is constructed, runs and ends, and a second `start` is an
exception (`alive` becomes false).  `rgb` is the native buffer, which outlives activities because
the process does.  Android is external: which calls come in which order.  `late` is a history
variable, the activities a connection came for after their `onPause`.

**MjpegStream** - the stream as ffserver writes it, frames with headers, cut or silent at some
byte.  Silence is final for either reader.  The console's has no timeout, and a pause is a delay.  The
tablet's read ends after five seconds (`setSoTimeout` in `MjpegActivity.DoRead`), with an exception that
`MjpegView` swallows before it calls `readMjpegFrame` again; but the stream it reads is that of an
HTTP response (`res.getEntity().getContent()`), an `EofSensorInputStream` of HttpClient, which on any
`IOException` of a read, the timeout included, aborts the connection and lets go of it, and says from
then on that the stream has ended.  The next call therefore returns -1 and the view's thread leaves its loop; what the
server would send after the pause is never read.  **MjpegInputStream** - `readMjpegFrame` as one action, since one thread calls it: the search
for the start of a picture, its length from a `Content-Length` line or by one of the two searches
for its last mark, and the bytes handed on.  The automaton of the searches, their start at half of
the length before, and the limit of `mark` are the code's; so is `HeaderLenField`, the field
`headerLen` that `getEndOfSeqeunceSimplified` adds, which is -1 for ever, because `readMjpegFrame`
has a variable of that name.  **MjpegParser** - the thread of
`MJPEGParser`, step by step, and `get_image`.  **StreamReaders** runs the two readers, each with a
connection of its own, on the same stream.

**JpegMarkers** - `jdmarker.c`.  A stream is a sequence of units (a marker, a length, a table), and
a marker routine maps decompressor and place to their new values and a result; where the source
runs dry it suspends, and the place goes back to where it was last saved.  Loops over the tables of
a segment are folds.  **JpegDecompress** - the
calls of the application and what is behind them, one round of a loop at a time: states of the
decompressor, scans, passes, iMCU rows, and the pools of the memory manager as sets of names.  The
size of a block is the first scan's, by its `Se` (`initial_setup`).  Where the data run dry in a row,
the Huffman decoder suspends, and the arithmetic one calls the error handler (`RunDry`).
**ImageProc** - `processimage`, one action for each call of the library or round of a loop; an
error jumps back to where `setjmp` was; an allocation may fail in any of them.  A pixel is the
picture and row it comes from.

**DctKernels**, **InverseDct**, **ForwardDct** - the integer transforms of `jidctint.c` and
`jfdctint.c`, each of the 28 sizes in both directions.  A routine of the code is one pass over
columns and one over rows; a kernel is what it does to one of them, with the code's weights, shifts
and order of operations, and rows and columns of the same length share it.  **DctBlock** draws a
block and codes it again.

**HuffmanCodes** - tables: counting symbols, code lengths of 16 bits at most
(`jpeg_gen_optimal_table`), codes from lengths (`jpeg_make_c_derived_tbl`, `jpeg_make_d_derived_tbl`).
**HuffmanEncoder**, **HuffmanDecoder** - `jchuff.c` and `jdhuff.c`, MCU by MCU, for sequential scans
and the four kinds of progressive ones, with restarts.  The decoder works on a copy of its state,
which it keeps when the MCU is complete.  The look-ahead table of the code gives what reading bit by
bit gives, and is left out.

**ArithCodes** - the states of a probability (`jaricom.c`) and the statistics both sides keep.
**ArithEncoder**, **ArithDecoder** - `jcarith.c` and `jdarith.c`: an MCU is a sequence of binary
decisions, each with its bin; a decision narrows the interval, and bytes leave it or enter it with
the code's registers (`c`, `a`, `ct`, and of the encoder the byte that a carry may still reach, the FF
bytes `sc` and zeroes `zc` kept back behind it).  The encoder makes the list of an MCU's decisions
first and codes it then; the decoder has to decide to know which bin is next.

**CoefScans** takes a picture through a coder, scan by scan; bytes of an interval may be lost, or
the source may give out inside an MCU, for which the Huffman decoder waits and the arithmetic one
cannot.

**Transupp** - `jtransform_request_workspace`, `jtransform_adjust_parameters` and
`jtransform_execute_transformation`: sizes, crop, trim, and where each block and coefficient goes.
`IsPicture` says what the decoder hands over (`jinit_d_coef_controller` of `jdcoefct.c` pads each
component to whole iMCUs, `initial_setup` of `jdinput.c` keeps its factors between 1 and 4), `IsAsk`
what a caller may ask for.

**ArmLease** - the abstract specification of remote control: a lease that one session holds at a
time; only its holder moves the arm for a tablet; once closed, one more frame is sent.  `RemoteControl`
maps `holder` to the owner of the endpoint, `open` to `~exitFlag`, `spent` to `lateMoves > 0`.

**BoxDelivery** - the abstract specification of retrieving: one box at a time, what was picked up
is delivered, and dropped only if a tablet moved the arm while it was held, or a frame did not reach
the arm; a frame of a session's delivers it as well if it opens the valve at the drop-off place.

**MCRemoteControl**, **MCUArmClient**, **MCTabletApp**, **MCStreamReaders**, **MCImageProc**,
**MCJpegLibrary**, **MCScaledDct** - instances for TLC.

**RemoteControlProofs**, **PanelProofs**, **UArmClientProofs**, **TabletAppProofs**,
**ImageProcProofs**, **StreamProofs**, **FrameProofs**, **TransuppProofs** - proofs.

## Runs

| Run | Question | Instance |
|---|---|---|
| `remote` | safety of remote control and the panel, `LeaseKept` | 2 sessions, 2 tablets, 4 requests `f`/`l`, or requests and uses of the panel, 3 together, with and without a port |
| `remote_live` | requests are settled, the panel comes to rest | 2 sessions, 1 tablet, 2 requests `u`/`Connected`, 1 use of the panel |
| `console` | safety of the window, `DeliveryKept` | 1 session, the prompt, 2 tablets, 3 clicks, 1 box seen and 2 requests `y`, or 2 and 1 request, with and without a port |
| `console_live` | the scan covers its directions, retrievals end | the prompt, 1 tablet, 1 box, 3 clicks, 1 press of the suction button |
| `tablet` | what late connections, pauses, restarts and lost replies do to the application | 2 activities, 2 events of users |
| `streams` | which frames the readers take, and that reading ends | 1 to 3 of 5 frames, pictures of 7 to 22 bytes, whole or 15 bytes short, a limit of 26 |
| `decode` | the native decoder on sound and broken frames; blocks, scans and turns of the library | 2 of 26 kinds of frames, 1 failing allocation; see below |
| `remote_revived` | does `exit()` end the thread? no | as `remote`, 1 tablet |
| `offer_without_boxes` | do enabled buttons mean boxes? no | 1 box, 3 clicks |
| `prompt_starved` | does the tablet decide? not while a withdrawn session holds the port | 1 session, 1 request `y` |
| `stale_location` | is the current location read? no, what the sliders show | 1 session, 1 box |
| `scaled_dct` | do blocks of 12 or 14 samples a row come back? no | 4 sizes, every coefficient at 11 and -12 |

What the passing runs show:

- `SingleDriver`, `RequestHeldOnce`: `begin()` can be called while withdrawn sessions live on, so
  two sessions may exist.  They never both work on requests: the second never gets the endpoint, and
  each request in the console is with the endpoint's owner.
- `LateMoveBound`, `LeaseKept`: the test of `exitFlag` comes before the reply and the move, so one
  move gets through after `exit()`; no second one does, of any session.
- `PanelShowsArm`, `ComesToRest`: frames of sessions and of `draw()` interleave, and a frame sent
  while the sliders ease can undo a session's move; at rest panel and arm agree again, axis by
  axis.  There are three exceptions.  The last frame may not have been written: nobody is told, and no
  frame follows.  A session may leave the limits of an axis, since its position is
  not clamped and the panel is.  And the user may set a control back, between a session's move and
  the next frame, to the value it still shows: then nothing changes, `UPDATE_EN` stays down, and the
  arm stays where the session sent it.  (The last one came up in proving: without it the property
  is not an invariant, and an instance in which users drag a control back shows it.)
- `GripTraced`: where the pump differs from the button, a session's copy of the byte is the reason, or
  a frame that was not written.
- `RequestSettled`: requests at a session are answered or lost with it, never kept.
- `OneServerAtWork`: prompt and sessions share the endpoint as well; `SingleDriver` is a part of it.
  With two tablets and two requests, one may be with a session that was withdrawn when the prompt
  asks, and the other waiting for the prompt.
- `OneFeed`: also when `exitCamera` throws in the middle of a handler.
- `OfferedBoxesThere`: coordinates outlive their boxes, but then the buttons are disabled.
- `EveryBoxHandled`, `DeliveryKept`: whatever tablets do meanwhile, no box that was gone for stays
  on the field or on the cup, and without their moves it is delivered.  A frame that was not written
  spoils the trip it belongs to and no other; a box seen by a camera that a session had moved is missed,
  or another is fetched in its place, and its own trip then finds nothing.
- `ScanCovers`: an unlucky scan looks in all seven directions; `RetrievalEnds`: also when no frame is
  written any more.

- `OneConnection`, `ThreadHasStream`: `setSource` and `closeSource` check nothing; that they never
  meet a running thread is due to when `DoRead` is executed, and to `join` before `close`.
- `StrayThreadIsLate`, `NativeAlone`, `TitleTrue`: a connection that comes up after `onPause` is the
  only way to a thread that plays for nobody, to two threads in the native code, to a title that
  says connected over a view at rest.  Such a connection is a step of the run, and its consequences
  are what these properties exclude otherwise.
- `BufferOutlives`: `onDestroy` finds no stream to free the buffer for, `onPause` has closed it.
- `StopReturns`, `ConnectionSettled`: `join` returns and connections come up or fail, unless a
  message at the head of the queue waits for a reply, or a decoder does not return.
- `FrameWhole`, `NothingLost`: a frame handed to the decoder is all of a picture, whatever frames were
  lost before it and wherever the stream is cut or falls silent; in a steady stream none is lost, but one that is alone in it.  Both have
  preconditions on the stream, `Tidy` and `Steady` in `StreamReaders`, because the code is wrong
  without them: it takes a length it reads at its word; its searches take any mark, also one inside a
  picture; and the first frame it takes reaches into the next header, as far as its own header was
  long, so that after a longer header than the next the reader would stand inside a picture.  The
  server writes the same header each time, with a length or without, and its headers are a hundred
  bytes where the limit is two hundred thousand.
- `ReaderEnds`, `PollingEnds`, `FirstPictureRead`: the tablet's reader says when the stream has
  ended; the console's polling ends, but for a silent stream or one cut inside the lines it skips, where it reads the end of
  the stream for ever.  It is the count of tries that ends it where no picture can be found.
- `FaultNeedsCause`, `BitmapWhole`: what it takes for the loop over rows to write behind `rgb`, which
  ends with any picture whose data are all there, or end at a marker; otherwise the bitmap shows the
  last picture that could be decoded, whole.
- `WritesInside`: of any frames in any order, that only more rows than the buffer has, or a round of
  the loop over rows that brought none, lead behind `rgb`; a wider picture does not.
- `Released`, `CallsReturn`: every pool is freed however decoding ends; each round of the library's
  loops uses something up.
- `CoefficientsReturn`: a block drawn at a size and coded again has its coefficients.
- `ScansAddUp`: after all scans the decoder has the encoder's coefficients, but for those of MCUs
  whose data were lost, and a suspended MCU leaves nothing behind.  Of the arithmetic coder this says
  that the two sides' statistics, contexts and registers never part, through carries, bytes kept
  back, zeroes left out at the end of an interval, restarts and lost bytes.
- `PictureTurns`: the result of a turn is the source's samples in their new places, none of the
  padding, and an iMCU that cannot be mirrored is there only if neither trimming nor perfection was
  asked for.

The five runs that expect a violation show where the code and its own words part; `PROJECT.json`
quotes the lines under `findings`.

**Bounds.**  `MaxRequests`, `MaxInputs` and `MaxClicks` bound what users do, and are guards of the
actions that stand for users; when they are used up the system may stop, as it does when users
go away, hence `CHECK_DEADLOCK FALSE`.  Two sessions are enough for one to be withdrawn, revived
and to hold the endpoint against the other; four requests for two of each tablet, so that a request may be
late, one in the other session and one may follow; a session is not used twice.  Any write to the serial port
may fail, as often as it likes.  Three clicks are enough to
select a feed, locate and retrieve or ask, or to locate twice.  `console` has two cases (`MCBound`),
together too large for one: one box is seen and both tablets may send, which is about the endpoint and the buttons,
or two boxes are, where one trip may disturb another, with one request and the stream for a camera.  `y` is a
yes to the prompt, and to a session a text like any other: it moves the arm to where the session thinks it is.
`console_live` leaves out sessions
(its questions are about handlers, which do not wait for sessions).  Easing is represented by one
value half way and the last one (`EaseStep`).  In `remote` a behaviour has
four requests, or uses of the panel as well, then three of both (`MaxTogether`); they drag the stretch away and
another control back to where it stood, or press the suction button.  The boxes of `MCUArmClient` are at places the steps
of the remote control and the slider values do not reach, so that a box is caught only by `getBox`;
two frames at the same place are the arm staying there.  Tablets are interchangeable, and so are the sessions of `remote`; symmetry is used for safety only.

`tablet`: each activity is used once, so that two are one and its successor after a restart, a
rotation or a reopening, which is as many as the code's races involve; pauses, presses and saved
settings are `MaxEvents`.  `streams`: `MaxTries` is 700 in the code and 2 here, more than a stream of
three frames has need of; the pictures are a few bytes long, with the server's header, with one that
tells a length, one three times as long as the others, which the search near the last length does not
reach, and one with a header so long that header and frame pass `FRAME_MAX_LENGTH` and with a fill
byte before the last mark.  `decode`: `DCTSIZE` is 2, so that pictures of three rows have
a partial last iMCU row; two frames, the second meeting what the first left; `MCImageProc` says what
each kind is for.  `decode` runs one part of the library in each behaviour.  Blocks: the 28 sizes but
for the four of `scaled_dct`, one coefficient at a time at level 11 beside a DC of 5, with a
quantization coarse enough that rounding is taken away and an error of weight or shift is not.  Scans:
pictures of up to four MCUs, sequential with sizes of blocks from 2 to 8, progressive with up to six
scans, intervals of none, 1 and 2, symbol counts that make codes longer than 16 bits, one fault.
`MaxEOBRUN` is 3 in place of 32767, and `MAX_CORR_BITS` 65 in place of 1000, so that runs and
buffers are flushed.  By arithmetic coding nine pictures, sequential and progressive, with two
conditionings of the tables; three of them have coefficients whose code carries over FF bytes, in
the middle and at the end, and keeps zeroes back, and with bytes lost the decoder meets codes that
cannot be.  Turns: an `Edge` of 2 in place of 8, which has an even and an odd coefficient in
each direction; five pictures with sampling factors up to 2, all transforms and options, four crops.

**Fairness.**  Weak fairness of each session's thread, of messages that can travel, of animation
frames, of handlers that are under way and of camera threads: the schedulers of Java and
Processing run what can run, and ZeroMQ reconnects by itself.  A thread blocked in `recv` is not
enabled.  `tablet` assumes it of the user-interface thread, the executor and the view's threads, not
of replies or of Android's calls; `streams` of the two readers, where a read that waits for a
silent server is not enabled; `decode` needs none, as `CallsReturn` and
the rows of `FaultNeedsCause` are invariants.  Nothing is assumed of users, nor of the camera: a look may fail for ever.

## Proofs

The theorems hold for any sets of tablets, sessions, boxes and activities, any bounds, and any
positions the user may choose.

**Remote control** (`RemoteControlProofs`, 527 obligations; `PanelProofs`, 314).  Assumptions:
`ServersAssumption`, `MaxRequestsAssumption`, `SendersAssumption`, `InputsAssumption`,
`SerialAssumption`, `PointsAssumption` and `SessionsAssumption` (distinct names, natural bounds,
integer positions).

- `TypeCorrect`: `Spec => []TypeOK`.
- `DriverInvariant`: `Spec => []DriverInv`.  None of the safety properties is inductive alone.
  `SingleDriver` says nothing of a session about to close, which owns the endpoint as well
  (`PortHolder`); that a session that receives owns the endpoint follows from where requests are
  handed to (`HandedToPort`), which closing keeps only because the owner closes, and forgets them;
  that the flag admits one late frame needs to know that no session is past its test once
  it is spent (`LateFrameSpent`), and that at most one is before, which is `PortHolder` again.
- `OneDriver`, `HeldOnce`, `AtMostOneLateMove`: the properties, from `DriverInv`.  A late frame counts when
  it is sent, also if it is not written.
- `ImplementsLease`: `Spec => LeaseKept`.  Bind and close acquire and release, the move is the
  holder's by `PortHolder` and admitted by `LateFrameSpent`; everything else stutters or is the
  console's.
- `PanelInvariant`: `Spec => []PanelInv`.  `PanelShowsArm` speaks of rest only.  What leads there is
  told by who sent the last frame, if it was written: `draw()` sent what is shown; a session sent its position, and until
  its last `setValue` call some controls are yet to be set (`MoveUnderWay`, `YetToSet`), while each
  of the others aims at the arm, was set by the user since, or is beyond its limits.  It rests on
  `DriverInvariant`: were a second session to move the arm between the frame and the `setValue` calls
  of the first, the panel would end up showing the first one's position.
- `PanelIsTrue`: `Spec => []PanelShowsArm`; `GripHasCause`: `Spec => []GripTraced`.

**The window** (`UArmClientProofs`, which extends `RemoteControlProofs`; 1538 obligations).
Assumptions besides those of remote control: `BoxAssumption` (places of boxes are positions, no
two boxes in one place), `MistakenAssumption` (mistaken coordinates are positions as well, any),
`MaxClicksAssumption`.

- `ConsoleTyped`: `WindowSpec => []WindowTypeOK`.  The range of the scan's direction is not inductive:
  `ScanWithin` adds which way it turns.  The starting threads are counted by clicks
  (`StartersCounted`), and in the middle of a retrieval there is a box it is for.
- `FeedsExclude`: `WindowSpec => []OneFeed`, from `FeedOfBox`: a feed is enabled only while its
  checkbox is selected, also where `exitCamera` leaves a handler in its middle.
- `OneServer`: `WindowSpec => []OneServerAtWork`, from `Served`: `PortHolder` and `HandedToPort` again,
  now with the prompt as one of the servers (`PromptHolder`).
- `OfferedAreThere`, `RetrievalHandlesAll`, `ImplementsDelivery`: `WindowSpec /\ PumpLeftAlone`
  implies `[]OfferedBoxesThere`, `EveryBoxHandled` and `DeliveryKept`.  `BoxInv` says what the eight
  frames of `getBox` have done by each step: the button says what the pump was told last, and no
  session was constructed when it was on (`PumpAtRest`); a box is held by a running pump only, one at a
  time (`HeldByPump`), and unless it was disturbed the arm is where `getBox` sent it, with the third of its frames, the fourth
  or the fifth (`HeldAsSent`); boxes under offer stand where they were seen (`OfferStands`); of those gone through
  whose coordinates are their own and whose frames were all written (`Sound`), each is delivered or
  dropped, and the one at hand has left the field with the third frame (`GetUnderWay`).  What lost
  frames do is bounded by this: a box that stays on the cup after its own trip, because no frame that opens
  the valve was written, comes off with the first one that is, of the next trip or of a session.  `PumpLeftAlone == [][~ToggleSuction]_consoleVars` is a hypothesis, since a user
  who starts the pump with `button1` and steers the arm with the sliders picks up boxes by hand, which
  is neither offered nor delivered by anybody; so does a session begun with the pump on.  The sliders themselves are left free, which the run does not do (`MaxInputs` is 0 there).

**The tablet's application** (`TabletAppProofs`, 1321 obligations).  Assumptions:
`ActivityAssumption`, `MaxEventsAssumption`.

- `AppInvariant`: `Spec => [](TypeOK /\ AppInv)`.  A connection under way is a task in the queue or a result on
  its way, never both and never twice (`ConnectionsCounted`, with lemmas about adding to and taking off
  a sequence).  A view has a stream as long as it has a thread, which is as long as it plays or is
  what the user-interface thread waits for, and no connection is under way then (`StreamOfThread`).
  Whom `stopPlayback` waits for is being paused, or was reached late (`WaitsFor`); an activity that is to
  reconnect is paused and at rest (`SuspendedAtRest`); one activity is resumed at a time; and who plays
  without being resumed was reached late (`PlaysResumed`).
- `OneConnectionAtATime`, `StreamOutlivesThread`, `OnlyLateThreadsStray`, `NativeCodeAlone`,
  `TitleIsTrue`, `BufferKept`, `AppTypeCorrect`: the properties of the run `tablet`, from it.

**The stream's readers** (`StreamProofs`, 2063 obligations, `FrameProofs`, 1512).
Assumptions: `PartsAssumption` (a header has no `FF`, a picture begins and ends with its marks, is at
least as long as both, and has no line of a header), `LengthAssumption`, `MissingAssumption`,
`FrameMaxAssumption`, `MaxPartsAssumption`, `MaxTriesAssumption`, `ReadAheadAssumption`.  The limit,
the length of pictures and headers, and where the stream is cut are arbitrary.

- A search and the bytes written are recursive functions, so that what they compute takes an
  induction; it is done over the set of numbers for which a statement holds, by the least number
  outside it.  `SearchSound`: what a search returns is where the mark stands, within its reach.
  `SearchComplete`: it returns no more than the first mark with no byte before it that is the mark's
  first, because after a mismatch a byte is not looked at again.
- `StreamTypesHold`: `Spec => []TypeOK`.  That a length is never below -1, and -1 only
  before the first frame or after a search that found nothing, is added by `LengthOK`; each
  way a call may end is one of the cases of `CallEnds`, with what the searches say of it.
- `FirstPictureIsRead`: `Spec => []FirstPictureRead`, from `FirstInv`: until the console's parser has
  skipped the lines of the header it stands in them, and then where the first picture begins.
- `FramesAreWhole`: `Spec => []FrameWhole`.  Whether the search from the mark ends behind the picture
  depends on where the call began.  `WholeInv` says that it begins between two pictures (`InGap`), or
  that the reader went astray (`Astray`): a call lost the mark, because a header and one and a half times
  the last length are more than the limit, and left the reader inside a picture; as headers do not get
  shorter, each later call finds its picture near that length, or loses the mark as well.
- `NothingIsLost`: `Spec => []NothingLost`, from `SteadyInv`: after `k` calls the frames are the first
  `k` pictures, and the reader stands behind the last of them, the first time with as much of the next
  header as the first was long.  The second call thus begins in the header, and looks for the end where
  the first length, too long by a header, says; that this is not too far is `Near`.

**Native decoding** (`ImageProcProofs`, 2844 obligations).  Assumptions: `DctsizeAssumption`, and
`PicturesAssumption`: where a routine of the marker reader looks for a size, a number of components or
a length, the frame holds a number or has ended (`Formed`), as bytes are numbers whatever they are
(`INPUT_BYTE`, `INPUT_2BYTES`).  Otherwise a frame is any sequence of units, cut off anywhere.

- `MemoryInvariant`: `Spec => []MemoryInv`.  That a call of the library keeps the memory manager, and
  allocates in its two pools only, is a lemma for each call and for what it calls (`KeepsFail` to
  `KeepsFinishDecompress`).  `MemoryInv` says in which steps of `processimage` there is a manager, and
  that without one, as after a `jpeg_CreateDecompress` that failed, nothing is allocated.
- `EverythingReleased`: `Spec => []Released`.
- `CallsInvariant`, `LoopsReturn`: `Spec => []CallsReturn`.  A lemma for each routine of the marker reader
  (`SofEnds` to `ProcessEnds`) says that it keeps the size a frame segment has given, leaves the place in
  the source where it was or at a later unit, and where it was if it suspends; the loop over tables is a
  function over the units, known to exist by `RoundsUnderway`.  Of the input (`InputIsTaken`) what remains
  of the source, a marker that was found counting as half a unit, gets less with each marker
  (`MarkerIsConsumed`), and with a row either that or the number of the scan's rows gets less
  (`RowConsumed`); a restart that has to go back for its marker takes none twice (`Resynced`,
  `RestartRead`).  `Held` is what must be known of a decompressor between two calls, in which of its
  states: without it the input could be expecting rows where a header is read, or have none to count.
- `WrittenInside`: `Spec => []WritesInside`.  `CallsInv` says where in `rgb` the next row goes: not before
  the place that the rows given out so far take, each as wide as the buffer; behind it if a round brought
  none.  At that very place a row of a picture that is not too tall has room (`RowLeads`).

**Turned pictures** (`TransuppProofs`, 1363 obligations).  Assumption: `TurnJobsAssumption` (what is turned
is a picture, `IsPicture`, and what is asked for a request, `IsAsk`), of any size, with any number of
components, any factors, coefficients and tables, and any region.  A block is 2 by 2 as in the run
(`Edge`): the transforms tell even from odd rows and columns and nothing else.

- `PicturesTurn`: `TurnSpec => []PictureTurns`.  `TurnInv` says how far the request is and that sizes,
  headers and blocks are what the picture and the request make them; the rest is about these.  In a block
  (`BlockSample`), to change the signs of the odd rows or columns is to draw it from the other side,
  and to transpose coefficients and table alike is to draw it transposed (`DrawnFlippedH`,
  `DrawnFlippedV`, `DrawnTransposed`).  In one direction (`Reached`), what the destination has room for
  comes from a place the source shows, because the crop begins on an iMCU and keeps to the size (`Cut`),
  and a place lies in whole iMCUs just when its block does, and just when the block that its iMCU begins
  with does, which is what `do_flip_v` and the rotations test where `do_flip_h` tests the block itself
  (`Placed`).  `BlockFrom` goes through the eight transforms, `DestinationFits` through the factors: those of
  the source, transposed with it, or 1 where one component is left, which is why a gray picture may
  only be forced where luminance has the largest factors (`CanBeGray`).

TLC checked each of these invariants on the instance of its component before it was proved.
Proving found six things in the model.  `PanelShowsArm` was not an invariant (see
above).  A session's frame may open the valve at the drop-off place, and so deliver the box:
`BoxDelivery` called that a drop.  Two boxes in one place would be caught together; the assumption
that there are none was not stated.  `MaxClicks` had no assumption.  `FrameWhole` did not hold of
headers that get shorter: with headers of 6, 3 and 3 bytes, pictures of 7, 14 and 64 and a limit of
100 the reader comes to stand inside a picture, and takes the next as shorter than it is; `Tidy` now says that
they do not.  And `getEndOfSeqeunceSimplified`, read again for the proof, adds a field that is -1
where the model had added the length of the header once more; with the code's sum more holds, and
`NothingLost` now says that no picture at all is lost where there are two.

**Only model-checked.**  Liveness (`RequestSettled`, `ComesToRest`, `ScanCovers`, `RetrievalEnds`,
`StopReturns`, `ConnectionSettled`, `ReaderEnds`, `PollingEnds`), which is out of the prover's reach
together with `ENABLED`.  Of native
decoding `FaultNeedsCause` and `BitmapWhole`, which speak of what the frames given to an instance are
known to be (`whole`, `good`).  `CoefficientsReturn` and `ScansAddUp`: the transforms and the coders declare
recursive operators, of which the prover can say nothing.

## Not modelled

- What the arm makes of heights above 150, to which `getBox` lifts boxes (line 251, up to 225).
- The geometry of `BoxRetrieve` (floating point), labels and layout, the drop list of tag families,
  `setUIPos`, `readMjpegFrame()` and `read(String)` (never called), `ZeroMQServer` (never
  constructed), ffserver's configuration.
- The bytes of a frame for the servos: a frame is one message, since their firmware, which would
  have to find it in the bytes, is not in the repository.
- `SettingsActivity`: each field is compared with constants once, and the result goes back to the
  activity, where `RestartApp` is modelled.
- In the view: where and in which size a picture is drawn, the frame rate over it.  In native
  decoding: `malloc` of `rgb` that fails, a bitmap that is NULL or cannot be locked.
- Of the library: the fast and the floating-point transforms, color
  conversion and the resampling of samples, color quantization, the compressor's control and its
  suspension, the standard tables of `jcparam.c`, parsing of crop strings and Exif data in
  `transupp.c` and which markers it copies, the command-line programs.  Overflow of a
  coefficient (`MAX_COEF_BITS`) and of the transforms' arithmetic do not occur with coefficients of
  the levels used.  Numbers of restart markers are `JpegMarkers`' matter, `CoefScans` takes
  intervals as found.
