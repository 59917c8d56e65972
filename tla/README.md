# A TLA+ verification of xjadeo

xjadeo is a video player that has no transport of its own: it shows, for a
position that an external source dictates (JACK, LTC, MIDI time code, a remote
control), the frame of a movie that belongs there. This directory holds TLA+
models of its program logic, TLC configurations that check them, and proofs
that TLAPS checks. Paths below are relative to `src/src/xjadeo/` unless they
say otherwise; line numbers are those of the modelled commit.

## 1. Inventory

### The parts and how they interact

| part | state it keeps | operations | sources |
|---|---|---|---|
| event loop and player | `loop_flag`, `loop_run`, `force_redraw`, `dispFrame`, `ts_offset`, the picture buffer, `current_file`, libav's contexts | poll the source, `display_frame`, `open_movie`, `close_movie`, window events, quit | `xjadeo.c`, `main.c` |
| index thread | `fidx`, `fcnt`, `scan_complete`, `abort_indexing`, `thread_active` | three passes over the file; progress reports | `xjadeo.c` |
| seeking | seek table, `last_decoded_pts`, `last_decoded_frameno`, demuxer and decoder positions | `seek_frame` | `xjadeo.c` |
| sync sources | one handle per source, `current_midi_driver`, the shared JACK client | connect, disconnect, poll, server shutdown | `common.c`, `common_jack.c`, `jack.c`, `ltc-jack.c`, `midi.c` |
| MIDI time code | `tc`, `last_tc`, `full_tc`, SysEx state; per driver: a ring, a thread with a mutex, two queues | parse quarter and full frames, poll | `midi.c` |
| time code | `have_dropframes`, `want_dropframes`, `want_autodrop`, `framerate` | frame number to time code and back | `smpte.c` |
| offset | `ts_offset`, `smpte_offset` | set by keys, text or number; recalculate for a new file | `display.c`, `remote.c`, `xjosc.c`, `xjadeo.c` |
| remote control | line buffer, notification mask, connection state, `interaction_override` | read bytes, split into lines, dispatch to `xapi_*`, reply | `remote.c`, `xjosc.c` |
| message queues, `xjremote` | two POSIX queues with names, the client's two threads and their flags | create, drain, ping, relay, unlink, fork an xjadeo, start over | `mqueue.c`, `xjremote.c` |
| configuration, session | the options, the saved file | read system and user file, command line and session over them, save from JACK's callback | `configfile.c`, `main.c`, `common_jack.c` |
| on-screen display | `OSD_mode`, texts | toggle modes by key, menu, command and index thread; render | `common.c`, `display.c` |
| windows | `VOutput`, `loop_run`, geometry, mapping, `osd_seeking` | open, close, change the output; keys, buttons, drawing | `display*.c` |
| menu | the open menus, what can be chosen, what is marked | open, hover, click, close | `display_x_dialog.c` |
| drag and drop | `dnd_source`, `xj_atom`, a property of the window | enter, leave, drop, ask for the data, load it | `display_x_dnd.c` |
| file dialog | list, selection, scroll position, path, filters; the list of recent files | open a directory, sort, filter, scroll, choose; add, save and load recent files | `libsofd.c` |
| clock | the last tick and its high word | extend a 32-bit counter to 64 bits | `gtime.c` |

The main thread runs everything except: the index thread (`pthread_create` in
`start_index_thread`), JACK's process and shutdown callbacks, PortMidi's timer
callback, the ALSA sequencer thread, and signal handlers. Threads share plain
global variables. Only the ALSA sequencer driver has a mutex; JACK drivers and
LTC use ring buffers; the player and the indexer rely on the order of their
writes to flags.

### What is hard about it

* **The indexer and the player** share the demuxer, the decoder and the seek
  table without a lock. Opening, closing, reopening (after a change of the
  window) and quitting happen at any moment of a scan.
* **The seek cache**: a frame is found relative to what was decoded last, over
  a decoder with delay, frames out of order, damaged packets, and a table that
  was built by a heuristic scan with limits.
* **Several sources** can be connected at once, by interfaces that disagree
  about whether connecting one disconnects the others.
* **Time code arrives in pieces**, from callbacks, forwards and backwards.
* **What a time code means** depends on flags that the file, the command line
  and the MIDI source set, each for all the others; the offset is kept both as a
  number and as a text.
* **Remote input arrives in pieces**, and queues are named: who creates, drains and
  unlinks them in which order decides who talks to whom.
* **A saved session** is read by a chain of prefixes, over two configuration files and
  the command line, and combines what is connected with what was noted by commands.
* **The user and the remote control** act on the same window: a menu, a file dialog or
  a drag that began under one state ends under another.

### What makes it correct

The two threads never use the decoder at once; nothing is freed under a scan;
a seek reads a table that is complete and belongs to the open file; the window
does not keep a frame of a closed file; every request returns; the frame that
is shown is the frame that was asked for; assertions never fire; a command line is
executed once; a session of `xjremote` has one server; what a session saves is what it
restores; a user does nothing that was disallowed; dialogs belong to the open window.
`PROJECT.json` lists the hazards by line, each with the properties that watch it.

## 2. The modules

### `MovieIndex`: player and index thread

State: the globals of `xjadeo.c` that control what happens, by their names
(`scan_complete`, `thread_active`, `force_redraw`, `dispFrame`, ...), and two
program counters, `mpc` for the main thread and `tpc` for the index thread.
Libav's contexts are reduced to the file they belong to (`ctx`), the index
table to the file it was allocated for (`fidx`), its length (`fcnt`) and how
many entries have their seek position (`seekable`).

There is one action per piece of code between two accesses of shared data: the
read of `force_redraw` (`TakeRedraw`) and its reset (`ClearRedraw`) are two
actions, as they are two statements. `display_frame` is one action per exit,
with `seek_frame` as a state of its own (`mpc = "seek"`), because it is long and
uses what the index thread uses. `close_movie` is the sequence `ForgetFile`,
`RaiseAbort`, `JoinIndexer` (blocked until the thread has exited), `FreeMovie`;
`open_movie` is that, then `ResetIndex`, then one of `OpenRefused`,
`OpenWithoutDecoder` (late failures, which leave the table behind),
`OpenSucceeds`, then `StartIndexer`, where `pthread_create` may fail.
The index thread has one action per packet or entry of each pass, for each
error exit, and for its last writes `scan_complete = 1` and
`force_redraw = 1`.

`MoviePlayer` is what a user may rely on: a file is loaded only after the one
before was given up; pictures come from the loaded file, once it is ready.
`MovieIndex` implements it under a refinement mapping (`ImplementsPlayer`).

### `SeekFrame`: the seek table and `seek_frame`

Here the scan is over. A movie is a sequence of packets in decoding order with
presentation time stamps, keyframe marks, a decoder delay, the length in its
header, a start offset and a set of packets that fail to decode. Operators
compute what the three passes of `index_frames` leave in the table (including
direct seek mode, `-I`gnored offsets, the entry that index-table overflow leaves
unwritten), and actions execute `seek_frame`: the early returns, the cache, the
assertions, the seek, each iteration of the read loop, and each error return
with its reset of the cache. Libav is external: `av_seek_frame` goes back to the
last keyframe that is not behind the time stamp, and before the first keyframe
may fail or go to the start; a decoder holds `delay` frames and returns the one
with the smallest time stamp, and gives the rest when it is drained. The exits that compare time stamps
compare them in units of frames, rounded (`FrameNear`). Behind the end of the file the code looks
at the stream number of a packet that was not read: whether it bears the video's is a property of
the movie, `drains`; where it does not, the round is lost (`PassOver`) and the decoder keeps its last frames.

### `Timecode` and `TimeOffset`: time code and the offset

`Timecode` holds the conversions of `smpte.c` as operators: `parse_int` and
`parse_string` with the carry between fields (`Carried`), `insert_drop_frames`,
`frame_to_smptestring`, `smpte_to_frame` with its three modes, and
`smptestring_to_frame`. A text is reduced to its numbers and the separator
before the frames, because the parser knows colons only and the player itself
writes semicolons. Frame rates are fractions where the code has doubles.

`TimeOffset` is the state these conversions depend on and everything that changes
it: loading a file (which recalculates the offset and may switch to drop-frame
time code), the offset keys, the remote's and OSC's offset commands, seeking,
the choice of MTC rate conversion, and MTC times. `Transport` stands for every
other source of a position. Three history variables say what was entered or
received last, as long as nothing has changed what it means.

### `SyncSource`: which clock is followed

State: the handles `jack_client`, `j_client` and `jack_midi_client` of the three
kinds of source, the handle `xj_jack_client` that they share for session replies
and status commands, the MIDI driver and its device, the port option, and the
role of each JACK client as the server knows it. A handler (a menu item, a
remote or OSC command, `main` with its options, the restart by a JACK session)
is a list of calls, `todo`, which the main thread carries out one by one: each
call is one step of `Step`, with the tests it makes, and each may be refused by
the server or find no device. JACK's callbacks run between any two calls:
`Shutdown` (the server ends or drops a client) and `JackSession` (the
configuration is saved). `Poll` is the part of an iteration of `event_loop` that
chooses whom to ask; it has its own order of priority, as `psync` has for the
remote control and the saved file. Two history variables: `chosen`, the source
that the last switch was for ("mixed" once OSC has connected one beside the
others), and `orderly`, which says that no source was opened beside another and
none was closed that was not open.

One call is one step although the shutdown callback could interrupt it:
`ltcjack_shutdown` calls `close_ltcjack`, which frees the decoder, and the main
thread may be in `close_ltcjack` too. That race, inside library calls, is listed
as a hazard and not modelled. JACK-MIDI is opened without a test
whether the client could be activated; libjack is taken to find no ports for a client that is NULL, so
that the opening fails. The switch to menu synchronisation of the remote
(`OVR_MENUSYNC`) only withdraws the menu, and is left out; the driver option
of a saved file is any driver; a port to look for ("-1") and a named one are the
same port.

### `Mtc`: MIDI time code

State: `tc`, `last_tc` and `full_tc` of the parser as the records of digits they
are, the variables of a poll, and a sender with a position in quarter frames
and a direction. `parse_timecode` is translated digit by digit, so that a time
put together from digits of two times is what it would be in the program.
`Send` is the arrival of the next message, `Lose` that of a later one (the one
between is lost, or a whole lap of the JACK-MIDI ring, whose writer has no test
for a full ring); the sender may stop, start, turn round and locate, and the
source may be reconnected, which resets some of the parser's variables. A poll
is three steps, as the drivers differ in what may come in between: JACK-MIDI and
raw MIDI parse in the polling thread, the ALSA sequencer parses on its own thread
and protects the time but not the tick, PortMidi's thread answers with a copy of
both. PortMidi's reset of the parser after a stop is one step with the check that calls for it. All four drivers are in one run. A full-frame message comes in one piece or,
for PortMidi and raw MIDI, in parts between which a poll may come.

### `LineBuffer`: how input becomes command lines

`remote_read_io` of `xjadeo -R` and `dothework` of `xjremote` hold the same code twice;
`program` says which one runs, as they differ in what a read of nothing means. State: the
buffer as bytes, the offset, the lines executed, and what was typed. A typed byte is the
number of its place in the input or an end of line, so that a line tells what it was made
of. `Read` is one read of any length that fits, `Line` a round of the loop with its
`memmove`, which leaves the old bytes - and no terminator - behind what it moved.
Memory that was never written holds anything; a first read that brings nothing is left
out, as xjadeo would look for lines in such memory only.

### `XjRemote`: message queues, servers and clients

The two names `request` and `reply` are bound to queues; unlinking takes a binding away
and leaves the queue to those who have it open. A server (`xjadeo -Q`) is the sequence
`CreateRequest`, `CreateReply`, `Drain`, `Execute`..., `Leave`, `UnlinkOnClose`, with each
exit of `mymq_init`. A client (`xjremote`) is two threads: `main` opens the request queue or
forks an xjadeo, starts the reader, pings, relays what is typed, and starts over when no
answer comes; `reader` opens the reply queue (creating it when it is not there) and prints. It may
fail to open it and end (`OpenReplyFails`), which the main thread learns from a ping without answer only.
Servers and clients may be launched and killed at any moment, and a queue may be left over
with old answers in it. Queues of System V (`HAVE_IPCMSG`) and the option `-U` are left out.

### `Session`: configuration file and JACK session

State: the variables of `main.c` that options set, as one record `opt`; the driver, source,
display and window that are in use; the saved file as lines. `Start` and `Restore` read the
configuration files, the switches and `--rc` in the order of `main`; `Chain` is the list of
prefixes that `parseoption` goes through, `SavedKeys` the keys in the order of `saveconfig`, each
with what it is written from. The actions between are the handlers that change what is saved. A text
is the sequence of its words, because `strtok` cuts at blanks. `Typed` says of each option what its
variable can hold. The lines for the window's place are written and read, and come back as nothing
useful, because `WINPOS` and `WINSIZE` shadow them in the chain; the place itself is fixed (`Place`).
Left out: texts longer than a buffer; numbers that do not fit (`LineTyped` and `SwitchTyped`
are what a file and a command line may say); handlers that set several options at once
(`SetOption` sets one, to a value in its range, as the handlers leave the option alone otherwise); a session callback in the middle of a handler (JACK's thread
runs it).

The module states four assumptions about its constants, which TLC evaluates in both configurations: what
files say (`RcAssumption`), what switches are given (`SwitchesAssumption`), what handlers set
(`ValuesAssumption`), which texts there are (`TextsAssumption`). A fifth, `ChainAssumption`, has no
constant that matters: it says for each of the 39 keys of the saved file which key of the chain it reaches. It
compares strings by their characters, which TLC computes and the provers do not know about.

### `Osd` and `Desktop`: what user, remote control and index thread do to one window

`Osd` is the on-screen display as operators: `OSD_mode` as the set of its bits, one operator
per function that changes it, and `Drawn`, the choice of `render_buffer` among the boxes
over the middle of the picture.

`Desktop` is what a user does while a remote control does something else. State: `OSD_mode`
and the index thread's update of it, which is a load and a store (`index.loaded`,
`index.stale`) with the main thread's updates in between or around it; movie, window,
`loop_run`, `loop_flag`, `interaction_override`; the menu and the file dialog with the number
of the window that they belong to; `dnd_source`, `xj_atom`, the selection's owner and the
messages that the window has not read yet. One action per key, button, menu item, message
and command. `did` is a history: what the last step did, on whose behalf, and what was
disallowed when its dialog opened.

What is abstracted: `force_redraw`, the value of the offset, places, texts, fonts, the look of the
window, and replies and notifications. The request for dropped data is on its way for a while
(`dnd.sent`) and goes to whoever owns the selection when it gets to the server (`Convert`), as it bears no
time stamp; the owner that the player has checked before may have been followed by another. Replies of
the server come after what was requested before them (`Replied`). After a click the menu's record is read once more although it
was freed (`display_x_dialog.c:603`), so that the file dialog may or may not open (`ClickOpen`).
ImLib2's `close_window` closes neither the menu, whose grab of pointer and keyboard then lasts for
ever, nor the file dialog (`ClosesDialogs`, `Stuck`).

### `FileBrowser`: the file dialog and the recent files

The dialog is one record `fib` of what the static variables of `libsofd.c` hold. The helpers
that its handlers call are operators from such a record to the next (`Exposed`, `Selected`,
`Resorted`, `PostOpen`, `OpenDir`), and each key, click or window event is an action.
Directories are a set of entries, any of which a reader may miss. `qsort` is the stable merge sort
that glibc makes of it (`InOrder`), as `cmp_recent` returns 0 or 1 only and so is no order. `Calm` assumes
that no directory changes between the two passes over it; without it an assertion fails
(`ListingSurvives.cfg`). During a drag of the scroll bar anything may happen: a drag that outlives its
list scrolls to a negative line (`DragOutlivesList.cfg`). A click may hit the line below the last one drawn
(`ClickableRows`), and the window may be lower than it was asked to be (`Rows`). Pixel layout, hovering, the parsing of bookmarks
and mounts (any directory may be a place) and paths with `//` are left out.

## 3. The runs

| run | question | expected |
|---|---|---|
| `movie_index` | may the user open, close, reopen and quit at any moment of a scan? | pass |
| `redraw_is_told` | is the redraw that ends a scan ever lost? | violated |
| `seek_frame` | is the frame that is shown the one that was asked for? | pass |
| `timecode` | is the offset that was entered what is displayed, and does the time code advance with the transport? | pass |
| `sync_source` | is the source that was switched to the one that is followed, whatever the JACK server does meanwhile? | pass |
| `mtc` | is the position right once 16 messages have come in a row, for each driver and whatever came before? | pass |
| `line_buffer` | is every line executed once, as it was typed, when reads end lines one by one? | pass |
| `piped_commands` | ... and when one read brings several? | violated |
| `xjremote` | do the commands of a session reach one server, in order, and does the client end when that server does? | pass |
| `session` | does a session come back with the options and the source it was saved with? | pass |
| `desktop` | do user, remote control and index thread leave display, dialogs and permissions consistent? | pass |
| `file_browser` | does the dialog return the file that it marks, and what may take the drawing out of its list? | pass |

Eleven more configurations are kept beside these: `tlc -config X.cfg M` reproduces what section
5 says of `DispFrameInMovie`, `StartOffset`, `SavedMtcHasPort`, `SavedMovie`, `DropOnlyWherePermitted`,
`OffsetIsRecalculated`, `ListingSurvives`, `RollingIsNotStuck`, `DropIsOvertaken`, `DragOutlivesList` and
`TinyWindow`, each with the MC module of its component.

**Bounds.**

* `movie_index`: three files, of which one has more packets than its header announces, so that the
  table overflows, one consists of keyframes only and goes through direct seek mode, and one is
  shorter than announced; the probe of 500 packets is 2. Two commands per behaviour, on top of the
  open at start and the close at exit: enough for every pair (open a file while another is being
  scanned, close the window and reopen it, quit during a scan) and for a third `open_movie`, which
  finds what the first two left. The theorems below remove these bounds for all safety properties.
* `seek_frame`: every placement of keyframes in five packets, with and without decoder delay, plus
  some with what these lack (frames out of order, rounded time stamps, direct seek mode,
  overflow, a short file, a start offset, damage, the last packet too, a delay of two frames, at the
  reach of the read loop and beyond it, a file at whose end the decoder is not drained). All satisfy the hypotheses of the theorems below, which TLC checks
  (`MCMoviesInOrder`). Calls are unbounded: all histories of calls are explored, since the cache
  makes the state finite. The keyframe limit of 100 is 11, more than twice the longest movie, as 100
  is to a usual distance.
* `timecode`: rates of 25, 30 and 29.97; positions around a minute, ten minutes, an hour, a day and
  0, with and without dropped numbers; three steps, enough to load a file, change how time is
  counted, and act. The theorems cover all other positions, rates and lengths.
* `sync_source`: two JACK clients, enough for a switch from one source to another with both open,
  and a third that is refused; two of the four MIDI drivers, one on JACK and one with a device of
  its own, and a third that commands name but the build lacks. Commands are unbounded. The theorems
  hold for any clients and any drivers.
* `mtc`: 48 quarter frames around 16:00:00:00, where every digit changes, and two disturbances, the
  first of which is the start of the sender: enough for a turn, a loss, a stop and a restart or a
  reconnection at any of the eight positions of a message, followed by the 16 messages after which
  the position must be right. 16 is exact: after a message out of order the parser forgets what it
  knew, that message too, and in the worst case the first time after that which is complete ends
  with the 16th. The limit of polls without a new time is 7, for at least one message per poll,
  where the code has 2500 for 25 frames per second; a lap of the ring is 8 messages, where the code
  has 1024. `RollingIsNotStuck.cfg` has a limit of 17, more than the messages that a transport needs
  to be followed.
* `line_buffer`: a buffer of 7 bytes and 9 bytes of input, so that the buffer is filled, moved
  several times and full. `piped_commands` has a larger buffer, since the violation needs two lines
  in one read and no full buffer.
* `xjremote`: one client, two servers, queues of two messages, up to three starts over, two
  commands, one notification and one kill: enough for a client that finds a queue of a dead server,
  launches its own and meets another. With two clients both read one reply queue, and one may take
  the other's "pong." or "quit."; what `Paired` and `QuitIsFollowed` say is about a client that has
  no other beside it.
* `session`: two display modes, nine command lines, two configuration files; three starts with two
  changes, enough to restore, change, save and restore again.
* `desktop`: an input is one of some kinds that come together, three or four per behaviour
  (`Desks`): dialogs and overrides, dialogs and windows, drags and overrides, drags and windows,
  keys and files. `DropIsOvertaken.cfg` has the same desks. The theorems are for any number of inputs of any kinds, and any masks.
* `file_browser`: a root with a directory and two files, a directory with a hidden file and a file
  of the same name; windows of one or two lines, so that lists scroll; two of the three headings to
  sort by; two recent files. Commands are unbounded. `TinyWindow.cfg` adds a window in which no line fits, less
  than none by the code's count.

**Fairness.** `MovieIndex` assumes weak fairness of each thread as a whole, not of single actions:
the operating system schedules both. The main thread is never disabled by waiting for the user, as
`select_sleep` has a timeout; its only blocking call is `pthread_join`. The choice among a thread's
enabled actions stays free: nothing is assumed about which command comes or that a read succeeds.
`SeekFrame` assumes that the main thread, once inside `seek_frame`, goes on; not that it is ever
called. `SyncSource` assumes that a handler that runs goes on (weak fairness of `Step`: no call
blocks for ever), and strong fairness of `Poll`: between two polls the event loop handles the window
events and the remote input that have arrived, finitely many, and then polls again. `Mtc` assumes
weak fairness of the polls, and nothing of the sender. `XjRemote` assumes weak fairness of each
thread of a client as a whole: the reader waits in `mq_timedreceive` for two seconds at most, the
main thread in `select` for one; nothing of the servers. `LineBuffer`, `Session`, `Desktop` and
`FileBrowser` have safety properties only: their steps are whole handlers, which end.

Deadlock is checked in `MovieIndex`, `SeekFrame` (the end of the process is the
action `Exited`), `SyncSource`, where the user may start it again, and `Mtc`. The other modules
stop where the program ends or waits for its user, or at their bounds on inputs.

## 4. What is proved

`MovieIndexProofs`, for any files of any length, any positions and any number of
requests, from `MovieIndexAssumption` alone:

* `TypeCorrect`: `[]TypeOK`.
* `DecoderIsExclusive`, `ScanKeepsItsMovie`, `SeeksAreIndexed`, `NoThreadAtStart`:
  the invariants of the shared decoder, from the inductive invariant `IndInv`.
* `StalePictureGoes`: the picture of a closed file is always about to be redrawn.
* `PlayerImplemented`: every behaviour is one of `MoviePlayer`.

The properties are not inductive by themselves. Why can the main thread not be
in `seek_frame` during a scan? Because it entered with `scan_complete` set, the
thread sets that as the last thing it does, and a new scan starts only from
`open_movie`, which the main thread executes itself, after `reset_index`. Why is
`scan_complete` not set by a thread that was cancelled too late? It may be, but
then `pthread_join` comes before `reset_index`. `IndInv` says these things: the
flag and the thread agree (`ThreadKnown`), contexts, table and file name agree
(`MovieWhole`), what each stage of opening and closing has established
(`Stages`), and how far the table is at each stage of a scan (`TableProgress`).

`SeekFrameProofs`, for any movie, whatever its time stamps, and any limits:

* `AssertionsNeverFail`: the assertions of `seek_frame` hold. The cached time stamp
  and frame number always agree with the table (`CacheAgrees`), and the table's
  time stamps increase strictly (`Stamped`, `RescaleIncreases`), so that equal
  stamps mean equal frames.
* `TypeCorrect`: `[]TypeOK`.

What `seek_frame` promises about frames depends on the movie. Three conditions, defined in
`SeekFrame`, say on what: a movie is `Orderly` if time stamps are unique, the decoder holds
back as many frames as it must, and groups are closed; `Steady` if its frames come at a constant
rate, off by no more than `prefuzz` allows, the first one not early, and none early in a movie that
was not scanned without complaint; `Punctual` if it begins with a keyframe and no keyframe has
a late time stamp in the table. For all movies that satisfy them, of any length, delay and keyframe distance:

* `CacheIsTrueInOrder` (`Orderly`): the decoder returns the frames of a movie in the order of
  their time stamps, from the keyframe that was sought on, and leaves none out. `OrderInv` says
  it for any point of a read: what the decoder holds are the frames that the packets
  behind the demuxer have overtaken, and what comes next are all frames after the last one.
* `FrameShownIsAsked` (`Orderly`, `Steady`): `FrameIsTheOneAsked`. `FrameInv` adds that the table
  never leads behind the frame that is looked for (`TableLeads`), so that it is always
  still to come (`LooksFor`); a movie that is `Steady` has no other frame within the distance at
  which the read loop accepts one.
* `FramesAreFound` (all three): `EveryFrameIsShown`, where the decoder is drained. `ReachInv` bounds the iterations that are left to do
  (`CostOf`: one for each packet until the frame comes out, two for each frame that is taken
  from the decoder behind the end of the file) by `bailout`, from wherever an earlier call left off.

The conditions cannot be dropped: TLC shows another frame for a movie that overflows its table and has
an early frame (time stamps 0, 12, 23, 36, keyframes 1 and 3, three frames announced), and for one whose
first frame is early (23, 36, 48 with a start offset of 2).

`TimeOffsetProofs`, for any frame rates from 1 to 1000, positions, texts and times:

* `TypeCorrect`: `[]TypeOK`, which includes that every field of a text the player
  writes is in its range.
* `ShownTimecodeAdvances`: the display of the next frame is the next time code. The
  lemmas `NextNumber` and `NoDroppedNumber` say what `insert_drop_frames` does: the
  next number, or the first that is not dropped. `NextWithoutDropping` and
  `NextWithDropping` carry this over to the fields.
* `OffsetShown`, `MtcShown`: what was entered or received is displayed. Both rest on
  invariants (`AskedInForce`, `ReceivedInForce`) that the number still is what the
  text or time means; the step that needs care is a parse that sets
  `have_dropframes` (`SameMeaning`). The conversions are inverse by
  `ClockOfSeconds` and, for drop frames below nine hours, `ClockOfDropCount`. The limit
  is the code's: from 09:20:00;00 on the truncated product in `smpte_to_frame`
  (`smpte.c:234`) is one frame too many.

`DesktopProofs`, for any files, sources of drags, types, video outputs and override masks, and any
number of inputs:

* `Invariant`: the inductive invariant `Inv`, of which `OsdInv`, `DragInv` and `DialogInv` are the parts;
  `TypeCorrect` follows.
* `BoxIsSeen`: `TheBoxIsDrawn` is not inductive: two boxes may be on as long as the equaliser hides
  them. `Single` is: at most one box is on, in `OSD_mode` and in what the index thread has
  loaded of it. So a store from an old value may undo a key, and never shows two boxes.
* `OverrideIsKept`: every callback asks again (`AllowedSteps`), except quitting, the transport and an
  open file dialog, for which `MenuKept` and `BrowserKept` say what was allowed at the opening.
* `DialogsOwned`: from `AtItsWindow`. As windows are numbered, what ImLib2 left behind never belongs to
  a later window.
* `DropsOnly`: `PassingDragsLoadNothing`, from `DragInv`: who is asked for data, and whose data is
  there, has dropped, or has begun to drag while the request for an earlier drop was on its way
  (`late`). That the exception is real is what `DropIsOvertaken` shows.

`DesktopProofs` goes on with `FileBrowser` (its names begin with `Fib`), for any tree of directories,
any sizes of the window, any lengths of the lists and any number of inputs:

* `FibTypeCorrect`, `DrawingStaysInList`, `MarkedIsReturned`: `[]FibTypeOK`, `DrawnRowsExist` and
  `OpensWhatIsMarked`, as long as directories are `Calm` and one line fits into every window (`RowsFit`).
  The inductive invariant is `FibInv`: every line is what its place says it is (`LineRight`: a file of the
  directory shown, or an index of the list of recent files where the same path is), exactly the selected
  line is marked (`Marked`), and the scroll bar is there when and only when the list is longer than the
  window (`Level`). A drag is free: it may be held when the list that it began on is gone. So the rows
  drawn are in the list if and only if the position is not negative (`RowsAndPosition`), and only motion
  that is held without a scroll bar makes it so. The handlers pass through states in which no line is
  marked yet and the scroll position is anything: `Whole` is what holds there too, and each helper has a
  lemma from the one to the other (`SelectedIsSound`, `PostOpenIsSound`, `ResortedKeepsLines`). Without
  `Calm`, or in a lower window, an assertion ends the program.
* `RecentStaysInOrder`: `[]RecentInOrder`, without `Calm`. `ReloadedIsList` follows the saved list line by
  line, `AddedIsList` and `SortedByUse` one addition and the sort after it.
* `CalmHolds`: the assertions of `libsofd.c`, on the number of names and on the scroll position, hold under
  the same two assumptions. Both are needed: `ListingSurvives` drops the one, `TinyWindow` the other.

Both rest on what sorting does (`InOrderIsRight`, `Permuted`, `SortedLines`): the number of the
elements before an element is its place (`RanksRise`), by the cardinalities of finite sets, if
"before" is an order (`BeforeIsOrder` for the six comparisons). That proof found a defect of the model:
the alternatives of `Before` and `Selected`, which the code tries in turn, were those of a `CASE` whose
guards overlap.

`SessionProofs`, for any files, switches, ports, texts and displays, any number of starts and of changes
between them:

* `SessionReturns`: `SessionComesBack`. The inductive invariant `SessionInv` says that the file is
  empty or what `saveconfig` makes of the session in `saved`, that every option is within its type,
  now and in `saved` (`SavedOK`), and that what start-up settles stays settled: font and movie are
  there or empty, and the video mode is autodetection only where the first display opens
  (`Settled`). The rest is one step, `RestoredRead`: reading the file over whatever xjadeorc and the
  switches left. `ReadBack` goes through the lines, and its claim is that after any number of them
  each option is the old one or what its own lines make of it (`After`). `LineNamed`, `LineSource`,
  `LinePlace` and `LineOther` say it of one line, and they need that no line reaches another's
  option (`ChainAt`, from `ChainAssumption`) and that what is printed for a value is read as that
  value (`TextBack`, `ValueBack`, `FlagBack`).
* `SourceReturns`: `SourceComesBack`. `SyncBack` is about the two lines that are not independent: `MIDIID` comes
  before `SYNCSOURCE`, which forgets the port again for every source but MTC. `DriverBack` and `TriedIsSource`
  follow source and port through the order of tests in `xjadeo`.
* `TypeCorrect`: `[]TypeOK`.

The reading of lines and of switches is a recursive function; that it exists and takes one line
after the other (`ReadingSteps`, `DecodingSteps`) is shown with `LeastElement`, as below. The proofs
changed the model in four places where it said less than the code: a driver's name that is unknown
leaves JACK-MIDI (`Driver`, `midi.c:993`), a text that is no number counts as 0 and connects MTC
(`AtoiIsZero`, `WantsMtc`), `SYNCSOURCE` with an unknown number keeps the port (`syncsource`), and
"osd text" may set an empty text, whose line then has no value. They also showed two exceptions that
`SessionComesBack` and `SourceComesBack` have to make: a queue or a driver that is named "(null)",
and a port that is the number -2 itself.

`RemoteProofs` is about `XjRemote` and about `LineBuffer`. About `XjRemote`, for any clients and
servers, any size of the queues and any number of launches, restarts, commands and crashes:

* `TypeCorrect`: `[]TypeOK`, which includes that no queue is ever fuller than it can be.
* `OneServer`: `SessionHasOneServer`. The inductive invariant `Inv` says where commands are:
  those of a session wait in the one queue that its client has open (`Awaits`), in the order in
  which they were typed (`Before`) and behind what was executed; and a server executes from
  the queue it created itself (`OwnQueues`), because `O_EXCL` keeps it from opening another's.
  Unlinking a name therefore cannot divert a session, and every step other than sending and
  executing leaves request queues alone or empties them (`Quiet`).
* `AnswersArePaired`: `Paired`. The invariant `PairInv` follows the pong from its ping on: an instance that
  still owes one (`PongDue`: a ping in its request queue or a pong in its reply queue) is the one
  that the client talks to, or its reply queue has lost its name and the client
  does not have it open (`Unreachable`); so a pong that the client reads is from its own
  instance. This holds for a client that is alone. For two, TLC found the exception: the
  request queue of an instance that has left still serves client A, whose reader
  opens the reply queue of the next instance, which client B pings; A takes B's pong for its own.

`MtcProofs`, for any rate up to 30 frames per second, any positions and any number of losses, turns
and reconnections:

* `TypeCorrect`: `[]TypeOK`; every digit lands in its field, whichever message it came from.
* `LocateShown`: `LocateIsShown`. From `FrameOfTime`, which says that `Frame` inverts `Time`
  (`Nested` and `Division` for the nested divisions), and the invariant that after a full-frame message
  `last_tc`, and the copy a poll has made of it since, are its time with tick 0.
* `PositionFollowed`: `PositionIsFollowed`. Of the messages that come in a row the parser discards the
  first, and the first time of which it sees every digit ends with the 9th to the 16th of them. `FollowInv`
  says for each number of messages in a row which digits of `tc` are those of the current time
  and what `last_tc` is worth, for both directions (`ParserAhead`, `ParserBehind`), and the same of the
  copy of a poll (`CopyInv`) and of the position returned (`ShownInv`), of which the sender may be one
  message ahead (`apart`). Backwards, the property is not inductive: it has a condition on the
  high digit of the hour at two times, which the next message does not keep; `ShownInv` has
  it for one (`SameHigh`).

`SyncSourceProofs`, for any JACK clients and any drivers, compiled in or asked for:

* `TypeCorrect`: `[]TypeOK`, with every handle that of a client of its own source.
* `OneDriver`: only the chosen MIDI driver has a connection. It rests on
  `DriverInv`: a driver that is not compiled in never has one, so that the test of
  `midi_choose_driver` is enough.
* `SharedClient`: the shared handle is never that of a closed client.
* `SwitchExclusive`, `CleanUpEnough`: from `IInv`. Its core is `Exclusive`: as long as a
  handler runs, no call to come opens another source than `chosen`, and every other
  source that is connected has a call to come that closes it. When the list is
  done only the chosen one is left (`Rests`). Callbacks only take connections
  away (`FewerKeeps`), and each call keeps `SourceInv` and may open one source at
  most (`OnlyMayOpen`).
* `SessionReply`, `DecoderThere`: `SessionReplyReachesCaller` and `ProcessHasDecoder`, from a second
  invariant, `OrderInv`. As long as commands are orderly, one JACK client is open at most, and its handle, the
  shared handle and the decoder are its own (`Sole`). This needs more than `Exclusive`: at
  each point of each list the calls to come close every other source before they
  open one (`Ready`), and what closes without a test comes first (`Planned`), so that it
  never clears the handle of another.

`RemoteProofs` about `LineBuffer`, for a buffer of any size and an input of any length, where a read
that ends within a line brings the end of at most one other (`LinesPerRead` at most 1; with 2,
`piped_commands` shows that it is false):

* `LinesAreExecutedOnce`: `EachLineOnce`. The invariant `LineInv` says that the lines executed are what
  was typed as far as it was taken (`LinesInv`), that the rest is at the front of the buffer (`RestInv`),
  and why bytes that `memmove` left behind do no harm (`StringInv`): the string ends somewhere
  behind the rest, and between the two no old byte ends a line, or an end of a line comes last. What
  was typed is cut into lines by a recursive function, `CutUpTo`; that it exists and
  goes on as it should is shown with the least element of a set of numbers (`LeastElement`, from
  the library's `NatLessThanWellFounded`), which takes the place of an induction.
* `LineTypeCorrect`: `[]LineTypeOK`, without a bound on the lines in a read: however the lines come out, the
  buffer keeps the end of a string, so that the search for a line stays within it, until the offset
  is negative. The proof showed that this is so from the first read on only: memory that was not
  written yet need not hold such an end, and nothing is looked for in it.

**Only model-checked**: the liveness properties (`QuitEnds`, `RequestReturns`, `CallReturns`,
`SwitchIsFollowed`, `StopIsNoticed`, `QuitIsFollowed`), as liveness under fairness is out of the prover's
reach. Every other property of a passing run is proved. `SwitchIsExclusive`, `CleanUpIsEnough`,
`MtcIsShown` and the type invariants of `MovieIndex`, `Desktop`, `FileBrowser`, `SyncSource` and
`TimeOffset` are in no run, as TLAPS proves them for all instances.

## 5. Disagreements with the code's own words

Two runs show them:

* `redraw_is_told` (`xjadeo.c:339`): a redraw request between the event loop's read and
  reset of `force_redraw` is lost; after a scan the window may keep the image of
  the scan until something else asks for a redraw.
* `piped_commands` (`remote.c:1093`): when a read brings several lines and the beginning of another, the
  old bytes behind what was moved to the front are taken for input: lines are executed in
  pieces, or again. `contrib/cli-remote/README` pipes commands in this way.

These can be reproduced with the configuration of the name given:

* `DispFrameInMovie` (`MCMovieIndex`, `xjadeo.c:1674`): `dispFrame` keeps a frame number of the movie
  before, and remote clients are told it.
* `StartOffset` (`MCSeekFrame`, `xjadeo.c:863`): direct seek mode treats the start offset the
  other way round: option `-I` counts it twice, and without it it is ignored.
* `DropOnlyWherePermitted` (`MCTimeOffset`, `xjadeo.c:1367`): a file with 29.97 frames per second turns
  drop-frame time code on for every later file.
* `OffsetIsRecalculated` (`MCTimeOffset`, `display.c:587`): the text of a negative offset has no sign,
  and the text of an offset in drop-frame time code has a semicolon that the parser
  does not know; the next file gets an offset that nobody entered.
* `SavedMtcHasPort` (`MCSyncSource`, `configfile.c:427`): a session saved while MTC is followed, by a
  connection made without the port option, writes `SYNCSOURCE=MTC` without a port;
  the reader's assertion (`configfile.c:174`) and the start after it expect one.
* `SavedMovie` (`MCSession`, `configfile.c:308`): `strtok` cuts the saved name of a movie at its first
  blank, so that the movie is not restored; `xjadeo.1:249` says that the state is saved.
* `RollingIsNotStuck` (`MCMtc`, `midi.c:592`): the counter of polls without a new time survives
  a stop and a new start; from then on a poll clears `full_tc` as soon as all digits
  have been seen, and the transport is followed only if the last of them happens to
  be the digit that completes a time.
* `ListingSurvives` (`MCFileBrowser`, `libsofd.c:1225`): a file that appears between the two passes over a
  directory fails the assertion on their number.
* `DropIsOvertaken` (`MCDesktop`, `display_x_dnd.c:255`): `handle_dnd_event` compares the source
  of a drop with the owner of the selection and then requests the data with `CurrentTime`, not with the
  time of the drop. A drag that begins in between owns the selection, and its file is loaded although it was not dropped.
* `DragOutlivesList` (`MCFileBrowser`, `libsofd.c:1564`): with a drag of the scroll bar held, the
  list is replaced by one that fits into the window; the next motion sets `_scrl_f` to `_dircount - llen`, which is negative, and
  `fib_expose` reads in front of `_dirlist`, as it repairs positive positions only (`libsofd.c:623`).
* `TinyWindow` (`MCFileBrowser`, `libsofd.c:1595`): a click beside the slider scrolls by two lines at
  least; with one file and no line in the window the new position is -1 and the assertion after it ends the player. The
  window's minimal height is a hint to the window manager.

Conditions of the properties that pass say where the code leaves a gap too:
`TimecodeAdvances` is about positions from 0 on, since `insert_drop_frames` shows
dropped numbers for negative ones; `MtcIsShown` asks that display and MTC count
alike, since option `-n` stops drop-frame display but not the MTC count, and the
conversion mode 2 resamples 29.97 as 30 (`smpte.c:239`). The display wraps at
24 hours, so `ForwardOffsetIsKept` is about offsets within a day. `SwitchIsExclusive`
leaves out "mixed": OSC connects a source beside those that are open.
`SessionReplyReachesCaller` and `ProcessHasDecoder` leave out what is not orderly: a
second client takes the shared handle from the first, closing a source that is not
open clears it all the same, and `close_ltcjack` frees the decoder.

What `Mtc` shows beside its properties: backwards, the quarter frames since the last
time are added with the wrong order (`-tick` is 0, -7, -6, ..., -1), so that the movie
runs forwards by a quarter frame with each message and back by more than two frames at
each new time (`ReverseIsClose` allows for it); after a turn the next time lacks the
digits that were already discarded, and after a reconnection those that came before;
the ALSA sequencer's poll may add the tick of the next time to this one
(`LagForward`); raw MIDI is 7 to 14 quarter frames late.

A keyframe that fails to decode keeps the mark -1 (`xjadeo.c:709`), which
`keyframe_lookup_helper` takes for a time stamp (it skips `AV_NOPTS_VALUE` only), so
that intact frames before it are assigned its packet and are lost. `SeekFrame` has
this; the properties that pass are about movies without such a keyframe, or the
frames that are shown.

What `Session` shows beside its properties: an option of the kind `YES_OK` that a configuration file
switched on cannot be switched off by the saved "no"; a restored JACK-MIDI session that is saved
again writes an empty `MIDIID`, and opens JACK's transport the next time; a rate above one frame
per second is saved as -1; an offset that the remote control set as a number is not
saved; a start without a window leaves `VIDEOMODE=6`, with which no other display is tried;
`doc/xjadeorc:58` says that remote control implies quiet, and it does not.

`XjRemote` has three conditions: a "pong." that an instance before left in the queue is taken for an
answer (`xjremote.c:555` has a note to flush it); two clients share one reply queue; and a
"quit." that comes before the answer to the ping is discarded with everything else. The drain of a
new queue may swallow the ping of a client that was quick, and the client that creates the reply
queue between a server's two `mq_open` makes that server run without remote control.

`Desktop` shows that an update of `OSD_mode` may be undone, or leave the progress of a finished
scan on screen; that FRAME and VTC may both be on by commands; and that a source which lets go
after the first `XdndFinished`, sent before the data is there, loses its drop.

`EveryFrameIsShown` carries a condition, `WithinReach`: the read loop gives up
after `2 * seek_threshold` iterations, and the longest keyframe distance that
pass 1 measures leaves out the last group of the file and the decoder's delay. Behind
the end of the file each frame that is taken from the decoder costs two iterations, as each
is preceded by a read that fails; so a delay of two frames counts three, and a file of one
group may end in frames that cannot be shown. The test of the stream number at
`xjadeo.c:595` comes before the one for the end of the file, so that the decoder is drained only if the
packet of the failed read bears the video's number.

## 6. Not modelled

* The race of JACK's callbacks with the inside of a call on the main thread (`ltcjack_shutdown` in
  `close_ltcjack`, the session callback in a handler), and the signal handler, which runs
  `clean_up` in the middle of anything: what they do is undefined behaviour inside the allocator
  and in libraries, for which there is no choice of outcomes to enumerate.
* What libraries do with arguments they do not expect: a libjack that fails on the NULL client of
  `midi.c:546` instead of finding no ports, and a first read of the remote control that brings
  nothing, after which xjadeo looks for lines in memory that was never written.
* The read and write positions of the JACK-MIDI ring; `Mtc` keeps what follows from them, the loss of
  a lap.
* Letterbox, size, place and look of the window, drawing, fonts, and the SDL output: geometry
  and calls of libraries.
* Replies and notifications of the remote control: formatting.
* `gtime.c`, whose only logic, the extension of a 32-bit counter, is in the Windows build.
* The native user interfaces for OSX and Windows, which call the functions that the remote
  control calls, and the weak linking of libjack, a table of pointers.
