----------------------------- MODULE MovieIndex -----------------------------
(***************************************************************************)
(* The core of xjadeo (src/src/xjadeo/xjadeo.c): the main thread, which    *)
(* polls the transport, draws frames and executes the open, close, window  *)
(* and quit requests, and the index thread, which every successful         *)
(* open_movie starts to scan the file and to build the seek table.         *)
(*                                                                         *)
(* The two threads share plain global variables: no lock, no atomics.      *)
(* Every read and every write that the other thread can see is a step of   *)
(* its own; accesses of one thread that the other cannot overlap with      *)
(* (the index thread is joined, or has not been created) are one step.     *)
(*                                                                         *)
(* Pictures, packets and the contents of the index are abstracted to the   *)
(* file they belong to and to counters; the lookup in the seek table and   *)
(* the decoder's position are the subject of module SeekFrame.             *)
(***************************************************************************)
EXTENDS Integers

CONSTANTS
  Files,        \* the files that a user may ask for
  NoFile,       \* NULL: no file name, no context, no index table
  Packets,      \* Packets[f]: the video packets that scanning f returns
  FrameCount,   \* FrameCount[f]: the frames that the header of f announces
  AllKey,       \* AllKey[f]: each packet of f is a keyframe and f starts at
                \* its first packet (the condition of direct seek mode)
  ProbeCount,   \* 500 in the code: the packets after which direct seek mode
                \* is decided
  Positions,    \* the frame numbers that the sync source may deliver
  MaxCmds       \* bound: user and window commands in one behaviour

ASSUME MovieIndexAssumption ==
  /\ NoFile \notin Files
  /\ Packets \in [Files -> Nat]
  /\ FrameCount \in [Files -> Nat]
  /\ AllKey \in [Files -> BOOLEAN]
  /\ ProbeCount \in Nat
  /\ Positions \subseteq Int /\ 0 \in Positions
  /\ MaxCmds \in Nat

VARIABLES
  mpc,             \* where the main thread is
  ret,             \* who called close_movie ("open", "close", "leave") or
                   \* cancel_index_thread ("restart")
  req,             \* the file that open_movie was called with
  loop_flag,       \* cleared to leave the event loop
  loop_run,        \* the video is online (window open and mapped)
  window,          \* a video output is open (VOutput # VO_AUTO)
  splashed,        \* the splash screen is over
  force_redraw,    \* shared: asks the event loop to draw
  fd,              \* the event loop's copy of force_redraw
  offFrame,        \* the frame asked of display_frame
  dispFrame,       \* the last frame that display_frame accepted
  displaying_valid_frame,
  buffer,          \* the image buffer is allocated
  screen,          \* what the window shows
  current_file,    \* the open file, or NoFile
  pFrameFMT,       \* the display frame is allocated
  ctx,             \* file of pFormatCtx, pCodecCtx and pFrame, or NoFile
  fidx,            \* the file that the index table was allocated for
  frames,          \* length of the movie, in frames
  fcnt,            \* shared: entries of the index table
  seekable,        \* shared: entries that have their seek position
  scan_complete,   \* shared: the index can be used
  abort_indexing,  \* shared: asks the index thread to stop
  thread_active,   \* the index thread has not been joined
  want_noindex,    \* option: do not scan
  tpc,             \* where the index thread is
  ti,              \* packet or entry that the index thread is at
  terr,            \* the index thread's error flag
  cmds             \* commands executed so far (bounded by MaxCmds)

loopVars  == <<loop_flag, loop_run, window, splashed>>
drawVars  == <<fd, offFrame, dispFrame, displaying_valid_frame, screen>>
movieVars == <<current_file, pFrameFMT, ctx, fidx, frames, buffer>>
indexVars == <<fcnt, seekable, scan_complete>>
threadVars == <<tpc, ti, terr>>
callVars  == <<ret, req, cmds>>
scanVars  == <<indexVars, abort_indexing, thread_active, want_noindex,
               threadVars>>

vars == <<mpc, callVars, loopVars, force_redraw, drawVars, movieVars, scanVars>>

-----------------------------------------------------------------------------
(* What the window shows: nothing at all, the empty image of a player with *)
(* no file (or outside the file), the image with the progress of the scan, *)
(* or frame pos of a file.                                                 *)
Still(kind) == [kind |-> kind, file |-> NoFile, pos |-> 0]
FrameOf(f, n) == [kind |-> "frame", file |-> f, pos |-> n]

Pictures == {Still(k) : k \in {"none", "empty", "indexing"}} \cup
            {FrameOf(f, n) : f \in Files, n \in Positions}

MainPC == {"top", "take", "clear", "display", "seek", "splash", "events",
           "closing", "abort", "join", "free", "reset", "opening", "start",
           "initbuf", "cleanup", "exit"}

\* The index thread from index_run to its last access to the decoder and to
\* the index, scan_complete included.
Scanning == {"setup", "pass1", "mode", "pass2", "pass3", "rewind", "publish"}

ThreadPC == Scanning \cup {"none", "report", "exited"}

-----------------------------------------------------------------------------
(* The main thread: one iteration of event_loop.                           *)

\* Video offline: no polling and no drawing, only events.
LoopOffline ==
  /\ mpc = "top" /\ loop_flag /\ ~loop_run
  /\ mpc' = "events"
  /\ UNCHANGED <<callVars, loopVars, force_redraw, drawVars, movieVars,
                 scanVars>>

\* Poll the sync source; a change of source asks for a redraw.
PollTransport ==
  /\ mpc = "top" /\ loop_flag /\ loop_run
  /\ mpc' = "take"
  /\ offFrame' \in Positions
  /\ force_redraw' \in {force_redraw, TRUE}
  /\ UNCHANGED <<callVars, loopVars, fd, dispFrame, displaying_valid_frame,
                 screen, movieVars, scanVars>>

\* const int fd = force_redraw;
TakeRedraw ==
  /\ mpc = "take"
  /\ mpc' = "clear"
  /\ fd' = force_redraw
  /\ UNCHANGED <<callVars, loopVars, force_redraw, offFrame, dispFrame,
                 displaying_valid_frame, screen, movieVars, scanVars>>

\* force_redraw = 0;
ClearRedraw ==
  /\ mpc = "clear"
  /\ mpc' = "display"
  /\ force_redraw' = FALSE
  /\ UNCHANGED <<callVars, loopVars, drawVars, movieVars, scanVars>>

\* display_frame has no frame to decode: it puts picture pic up if told to,
\* and osd says that the on-screen time code changed and asks for it too.
DisplayStill(pic, told) ==
  /\ mpc' = "splash"
  /\ displaying_valid_frame' = FALSE
  /\ \E osd \in BOOLEAN :
       screen' = IF buffer /\ (told \/ osd) THEN pic ELSE screen
  /\ UNCHANGED <<callVars, loopVars, force_redraw, fd, offFrame, dispFrame,
                 movieVars, scanVars>>

\* Mutant: scan_complete is not looked at.
NoIndexYetUnchecked == current_file = NoFile

NoIndexYet == ~scan_complete \/ current_file = NoFile

InMovie(n) == 0 <= n /\ n < frames

\* No index, or no file: the empty image, with the scan's progress if any.
\* Without an image buffer nothing is drawn.
DisplayNoIndexIf(told) ==
  /\ mpc = "display" /\ (~buffer \/ NoIndexYet)
  /\ DisplayStill(Still(IF current_file = NoFile THEN "empty" ELSE "indexing"),
                  told)

\* Mutant: force_update is ignored.
DisplayNoIndexUntold == DisplayNoIndexIf(FALSE)

DisplayNoIndex == DisplayNoIndexIf(fd)

\* The transport is before or behind the movie.
DisplayOutOfRange ==
  /\ mpc = "display" /\ buffer /\ ~NoIndexYet /\ ~InMovie(offFrame)
  /\ DisplayStill(Still("empty"), fd \/ displaying_valid_frame)

\* The frame is the one on display and nobody asked for a redraw.
DisplaySame ==
  /\ mpc = "display" /\ buffer /\ ~NoIndexYet /\ InMovie(offFrame)
  /\ ~fd /\ dispFrame = offFrame
  /\ mpc' = "splash"
  /\ UNCHANGED <<callVars, loopVars, force_redraw, drawVars, movieVars,
                 scanVars>>

\* Enter seek_frame for a frame inside the movie.
DisplayDecode ==
  /\ mpc = "display" /\ buffer /\ ~NoIndexYet /\ InMovie(offFrame)
  /\ fd \/ dispFrame # offFrame
  /\ mpc' = "seek"
  /\ dispFrame' = offFrame
  /\ UNCHANGED <<callVars, loopVars, force_redraw, fd, offFrame,
                 displaying_valid_frame, screen, movieVars, scanVars>>

\* seek_frame returns; the frame is drawn, or the image is cleared when it
\* could not be decoded.
SeekReturns ==
  /\ mpc = "seek"
  /\ mpc' = "splash"
  /\ \/ /\ pFrameFMT
        /\ screen' = FrameOf(ctx, dispFrame)
        /\ displaying_valid_frame' = TRUE
     \/ /\ screen' = IF fd \/ displaying_valid_frame THEN Still("empty")
                                                     ELSE screen
        /\ displaying_valid_frame' = FALSE
  /\ UNCHANGED <<callVars, loopVars, force_redraw, fd, offFrame, dispFrame,
                 movieVars, scanVars>>

\* The splash screen ends, once, 2.5 seconds after the start.
SplashCheck ==
  /\ mpc = "splash"
  /\ mpc' = "events"
  /\ \/ UNCHANGED <<splashed, force_redraw>>
     \/ ~splashed /\ splashed' = TRUE /\ force_redraw' = TRUE
  /\ UNCHANGED <<callVars, loop_flag, loop_run, window, drawVars, movieVars,
                 scanVars>>

-----------------------------------------------------------------------------
(* The main thread: events of the window and remote commands.              *)

EventsDone ==
  /\ mpc = "events"
  /\ mpc' = "top"
  /\ UNCHANGED <<callVars, loopVars, force_redraw, drawVars, movieVars,
                 scanVars>>

Command ==
  /\ mpc = "events" /\ cmds < MaxCmds
  /\ cmds' = cmds + 1

\* Start executing open_movie(f): it closes the movie that is open.
CallOpenClosing(f, isOpen) ==
  /\ req' = f
  /\ ret' = "open"
  /\ mpc' = IF isOpen THEN "closing" ELSE "reset"

CallOpen(f) == CallOpenClosing(f, pFrameFMT)

\* xapi_open, the OSC load message; the empty name is refused by open_movie.
CmdOpen(f) ==
  /\ Command
  /\ CallOpen(f)
  /\ UNCHANGED <<loopVars, force_redraw, drawVars, movieVars, scanVars>>

\* xapi_close.
CmdClose ==
  /\ Command
  /\ ret' = "close"
  /\ mpc' = "closing"
  /\ UNCHANGED <<req, loopVars, force_redraw, drawVars, movieVars, scanVars>>

\* Any setting that is visible in the window: ui_osd_*, xapi_osd_*, offset...
CmdRedraw ==
  /\ Command
  /\ mpc' = "events"
  /\ force_redraw' = TRUE
  /\ UNCHANGED <<ret, req, loopVars, drawVars, movieVars, scanVars>>

CmdQuit ==
  /\ Command
  /\ mpc' = "events"
  /\ loop_flag' = FALSE
  /\ UNCHANGED <<ret, req, loop_run, window, splashed, force_redraw, drawVars,
                 movieVars, scanVars>>

\* MapNotify, UnmapNotify.
CmdMapWindow ==
  /\ Command /\ window
  /\ mpc' = "events"
  /\ loop_run' = ~loop_run
  /\ UNCHANGED <<ret, req, loop_flag, window, splashed, force_redraw,
                 drawVars, movieVars, scanVars>>

\* xapi_close_window.
CmdCloseWindow ==
  /\ Command /\ window
  /\ mpc' = "events"
  /\ window' = FALSE /\ loop_run' = FALSE
  /\ screen' = Still("none")
  /\ UNCHANGED <<ret, req, loop_flag, splashed, force_redraw, fd, offFrame,
                 dispFrame, displaying_valid_frame, movieVars, scanVars>>

\* xapi_set_videomode: open the window, then load the current file again
\* for the pixel format of the new output.
CmdOpenWindow ==
  /\ Command /\ ~window
  /\ window' \in BOOLEAN /\ loop_run' = window'
  /\ IF pFrameFMT /\ current_file # NoFile
       THEN CallOpen(current_file) /\ UNCHANGED buffer
       ELSE mpc' = "initbuf" /\ buffer' = FALSE /\ UNCHANGED <<ret, req>>
  /\ UNCHANGED <<loop_flag, splashed, force_redraw, drawVars, current_file,
                 pFrameFMT, ctx, fidx, frames, scanVars>>

-----------------------------------------------------------------------------
(* close_movie, with cancel_index_thread inside.                           *)

\* close_movie gives up the name of the file, then goes on at pc.
ForgetThen(pc, name) ==
  /\ mpc = "closing"
  /\ mpc' = pc
  /\ current_file' = name
  /\ UNCHANGED <<callVars, loopVars, force_redraw, drawVars, pFrameFMT, ctx,
                 fidx, frames, buffer, scanVars>>

AfterForget == IF thread_active THEN "abort" ELSE "free"

\* Mutants: the thread is not cancelled; it is waited for but not joined;
\* current_file keeps its name.
ForgetFileUncancelled == ForgetThen("free", NoFile)
ForgetFileWaiting == ForgetThen(IF thread_active THEN mpc ELSE "free", NoFile)
ForgetFileKept == ForgetThen(AfterForget, current_file)

ForgetFile == ForgetThen(AfterForget, NoFile)

RaiseAbort ==
  /\ mpc = "abort"
  /\ mpc' = "join"
  /\ abort_indexing' = TRUE
  /\ UNCHANGED <<callVars, loopVars, force_redraw, drawVars, movieVars,
                 indexVars, thread_active, want_noindex, threadVars>>

\* pthread_join returns.
JoinIndexer ==
  /\ mpc = "join" /\ tpc = "exited"
  /\ mpc' = CASE ret = "leave"   -> "cleanup"
              [] ret = "restart" -> "start"
              [] OTHER           -> "free"
  /\ tpc' = "none"
  /\ abort_indexing' = FALSE
  /\ thread_active' = FALSE
  /\ force_redraw' = TRUE
  /\ UNCHANGED <<callVars, loopVars, drawVars, movieVars, indexVars,
                 want_noindex, ti, terr>>

\* close_movie returns to open_movie, to xapi_close or to clean_up; it
\* returns -1 when there was no movie, and xapi_close does nothing then.
FreeMovie ==
  /\ mpc = "free"
  /\ mpc' = CASE ret = "open"  -> "reset"
              [] ret = "close" -> IF pFrameFMT THEN "initbuf" ELSE "events"
              [] OTHER         -> "exit"
  /\ fidx' = NoFile
  /\ IF pFrameFMT
       THEN /\ buffer' = FALSE /\ pFrameFMT' = FALSE
            /\ ctx' = NoFile /\ frames' = 1
            /\ force_redraw' = TRUE
       ELSE UNCHANGED <<buffer, pFrameFMT, ctx, frames, force_redraw>>
  /\ UNCHANGED <<callVars, loopVars, drawVars, current_file, scanVars>>

-----------------------------------------------------------------------------
(* open_movie, after the old movie is closed, and init_moviebuffer.        *)

\* reset_index and the defaults for an open that fails.
ResetIndexTo(count, complete) ==
  /\ mpc = "reset"
  /\ mpc' = "opening"
  /\ fcnt' = count /\ seekable' = 0 /\ scan_complete' = complete
  /\ abort_indexing' = FALSE
  /\ pFrameFMT' = FALSE /\ ctx' = NoFile /\ frames' = 1
  /\ force_redraw' = TRUE
  /\ UNCHANGED <<callVars, loopVars, drawVars, current_file, fidx, buffer,
                 thread_active, want_noindex, threadVars>>

\* Mutant: scan_complete keeps its value.
ResetIndexKept == ResetIndexTo(0, scan_complete)

ResetIndex == ResetIndexTo(0, FALSE)

\* No name, no such file, no stream information, no video stream.
OpenRefused ==
  /\ mpc = "opening"
  /\ mpc' = "initbuf"
  /\ UNCHANGED <<callVars, loopVars, force_redraw, drawVars, movieVars,
                 scanVars>>

\* No decoder, or no frame: the index table has been allocated by then, and
\* stays; so does the length of the file that could not be opened.
OpenWithoutDecoder ==
  /\ mpc = "opening" /\ req # NoFile
  /\ mpc' = "initbuf"
  /\ fidx' = req /\ frames' = FrameCount[req]
  /\ UNCHANGED <<callVars, loopVars, force_redraw, drawVars, current_file,
                 pFrameFMT, ctx, buffer, scanVars>>

OpenSucceeds ==
  /\ mpc = "opening" /\ req # NoFile
  /\ mpc' = "start"
  /\ fidx' = req /\ frames' = FrameCount[req]
  /\ ctx' = req /\ pFrameFMT' = TRUE /\ current_file' = req
  /\ UNCHANGED <<callVars, loopVars, force_redraw, drawVars, buffer,
                 scanVars>>

\* start_index_thread: a thread that is still active is cancelled first;
\* pthread_create may fail, and open_movie ignores that.
StartIndexer ==
  /\ mpc = "start"
  /\ IF thread_active
       THEN /\ mpc' = "abort" /\ ret' = "restart"
            /\ UNCHANGED <<threadVars, thread_active>>
       ELSE /\ mpc' = "initbuf" /\ UNCHANGED ret
            /\ \/ /\ tpc' = "setup" /\ ti' = 0 /\ terr' = FALSE
                  /\ thread_active' = TRUE
               \/ UNCHANGED <<threadVars, thread_active>>
  /\ UNCHANGED <<req, cmds, loopVars, force_redraw, drawVars, movieVars,
                 indexVars, abort_indexing, want_noindex>>

\* init_moviebuffer, and the redraw that all its callers ask for.
InitMovieBuffer ==
  /\ mpc = "initbuf"
  /\ mpc' = "events"
  /\ buffer' = TRUE
  /\ force_redraw' = TRUE
  /\ UNCHANGED <<callVars, loopVars, drawVars, current_file, pFrameFMT, ctx,
                 fidx, frames, scanVars>>

\* The loop ends: cancel_index_thread, then clean_up.
LeaveLoopAt(pc) ==
  /\ mpc = "top" /\ ~loop_flag
  /\ ret' = "leave"
  /\ mpc' = IF thread_active THEN pc ELSE "cleanup"
  /\ UNCHANGED <<req, cmds, loopVars, force_redraw, drawVars, movieVars,
                 scanVars>>

\* Mutant: leave once the thread is gone.
LeaveLoopPolling == LeaveLoopAt("events")

LeaveLoop == LeaveLoopAt("abort")

\* clean_up closes the window, then the movie, and ends the process.
CleanUp ==
  /\ mpc = "cleanup"
  /\ mpc' = "closing"
  /\ window' = FALSE /\ loop_run' = FALSE
  /\ screen' = Still("none")
  /\ UNCHANGED <<callVars, loop_flag, splashed, force_redraw, fd, offFrame,
                 dispFrame, displaying_valid_frame, movieVars, scanVars>>

-----------------------------------------------------------------------------
(* The index thread: index_run and index_frames.                           *)

\* What no step of the index thread changes.
MainOnly == <<mpc, callVars, loopVars, drawVars, movieVars, abort_indexing,
              thread_active, want_noindex>>

\* report_idx_progress asks for a redraw when the percentage changes and the
\* message is on display.
ReportProgress == force_redraw' \in {force_redraw, TRUE}

IndexSetup ==
  /\ tpc = "setup"
  /\ tpc' = IF want_noindex THEN "mode" ELSE "pass1"
  /\ force_redraw' = TRUE
  /\ UNCHANGED <<MainOnly, indexVars, ti, terr>>

\* The error exit of index_frames; index_run puts up its message.
IndexAborts ==
  /\ abort_indexing
  /\ \/ tpc = "pass1" /\ ti < Packets[ctx]
     \/ tpc \in {"pass2", "pass3"} /\ ti < fcnt
  /\ tpc' = "report"
  /\ terr' = TRUE
  /\ UNCHANGED <<MainOnly, force_redraw, indexVars, ti>>

\* The keyframe test of direct seek mode, made twice by the code.
DirectSeekMode ==
  want_noindex \/ (fcnt \in {ProbeCount, frames} /\ AllKey[ctx])

\* Pass 1, one packet: add_idx, and the reasons to stop reading.
ScanPacket ==
  /\ tpc = "pass1" /\ ~abort_indexing /\ ti < Packets[ctx]
  /\ IF fcnt >= frames
       THEN /\ fcnt' = fcnt + 1 /\ tpc' = "mode"      \* index table overflow
            /\ UNCHANGED <<ti, force_redraw>>
       ELSE /\ fcnt' = fcnt + 1 /\ ti' = ti + 1
            /\ tpc' = IF fcnt' \in {ProbeCount, frames} /\ AllKey[ctx]
                        THEN "mode" ELSE "pass1"
            /\ ReportProgress
  /\ UNCHANGED <<MainOnly, seekable, scan_complete, terr>>

\* A packet without time stamp, which is not entered, or one more than
\* keyframe_interval_limit after its keyframe: stop with an error.
ScanFails ==
  /\ tpc = "pass1" /\ ~abort_indexing /\ ti < Packets[ctx]
  /\ tpc' = "mode"
  /\ terr' = TRUE
  /\ \/ UNCHANGED <<fcnt, force_redraw>>
     \/ fcnt < frames /\ fcnt' = fcnt + 1 /\ ReportProgress
  /\ UNCHANGED <<MainOnly, seekable, scan_complete, ti>>

ScanEnds ==
  /\ tpc = "pass1" /\ ti >= Packets[ctx]
  /\ tpc' = "mode"
  /\ UNCHANGED <<MainOnly, force_redraw, indexVars, ti, terr>>

\* Direct seek mode fills the table for all frames and skips pass 2.
ChooseMode ==
  /\ tpc = "mode"
  /\ ti' = 0
  /\ IF DirectSeekMode
       THEN fcnt' = frames /\ tpc' = "pass3"
       ELSE tpc' = "pass2" /\ UNCHANGED fcnt
  /\ UNCHANGED <<MainOnly, force_redraw, seekable, scan_complete, terr>>

\* Pass 2, one entry: seek to it, decode a frame, record its time stamp. A
\* failed read sets the error flag, a failed seek ends the pass as well.
VerifyKeyframe ==
  /\ tpc = "pass2" /\ ~abort_indexing /\ ti < fcnt
  /\ \/ ti' = ti + 1 /\ terr' \in {terr, TRUE} /\ UNCHANGED tpc
     \/ ti' = 0 /\ terr' = TRUE /\ tpc' = "pass3"
  /\ ReportProgress
  /\ UNCHANGED <<MainOnly, indexVars>>

VerifyEnds ==
  /\ tpc = "pass2" /\ ti >= fcnt
  /\ tpc' = "pass3" /\ ti' = 0
  /\ UNCHANGED <<MainOnly, force_redraw, indexVars, terr>>

\* Pass 3, one entry: assign it a keyframe to seek to.
AssignSeekPosition ==
  /\ tpc = "pass3" /\ ~abort_indexing /\ ti < fcnt
  /\ ti' = ti + 1
  /\ seekable' = ti + 1
  /\ ReportProgress
  /\ UNCHANGED <<MainOnly, fcnt, scan_complete, tpc, terr>>

AssignEnds ==
  /\ tpc = "pass3" /\ ti >= fcnt
  /\ tpc' = "rewind"
  /\ terr' \in {terr, TRUE}    \* the keyframe distance is too large
  /\ UNCHANGED <<MainOnly, force_redraw, indexVars, ti>>

\* av_seek_frame to the start of the file.
Rewind ==
  /\ tpc = "rewind"
  /\ tpc' = "publish"
  /\ UNCHANGED <<MainOnly, force_redraw, indexVars, ti, terr>>

PublishIndex ==
  /\ tpc = "publish"
  /\ tpc' = "report"
  /\ scan_complete' = IF terr THEN scan_complete ELSE TRUE
  /\ UNCHANGED <<MainOnly, force_redraw, fcnt, seekable, ti, terr>>

\* The end of index_run: the message is cleared or becomes "Index Error".
IndexReport ==
  /\ tpc = "report"
  /\ tpc' = "exited"
  /\ force_redraw' = TRUE
  /\ UNCHANGED <<MainOnly, indexVars, ti, terr>>

-----------------------------------------------------------------------------
\* main calls open_movie(movie) and init_moviebuffer, then opens the window
\* and enters the event loop, which starts by asking for a redraw.
Init ==
  /\ mpc = "reset" /\ ret = "open" /\ req \in Files \cup {NoFile}
  /\ loop_flag = TRUE /\ window = TRUE /\ loop_run = TRUE
  /\ splashed \in BOOLEAN
  /\ force_redraw = FALSE /\ fd = FALSE
  /\ offFrame = 0 /\ dispFrame = 0
  /\ displaying_valid_frame = FALSE
  /\ buffer = FALSE /\ screen = Still("none")
  /\ current_file = NoFile /\ pFrameFMT = FALSE
  /\ ctx = NoFile /\ fidx = NoFile /\ frames = 1
  /\ fcnt = 0 /\ seekable = 0 /\ scan_complete = FALSE
  /\ abort_indexing = FALSE /\ thread_active = FALSE
  /\ want_noindex \in BOOLEAN
  /\ tpc = "none" /\ ti = 0 /\ terr = FALSE
  /\ cmds = 0

Draw == LoopOffline \/ PollTransport \/ TakeRedraw \/ ClearRedraw
        \/ DisplayNoIndex \/ DisplayOutOfRange \/ DisplaySame
        \/ DisplayDecode \/ SeekReturns \/ SplashCheck

Events == \/ EventsDone \/ CmdClose \/ CmdRedraw \/ CmdQuit
          \/ CmdMapWindow \/ CmdCloseWindow \/ CmdOpenWindow
          \/ \E f \in Files \cup {NoFile} : CmdOpen(f)

Close == ForgetFile \/ RaiseAbort \/ JoinIndexer \/ FreeMovie \/ LeaveLoop
         \/ CleanUp

Open == ResetIndex \/ OpenRefused \/ OpenWithoutDecoder \/ OpenSucceeds
        \/ StartIndexer \/ InitMovieBuffer

MainThread == Draw \/ Events \/ Close \/ Open

IndexThread == IndexSetup \/ IndexAborts \/ ScanPacket \/ ScanFails
               \/ ScanEnds \/ ChooseMode \/ VerifyKeyframe \/ VerifyEnds
               \/ AssignSeekPosition \/ AssignEnds \/ Rewind
               \/ PublishIndex \/ IndexReport

\* clean_up ends the process.
Exited == mpc = "exit" /\ UNCHANGED vars

Next == MainThread \/ IndexThread \/ Exited

\* Both threads keep being scheduled: nothing in the code waits for the user
\* (select has a timeout), and the only blocking call is pthread_join.
Fairness == WF_vars(MainThread) /\ WF_vars(IndexThread)

Spec == Init /\ [][Next]_vars /\ Fairness

-----------------------------------------------------------------------------
FlagsOK ==
  /\ loop_flag \in BOOLEAN /\ loop_run \in BOOLEAN /\ window \in BOOLEAN
  /\ splashed \in BOOLEAN /\ force_redraw \in BOOLEAN /\ fd \in BOOLEAN
  /\ displaying_valid_frame \in BOOLEAN /\ buffer \in BOOLEAN
  /\ pFrameFMT \in BOOLEAN /\ scan_complete \in BOOLEAN
  /\ abort_indexing \in BOOLEAN /\ thread_active \in BOOLEAN
  /\ want_noindex \in BOOLEAN /\ terr \in BOOLEAN

DataOK ==
  /\ mpc \in MainPC /\ tpc \in ThreadPC
  /\ ret \in {"open", "close", "leave", "restart"}
  /\ req \in Files \cup {NoFile} /\ current_file \in Files \cup {NoFile}
  /\ ctx \in Files \cup {NoFile} /\ fidx \in Files \cup {NoFile}
  /\ offFrame \in Positions /\ dispFrame \in Positions
  /\ screen \in Pictures
  /\ frames \in Nat /\ fcnt \in Nat /\ seekable \in Nat /\ ti \in Nat
  /\ cmds \in 0 .. MaxCmds

\* Each shared variable holds a value that the code can give it.
TypeOK == FlagsOK /\ DataOK

\* seek_frame and the index thread use one demuxer, one decoder and one
\* index table, without a lock: the main thread is inside seek_frame only
\* when no scan is going on, from the first line of index_run up to and
\* including its scan_complete = 1.
DecoderExclusive == mpc = "seek" => tpc \notin Scanning

\* Whatever the main thread does meanwhile (open another file, close, quit),
\* a scan has the demuxer, the decoder and the index table of one and the
\* same file, none of them freed.
ScanHasItsMovie ==
  tpc \in Scanning => pFrameFMT /\ ctx \in Files /\ fidx = ctx

\* seek_frame reads the index of the file that is open, after every one of
\* its entries was given a seek position: neither a scan that was aborted or
\* failed, nor the scan of an earlier file, lets it in.
SeekUsesWholeIndex ==
  mpc = "seek" => /\ scan_complete /\ seekable = fcnt
                  /\ current_file \in Files
                  /\ fidx = current_file /\ ctx = current_file

\* The "Forcing Re-start" branch of start_index_thread is dead: open_movie
\* skips close_movie when pFrameFMT is NULL, and no thread is left then.
StartFindsNoThread == mpc = "start" => ~thread_active /\ ~scan_complete

\* A window never keeps a frame of a file that is no longer open: while it
\* shows one, a redraw is asked for or will be asked for by the request under
\* way; and once the event loop has taken the request, it acts on it.
StalePictureIsRedrawn ==
  screen.kind = "frame" /\ screen.file # current_file =>
    IF mpc \in {"clear", "display", "seek"}
      THEN fd
      ELSE \/ force_redraw
           \/ mpc \in {"closing", "abort", "join", "free", "reset", "opening",
                       "start", "initbuf", "cleanup", "exit"}

\* Quitting ends: cancel_index_thread stops a scan, however far it is, and
\* pthread_join returns.
QuitEnds == ~loop_flag ~> mpc = "exit"

\* Opening or closing a movie returns to the event loop (or quits), though
\* it waits for the index thread of the movie before.
RequestReturns == mpc = "closing" ~> mpc \in {"events", "exit"}

\* The promise of module MoviePlayer, kept by the two threads.
Player == INSTANCE MoviePlayer WITH
  file    <- current_file,
  ready   <- scan_complete /\ current_file # NoFile,
  picture <- IF screen.kind = "frame" THEN <<screen.file, screen.pos>>
                                      ELSE <<>>
ImplementsPlayer == Player!Safety

\* remote.c:85 says of force_redraw: "tell the main event loop that some cfg
\* has changed". The index thread sets it when the movie can be shown; so a
\* window that still has the image of the scan has a redraw to come.
RedrawIsTold ==
  /\ tpc = "exited" /\ scan_complete /\ current_file # NoFile
  /\ mpc \in {"splash", "events", "top"} /\ screen.kind = "indexing"
  => force_redraw

\* main.c:153 says of dispFrame, which remote clients are told as the
\* position: "(SMPTE+offset) with boundaries to [0..movie_file_frames]". The
\* event loop notifies them right after display_frame.
DispFrameInMovie ==
  mpc = "splash" /\ ~NoIndexYet => 0 <= dispFrame /\ dispFrame <= frames
=============================================================================
