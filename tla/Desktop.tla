------------------------------ MODULE Desktop ------------------------------
(***************************************************************************)
(* What a user can do to xjadeo on an X11 desktop while a remote control   *)
(* does something else: keys, the position bar, the menu, the file dialog, *)
(* drag and drop, and the bits of interaction_override with which a remote *)
(* control takes these away (display_x11.c, display_glx.c,                 *)
(* display_gl_common.h, display_x_dialog.c, display_x_dnd.c, display.c,    *)
(* common.c, and the commands of remote.c and xjosc.c that interfere).     *)
(*                                                                         *)
(* Left to other modules: the clocks and what opens them (SyncSource), the *)
(* movie and its redraw flag (MovieIndex), the value of the offset         *)
(* (TimeOffset), the inside of the file dialog (FileBrowser).  Replies and *)
(* notifications are left out, as are size, place and look of the window.  *)
(***************************************************************************)
EXTENDS Osd, Sequences, FiniteSets

CONSTANTS
  Files,        \* movies that the remote control and the file dialog name
  Sources,      \* windows from which a file of the same name can be dragged
  Offers,       \* the types in which each of them offers it
  Newer,        \* those of them that speak a later version of the protocol
  Modes,        \* the video outputs that are compiled in
  Masks,        \* the override masks that the remote control sets
  Desks,        \* bound: the kinds of input that come together, and their number
  None

ASSUME SourcesAssumption ==
  /\ Files \cap Sources = {} /\ None \notin Files \cup Sources
  /\ Newer \subseteq Sources /\ Offers \in [Sources -> Seq(STRING)]
ASSUME ModesAssumption == Modes \subseteq {"glx", "xv", "imlib2"}

VARIABLES
  osd,          \* OSD_mode
  index,        \* the index thread: the update of OSD_mode it is at, the value
                \* that it has loaded for it, how the scan ended
  movie,        \* the movie that is open, or None
  window,       \* its number, VOutput, and whether it is open
  loop_run, loop_flag,
  override,     \* interaction_override
  connected,    \* the clocks that are open
  osd_seeking,
  menu,         \* the menu windows: number and video output of their parent,
                \* the heading whose submenu is shown, the item that is marked,
                \* what can be chosen, and the override when it opened
  browser,      \* the file dialog: its parent and the override likewise
  dnd,          \* dnd_source, xj_atom, the type in a request for the data that
                \* the server has not passed on, the property the data comes in
  owner,        \* of the selection XdndSelection
  drag,         \* the source that the pointer drags from, over the window
  events,       \* the messages that the window has not read yet
  asked,        \* the sources that were asked for their data
  dropped,      \* history: the sources whose file was dropped, and those whose
  late,         \* drag began while such a request was on its way
  did,          \* history: what the last step did, on whose behalf
  desk          \* what else may come

osdVars == <<osd, index, movie>>
windowVars == <<window, loop_run>>
dialogVars == <<menu, browser>>
dragHistory == <<dropped, late>>
dndVars == <<dnd, owner, drag, events, asked, dragHistory>>
vars == <<osdVars, windowVars, loop_flag, override, connected, osd_seeking,
          dialogVars, dndVars, did, desk>>

Overrides == {"QUIT_KEY", "QUIT_WMG", "AVOFFSET", "JCONTROL", "MENUSYNC", "LOADFILE"}
ASSUME MasksAssumption == Masks \subseteq SUBSET Overrides

Clocks == {"jack", "ltc", "mtc"}
Headings == {"file", "sync", "osd", "offset", "transport"}
ItemsOf(h) ==
  CASE h = "file" -> {"open", "unload", "quit"}
    [] h = "sync" -> Clocks \cup {"none"}
    [] h = "osd" -> MenuOps
    [] h = "offset" -> {"change offset"}
    [] h = "transport" -> {"toggle"}
Items == UNION {ItemsOf(h) : h \in Headings}

Disallowed(bit) == bit \in override

---------------------------------------------------------------------------
(* Who did what: a history that only the properties read.                  *)

Nothing == [what |-> "nothing", by |-> "nobody", file |-> None, since |-> {}]
Did(what, by) == did' = [what |-> what, by |-> by, file |-> None, since |-> override]
DidSince(what, by, since) == did' = [what |-> what, by |-> by, file |-> None, since |-> since]
DidNothing == did' = Nothing

Input(kind) ==
  /\ loop_flag /\ kind \in desk.kinds /\ desk.left > 0
  /\ desk' = [desk EXCEPT !.left = @ - 1]

\* With the pointer and the keyboard grabbed by a menu whose connection nobody
\* reads any more, no window gets an event.
Stuck == menu.win # 0 /\ ~(window.open /\ menu.win = window.number)

AtWindow(kind) == Input(kind) /\ window.open /\ loop_run /\ ~Stuck

---------------------------------------------------------------------------
(* OSD_mode and the index thread.  Each of the thread's three updates is a *)
(* load and a store, and so is an update by the main thread: either may    *)
(* fall between the load and the store of the other.                       *)

NoIndex == [at |-> "off", loaded |-> {}, stale |-> FALSE, ok |-> TRUE]
Updates == {"begin", "result", "end"}

Update(i, m) ==
  CASE i.at = "begin" -> IndexBegins(m)
    [] i.at = "result" -> IndexResult(i.ok, m)
    [] i.at = "end" -> IndexEnds(m)
AfterUpdate(i) ==
  [i EXCEPT !.at = CASE i.at = "begin" -> "scan" [] i.at = "result" -> "end"
                     [] i.at = "end" -> "ended",
            !.loaded = {}, !.stale = FALSE]

IndexLoad ==
  /\ index.at \in Updates /\ ~index.stale
  /\ index' = [index EXCEPT !.loaded = osd, !.stale = TRUE]
  /\ DidNothing
  /\ UNCHANGED <<osd, movie, windowVars, loop_flag, override, connected, osd_seeking,
                 dialogVars, dndVars, desk>>

IndexStore ==
  /\ index.stale
  /\ osd' = Update(index, index.loaded)
  /\ index' = AfterUpdate(index)
  /\ DidNothing
  /\ UNCHANGED <<movie, windowVars, loop_flag, override, connected, osd_seeking,
                 dialogVars, dndVars, desk>>

IndexScan ==
  /\ index.at = "scan"
  /\ \E ok \in BOOLEAN : index' = [index EXCEPT !.at = "result", !.ok = ok]
  /\ DidNothing
  /\ UNCHANGED <<osd, movie, windowVars, loop_flag, override, connected, osd_seeking,
                 dialogVars, dndVars, desk>>

\* The main thread stores what it makes of the value it loaded; a store of the
\* index thread in between is lost.
SetOsd(m) ==
  /\ osd' = m
  /\ \/ UNCHANGED index
     \/ index.at \in Updates /\ index' = AfterUpdate(index)

\* The thread has been joined: whatever it still had to do is done.
Joined(m) ==
  LET value(at, v) == IF index.at = at /\ index.stale THEN index.loaded ELSE v
      a == IF index.at = "begin" THEN IndexBegins(value("begin", m)) ELSE m
      b(ok) == IF index.at \in {"begin", "scan", "result"}
               THEN IndexResult(ok, value("result", a)) ELSE a
      c(ok) == IF index.at \in {"begin", "scan", "result", "end"}
               THEN IndexEnds(value("end", b(ok))) ELSE b(ok)
  IN  {c(ok) : ok \in IF index.at = "result" THEN {index.ok} ELSE BOOLEAN}

---------------------------------------------------------------------------
(* Movies. *)

close_movie ==
  IF movie = None THEN UNCHANGED osdVars
  ELSE /\ \E m \in Joined(osd) : osd' = m \ {"MSG"}
       /\ index' = NoIndex
       /\ movie' = None

open_movie(f) ==
  /\ \E m \in Joined(osd) : osd' = m \ {"MSG"}
  /\ \/ movie' = f /\ index' = [NoIndex EXCEPT !.at = "begin"]
     \/ movie' = None /\ index' = NoIndex

\* display_frame, without a movie.
DisplayNoFile ==
  /\ loop_flag /\ window.open /\ loop_run /\ movie = None
  /\ "MSG" \notin osd
  /\ osd' = NoFileMessage(osd)
  /\ DidNothing
  /\ UNCHANGED <<index, movie, windowVars, loop_flag, override, connected, osd_seeking,
                 dialogVars, dndVars, desk>>

---------------------------------------------------------------------------
(* Keys. *)

\* Mutant: the keys for the offset do not ask whether they may.
OffsetUnasked == TRUE

MayChangeOffset == ~Disallowed("AVOFFSET")

KeyOsd ==
  /\ AtWindow("osd")
  /\ \E op \in KeyOps : SetOsd(UiOsd(op, osd))
  /\ Did("osd", "key")
  /\ UNCHANGED <<movie, windowVars, loop_flag, override, connected, osd_seeking,
                 dialogVars, dndVars>>

\* The GLX window has no equaliser; with Xv it depends on the adaptor.
KeyEqualiser ==
  /\ AtWindow("osd") /\ window.mode # "glx"
  /\ \E supported \in IF window.mode = "xv" THEN BOOLEAN ELSE {TRUE} :
       SetOsd(KeyEq(supported, osd))
  /\ Did("osd", "key")
  /\ UNCHANGED <<movie, windowVars, loop_flag, override, connected, osd_seeking,
                 dialogVars, dndVars>>

Escape ==
  /\ AtWindow("quit")
  /\ ~Disallowed("QUIT_KEY")
  /\ loop_flag' = FALSE
  /\ Did("escape", "key")
  /\ UNCHANGED <<osdVars, windowVars, override, connected, osd_seeking, dialogVars, dndVars>>

\* Ctrl+Q, and the close button of the window.
CloseButton ==
  /\ AtWindow("quit")
  /\ ~Disallowed("QUIT_WMG")
  /\ loop_flag' = FALSE
  /\ Did("quit", "key")
  /\ UNCHANGED <<osdVars, windowVars, override, connected, osd_seeking, dialogVars, dndVars>>

\* x_fib_show: a dialog that is shown stays as it is.
x_fib_show ==
  browser' = IF browser.win # 0 THEN browser
             ELSE [win |-> window.number, mode |-> window.mode, since |-> override]

KeyOpen ==
  /\ AtWindow("file")
  /\ ~Disallowed("LOADFILE")
  /\ x_fib_show
  /\ Did("browse", "key")
  /\ UNCHANGED <<osdVars, windowVars, loop_flag, override, connected, osd_seeking, menu, dndVars>>

KeyUnload ==
  /\ AtWindow("file")
  /\ ~Disallowed("LOADFILE")
  /\ close_movie
  /\ Did("unload", "key")
  /\ UNCHANGED <<windowVars, loop_flag, override, connected, osd_seeking, dialogVars, dndVars>>

KeyOffset ==
  /\ AtWindow("offset")
  /\ MayChangeOffset
  /\ Did("offset", "key")
  /\ UNCHANGED <<osdVars, windowVars, loop_flag, override, connected, osd_seeking,
                 dialogVars, dndVars>>

\* Space and backspace: JACK's transport.
KeyTransport ==
  /\ AtWindow("sync") /\ "jack" \in connected
  /\ ~Disallowed("JCONTROL")
  /\ Did("transport", "key")
  /\ UNCHANGED <<osdVars, windowVars, loop_flag, override, connected, osd_seeking,
                 dialogVars, dndVars>>

---------------------------------------------------------------------------
(* The bar that shows the position.  Seeking by it is for a movie that     *)
(* follows no clock; ui_sync_manual has none to close then.                *)

OnBar == connected = {} /\ "POS" \in osd /\ ~Disallowed("MENUSYNC")

BarPress ==
  /\ AtWindow("seek") /\ OnBar
  /\ osd_seeking' = TRUE
  /\ Did("seek", "button")
  /\ UNCHANGED <<osdVars, windowVars, loop_flag, override, connected, dialogVars, dndVars>>

BarMotion ==
  /\ AtWindow("seek") /\ osd_seeking /\ OnBar
  /\ Did("seek", "button")
  /\ UNCHANGED <<osdVars, windowVars, loop_flag, override, connected, osd_seeking,
                 dialogVars, dndVars>>

NoMenu == [win |-> 0, mode |-> None, sub |-> None, item |-> None, sensitive |-> {}, since |-> {}]

\* A button that is released outside of the menu closes it.
BarRelease ==
  /\ loop_flag /\ window.open /\ ~Stuck /\ osd_seeking
  /\ osd_seeking' = FALSE
  /\ menu' = NoMenu
  /\ DidNothing
  /\ UNCHANGED <<osdVars, windowVars, loop_flag, override, connected, browser, dndVars, desk>>

---------------------------------------------------------------------------
(* The menu.  What can be chosen is settled when it opens.                 *)

\* ui_syncsource: of several, JACK's.
FollowsJack == "jack" \in connected

Sensitive ==
  {x \in Headings \cup Items :
     /\ x = "offset" => ~Disallowed("AVOFFSET")
     /\ x = "transport" => FollowsJack /\ ~Disallowed("JCONTROL")
     /\ x = "sync" => ~Disallowed("MENUSYNC")
     /\ x = "open" => ~Disallowed("LOADFILE")
     /\ x = "unload" => ~Disallowed("LOADFILE") /\ movie # None
     /\ x = "quit" => ~Disallowed("QUIT_WMG")}

\* The third button, which closes a menu that is open first.
RightClick ==
  /\ AtWindow("menu") /\ ~osd_seeking
  /\ menu' = [win |-> window.number, mode |-> window.mode, sub |-> None,
              item |-> None, sensitive |-> Sensitive, since |-> override]
  /\ DidNothing
  /\ UNCHANGED <<osdVars, windowVars, loop_flag, override, connected, osd_seeking,
                 browser, dndVars>>

MenuOpen == loop_flag /\ menu.win # 0 /\ ~Stuck

\* The submenu stays while the pointer is on no other heading.
HoverHeading ==
  /\ MenuOpen
  /\ \E h \in Headings \cap menu.sensitive :
       menu' = [menu EXCEPT !.sub = h, !.item = IF h = menu.sub THEN @ ELSE None]
  /\ DidNothing
  /\ UNCHANGED <<osdVars, windowVars, loop_flag, override, connected, osd_seeking,
                 browser, dndVars, desk>>

HoverItem ==
  /\ MenuOpen /\ menu.sub # None
  /\ \E i \in (ItemsOf(menu.sub) \cap menu.sensitive) \cup {None} :
       menu' = [menu EXCEPT !.item = i]
  /\ DidNothing
  /\ UNCHANGED <<osdVars, windowVars, loop_flag, override, connected, osd_seeking,
                 browser, dndVars, desk>>

\* A click elsewhere, or a key that is released.
ClickAway ==
  /\ MenuOpen
  /\ menu' = NoMenu
  /\ DidNothing
  /\ UNCHANGED <<osdVars, windowVars, loop_flag, override, connected, osd_seeking,
                 browser, dndVars, desk>>

\* A click on an item: its callback, then the menu is closed.
Click(h) ==
  /\ MenuOpen /\ Input("menu")
  /\ menu.sub = h /\ menu.item # None
  /\ menu' = NoMenu

\* The menu's record is read once more after it was freed, to see whether the
\* item was the one that opens the file dialog.
ClickOpen ==
  /\ Click("file") /\ menu.item = "open"
  /\ \/ ~Disallowed("LOADFILE") /\ x_fib_show /\ Did("browse", "menu")
     \/ UNCHANGED browser /\ DidNothing
  /\ UNCHANGED <<osdVars, windowVars, loop_flag, override, connected, osd_seeking, dndVars>>

ClickUnload ==
  /\ Click("file") /\ menu.item = "unload"
  /\ IF Disallowed("LOADFILE") THEN UNCHANGED osdVars /\ DidNothing
     ELSE close_movie /\ Did("unload", "menu")
  /\ UNCHANGED <<windowVars, loop_flag, override, connected, osd_seeking, browser, dndVars>>

ClickQuit ==
  /\ Click("file") /\ menu.item = "quit"
  /\ loop_flag' = FALSE
  /\ DidSince("quit", "menu", menu.since)
  /\ UNCHANGED <<osdVars, windowVars, override, connected, osd_seeking, browser, dndVars>>

\* A clock that is open stays open, the others are closed; opening may fail.
Synced(clock) ==
  IF clock = "none" THEN {{}}
  ELSE IF clock \in connected /\ clock # "mtc" THEN {{clock}} ELSE {{clock}, {}}

ClickSync ==
  /\ Click("sync")
  /\ IF Disallowed("MENUSYNC") THEN UNCHANGED connected /\ DidNothing
     ELSE connected' \in Synced(menu.item) /\ Did("sync", "menu")
  /\ UNCHANGED <<osdVars, windowVars, loop_flag, override, osd_seeking, browser, dndVars>>

ClickOsd ==
  /\ Click("osd")
  /\ SetOsd(UiOsd(menu.item, osd))
  /\ Did("osd", "menu")
  /\ UNCHANGED <<movie, windowVars, loop_flag, override, connected, osd_seeking, browser, dndVars>>

ClickOffset ==
  /\ Click("offset")
  /\ IF MayChangeOffset THEN Did("offset", "menu") ELSE DidNothing
  /\ UNCHANGED <<osdVars, windowVars, loop_flag, override, connected, osd_seeking,
                 browser, dndVars>>

ClickTransport ==
  /\ Click("transport")
  /\ IF "jack" \in connected THEN DidSince("transport", "menu", menu.since) ELSE DidNothing
  /\ UNCHANGED <<osdVars, windowVars, loop_flag, override, connected, osd_seeking,
                 browser, dndVars>>

---------------------------------------------------------------------------
(* The file dialog.                                                        *)

BrowserOpen == loop_flag /\ browser.win # 0 /\ window.open /\ browser.win = window.number

NoBrowser == [win |-> 0, mode |-> None, since |-> {}]

BrowserPicks ==
  /\ BrowserOpen /\ ~Stuck /\ menu.win = 0
  /\ \E f \in Files :
       /\ open_movie(f)
       /\ did' = [what |-> "load", by |-> "browser", file |-> f, since |-> browser.since]
  /\ browser' = NoBrowser
  /\ UNCHANGED <<windowVars, loop_flag, override, connected, osd_seeking, menu, dndVars, desk>>

BrowserCancels ==
  /\ BrowserOpen /\ ~Stuck /\ menu.win = 0
  /\ browser' = NoBrowser
  /\ DidNothing
  /\ UNCHANGED <<osdVars, windowVars, loop_flag, override, connected, osd_seeking, menu,
                 dndVars, desk>>

---------------------------------------------------------------------------
(* Drag and drop.  The user drags from one source at a time; what its      *)
(* messages say is read when the event loop gets to it.  The request for   *)
(* the data goes to the owner that the server knows when it gets there,    *)
(* which need not be the one that the check before it has found.           *)

Message(kind, s) == [kind |-> kind, from |-> s]
NoData == [type |-> None, file |-> None]
\* The server answers a question (XGetSelectionOwner, XGetWindowProperty) when
\* it has done what it was sent before.
Replied == dnd.sent = None

undragged == <<osdVars, windowVars, loop_flag, override, connected, osd_seeking, dialogVars>>

DragOver ==
  /\ AtWindow("drag") /\ drag = None /\ menu.win = 0
  /\ \E s \in Sources :
       /\ drag' = s /\ owner' = s
       /\ events' = Append(events, Message("enter", s))
  /\ late' = IF Replied THEN late ELSE late \cup {drag'}
  /\ DidNothing
  /\ UNCHANGED <<undragged, dnd, asked, dropped>>

DragAway ==
  /\ drag # None
  /\ events' = Append(events, Message("leave", drag))
  /\ drag' = None
  /\ DidNothing
  /\ UNCHANGED <<undragged, dnd, owner, asked, dragHistory, desk>>

DragDrop ==
  /\ drag # None
  /\ events' = Append(events, Message("drop", drag))
  /\ drag' = None
  /\ dropped' = dropped \cup {drag}
  /\ DidNothing
  /\ UNCHANGED <<undragged, dnd, owner, asked, late, desk>>

Event(kind) ==
  /\ loop_flag /\ window.open
  /\ events # <<>> /\ Head(events).kind = kind
  /\ events' = Tail(events)

\* Of a list in a property the first type is not looked at, and none is taken
\* that is a list of names; of three types in the message the last one is.
Accepted(s) ==
  LET types == Offers[s]
      InList == {i \in 2 .. Len(types) : types[i] \in {"text/plain", "UTF8_STRING"}}
      InMessage == {i \in 1 .. Len(types) :
                      types[i] \in {"text/uri-list", "text/plain", "UTF8_STRING"}}
      best == IF Len(types) > 3
              THEN {i \in InList : \A j \in InList : i <= j}
              ELSE {i \in InMessage : \A j \in InMessage : j <= i}
  IN  IF best = {} THEN None ELSE types[CHOOSE i \in best : TRUE]

HandleEnter ==
  /\ Event("enter")
  /\ LET s == Head(events).from
     IN  /\ Len(Offers[s]) > 3 => Replied
         /\ dnd' = IF s \in Newer THEN [dnd EXCEPT !.source = None, !.atom = None]
                   ELSE [dnd EXCEPT !.source = s, !.atom = Accepted(s)]
  /\ DidNothing
  /\ UNCHANGED <<undragged, owner, drag, asked, dragHistory, desk>>

HandleLeave ==
  /\ Event("leave")
  /\ dnd' = [dnd EXCEPT !.atom = None]
  /\ DidNothing
  /\ UNCHANGED <<undragged, owner, drag, asked, dragHistory, desk>>

\* Mutant: whose selection it is does not matter.
AnySource(s) == s = dnd.source

MayConvert(s) == s = owner /\ s = dnd.source

HandleDrop ==
  /\ Event("drop") /\ Replied
  /\ dnd' = IF MayConvert(Head(events).from) THEN [dnd EXCEPT !.sent = dnd.atom] ELSE dnd
  /\ DidNothing
  /\ UNCHANGED <<undragged, owner, drag, asked, dragHistory, desk>>

\* The server passes the request on to the owner.
Convert ==
  /\ ~Replied
  /\ asked' = Append(asked, [from |-> owner, type |-> dnd.sent])
  /\ dnd' = [dnd EXCEPT !.sent = None]
  /\ DidNothing
  /\ UNCHANGED <<undragged, owner, drag, events, dragHistory, desk>>

\* The source puts its data into a property of the window, or refuses.
SourceAnswers ==
  /\ asked # <<>>
  /\ asked' = Tail(asked)
  /\ LET s == Head(asked).from
     IN  \/ /\ dnd' = [dnd EXCEPT !.data = [type |-> Head(asked).type, file |-> s]]
            /\ events' = Append(events, Message("data", s))
         \/ events' = Append(events, Message("refused", s)) /\ UNCHANGED dnd
  /\ DidNothing
  /\ UNCHANGED <<undragged, owner, drag, dragHistory, desk>>

\* The property is read as xj_atom, which is any type when it is None, and
\* deleted when its type is the one that is read.
Readable == dnd.data.type # None /\ dnd.atom \in {None, dnd.data.type}

getDragData ==
  /\ \/ /\ Event("data") /\ Replied /\ Readable
        /\ dnd' = [dnd EXCEPT !.data = NoData]
        /\ IF Disallowed("LOADFILE") THEN UNCHANGED osdVars /\ DidNothing
           ELSE /\ open_movie(dnd.data.file)
                /\ did' = [what |-> "load", by |-> "drop", file |-> dnd.data.file,
                           since |-> override]
     \/ /\ Event("data") /\ Replied /\ ~Readable
        /\ DidNothing
        /\ UNCHANGED <<osdVars, dnd>>
     \/ /\ Event("refused")
        /\ DidNothing
        /\ UNCHANGED <<osdVars, dnd>>
  /\ UNCHANGED <<windowVars, loop_flag, override, connected, osd_seeking, dialogVars,
                 owner, drag, asked, dragHistory, desk>>

---------------------------------------------------------------------------
(* The remote control and OSC.  override is what they are for: no command  *)
(* asks for it.                                                            *)

RemoteOsd ==
  /\ Input("osd")
  /\ \/ \E bit \in RemoteBits, on \in BOOLEAN : SetOsd(OnOff(on, bit, osd))
     \/ \E bits \in SUBSET ModeBits : SetOsd(xapi_osd_mode(bits, osd))
  /\ Did("osd", "remote")
  /\ UNCHANGED <<movie, windowVars, loop_flag, override, connected, osd_seeking,
                 dialogVars, dndVars>>

xapi_soverride ==
  /\ Input("override")
  /\ override' \in Masks
  /\ DidNothing
  /\ UNCHANGED <<osdVars, windowVars, loop_flag, connected, osd_seeking, dialogVars, dndVars>>

xapi_open ==
  /\ Input("file")
  /\ \E f \in Files : open_movie(f)
  /\ Did("load", "remote")
  /\ UNCHANGED <<windowVars, loop_flag, override, connected, osd_seeking, dialogVars, dndVars>>

xapi_close ==
  /\ Input("file")
  /\ close_movie
  /\ Did("unload", "remote")
  /\ UNCHANGED <<windowVars, loop_flag, override, connected, osd_seeking, dialogVars, dndVars>>

xapi_quit ==
  /\ Input("quit")
  /\ loop_flag' = FALSE
  /\ Did("quit", "remote")
  /\ UNCHANGED <<osdVars, windowVars, override, connected, osd_seeking, dialogVars, dndVars>>

\* The commands close the other clocks first, OSC's do not.
RemoteSync ==
  /\ Input("sync")
  /\ \/ \E clock \in Clocks : connected' \in Synced(clock)
     \/ \E clock \in Clocks : connected' = connected \ {clock}
     \/ \E clock \in Clocks : connected' = connected \cup {clock}
  /\ Did("sync", "remote")
  /\ UNCHANGED <<osdVars, windowVars, loop_flag, override, osd_seeking, dialogVars, dndVars>>

\* Mutant: Xv's dialogs stay as well.
ClosesGlxOnly(mode) == mode = "glx"

\* The window's dialogs go with it, but for ImLib2's.
ClosesDialogs(mode) == mode \in {"glx", "xv"}

xapi_close_window ==
  /\ Input("window") /\ window.open
  /\ window' = [window EXCEPT !.open = FALSE]
  /\ loop_run' = FALSE
  /\ IF ClosesDialogs(window.mode)
     THEN menu' = NoMenu /\ browser' = NoBrowser
     ELSE UNCHANGED dialogVars
  /\ dnd' = [dnd EXCEPT !.sent = None, !.data = NoData]
  /\ events' = <<>> /\ asked' = <<>> /\ drag' = None
  /\ DidNothing
  /\ UNCHANGED <<osdVars, loop_flag, override, connected, osd_seeking, owner, dragHistory>>

\* The movie is opened again for the new window's format.
xapi_set_videomode ==
  /\ Input("window") /\ ~window.open
  /\ \E mode \in Modes, opens \in BOOLEAN :
       window' = IF opens THEN [number |-> window.number + 1, mode |-> mode, open |-> TRUE]
                 ELSE window
  /\ loop_run' = window'.open
  /\ IF movie = None THEN UNCHANGED osdVars ELSE open_movie(movie)
  /\ DidNothing
  /\ UNCHANGED <<loop_flag, override, connected, osd_seeking, dialogVars, dndVars>>

\* MapNotify, UnmapNotify.
Minimise ==
  /\ Input("window") /\ window.open
  /\ loop_run' = ~loop_run
  /\ DidNothing
  /\ UNCHANGED <<osdVars, window, loop_flag, override, connected, osd_seeking,
                 dialogVars, dndVars>>

---------------------------------------------------------------------------

Init ==
  /\ osd \in {{"BOX"}, {"BOX", "POS"}}
  /\ index = NoIndex /\ movie = None
  /\ window \in {[number |-> 1, mode |-> m, open |-> TRUE] : m \in Modes}
  /\ loop_run = TRUE /\ loop_flag = TRUE
  /\ override = {} /\ connected = {} /\ osd_seeking = FALSE
  /\ menu = NoMenu /\ browser = NoBrowser
  /\ dnd = [source |-> None, atom |-> None, sent |-> None, data |-> NoData]
  /\ owner = None /\ drag = None /\ events = <<>> /\ asked = <<>> /\ dropped = {} /\ late = {}
  /\ did = Nothing
  /\ desk \in Desks

Index == IndexLoad \/ IndexStore \/ IndexScan

Keys == KeyOsd \/ KeyEqualiser \/ Escape \/ CloseButton \/ KeyOpen \/ KeyUnload
        \/ KeyOffset \/ KeyTransport

Bar == BarPress \/ BarMotion \/ BarRelease

Menu == RightClick \/ HoverHeading \/ HoverItem \/ ClickAway \/ ClickOpen \/ ClickUnload
        \/ ClickQuit \/ ClickSync \/ ClickOsd \/ ClickOffset \/ ClickTransport

Browser == BrowserPicks \/ BrowserCancels

Drag == DragOver \/ DragAway \/ DragDrop \/ HandleEnter \/ HandleLeave \/ HandleDrop
        \/ Convert \/ SourceAnswers \/ getDragData

Remote == RemoteOsd \/ xapi_soverride \/ xapi_open \/ xapi_close \/ xapi_quit
          \/ RemoteSync \/ xapi_close_window \/ xapi_set_videomode \/ Minimise

Next == Index \/ DisplayNoFile \/ Keys \/ Bar \/ Menu \/ Browser \/ Drag \/ Remote

Spec == Init /\ [][Next]_vars

---------------------------------------------------------------------------
(* Properties. *)

\* Every variable stays within what the code can give it.
TypeOK ==
  /\ osd \subseteq Bits /\ movie \in Files \cup Sources \cup {None}
  /\ index \in [at : Updates \cup {"off", "scan", "ended"}, loaded : SUBSET Bits,
                stale : BOOLEAN, ok : BOOLEAN]
  /\ window \in [number : Nat \ {0}, mode : Modes, open : BOOLEAN]
  /\ loop_run \in BOOLEAN /\ loop_flag \in BOOLEAN /\ osd_seeking \in BOOLEAN
  /\ override \subseteq Overrides /\ connected \subseteq Clocks
  /\ menu \in [win : Nat, mode : Modes \cup {None}, sub : Headings \cup {None},
               item : Items \cup {None}, sensitive : SUBSET (Headings \cup Items), since : SUBSET Overrides]
  /\ browser \in [win : Nat, mode : Modes \cup {None}, since : SUBSET Overrides]
  /\ owner \in Sources \cup {None} /\ drag \in Sources \cup {None}
  /\ dropped \cup late \subseteq Sources /\ dnd.source \in Sources \cup {None}

\* Of the boxes over the middle of the picture -- the offset as time code or in
\* frames, the times and the geometry of the file -- the one that is switched
\* on is the one that is seen, whatever keys, menu and remote control do while
\* the index thread updates the same word without a lock.
TheBoxIsDrawn == AllDrawn(osd)

\* What an override bit forbids.
Forbids ==
  CASE did.what = "escape" -> {"QUIT_KEY"}
    [] did.what = "quit" -> {"QUIT_WMG"}
    [] did.what \in {"load", "unload", "browse"} -> {"LOADFILE"}
    [] did.what = "offset" -> {"AVOFFSET"}
    [] did.what = "transport" -> {"JCONTROL"}
    [] did.what \in {"sync", "seek"} -> {"MENUSYNC"}
    [] OTHER -> {}

\* The user does nothing that the remote control has disallowed: neither by a
\* key, a button or a drop nor through a menu that was opened before.  Only
\* quitting and JACK's transport in an open menu, and a file dialog that is
\* open, go by what was allowed when they were opened.
OverrideHolds ==
  did.by # "remote" =>
    /\ Forbids \cap override \cap did.since = {}
    /\ \/ Forbids \cap override = {}
       \/ did.by = "menu" /\ did.what \in {"quit", "transport"}
       \/ did.by = "browser"

\* A menu or a file dialog belongs to the window that is open, so that nothing
\* is done through the connection of a window that was closed; ImLib2 windows
\* leave theirs behind, and with the menu its grab of pointer and keyboard.
DialogsHaveTheirWindow ==
  \A dialog \in {<<menu.win, menu.mode>>, <<browser.win, browser.mode>>} :
    dialog[1] # 0 /\ dialog[2] # "imlib2" => window.open /\ dialog[1] = window.number

\* A movie that is loaded by drag and drop was dropped on the window: a drag
\* that only passes, or has begun before an earlier drop is handled, loads
\* nothing.  Only a drag that begins when the owner of the selection was
\* checked, and before the request for the data gets to the server, is asked for
\* its file in place of the one that was dropped.
PassingDragsLoadNothing == did.by = "drop" => did.file \in dropped \cup late

\* "Files can be loaded by dragging the file onto the window": it is the file
\* that was dragged there which is loaded, whatever is dragged meanwhile.
OnlyDroppedFilesLoad == did.by = "drop" => did.file \in dropped
=============================================================================
