--------------------------- MODULE DesktopProofs ---------------------------
(***************************************************************************)
(* Proofs about what the user sees: about Desktop, for any files, sources  *)
(* of drags, video outputs and override masks, and any number of inputs;   *)
(* then about FileBrowser, for any file system, any sizes of the window    *)
(* and any length of the list of recent files.                             *)
(***************************************************************************)
EXTENDS Desktop, FileBrowser, FiniteSetTheorems, FunctionTheorems,
        WellFoundedInduction, TLAPS

---------------------------------------------------------------------------
(* OSD_mode: of the boxes that are drawn over the middle of the picture at *)
(* most one is switched on.  This, unlike TheBoxIsDrawn, every operation   *)
(* preserves, and it holds for the value that the index thread has loaded. *)

Single(m) == m \subseteq Bits /\ \A a, b \in m \cap Boxes : a = b

LEMMA OneBoxIsDrawn ==
  ASSUME NEW m, Single(m)
  PROVE  AllDrawn(m)
  BY DEF Single, AllDrawn, Drawn, Boxes

LEMMA OtherBit ==
  ASSUME NEW m, Single(m), NEW bit \in Bits \ Boxes, NEW on \in BOOLEAN
  PROVE  Single(OnOff(on, bit, m)) /\ Single(Toggle(bit, m))
  BY DEF Single, OnOff, Toggle

LEMMA UiOsdKeepsOne ==
  ASSUME NEW m, Single(m), NEW op \in KeyOps \cup MenuOps
  PROVE  Single(UiOsd(op, m))
<1> USE DEF Boxes, Bits
<1>1. Single(ui_osd_clear(m))
  BY DEF Single, ui_osd_clear
<1>2. Single(ui_osd_offset_cycle(m))
  BY DEF Single, ui_osd_offset_cycle
<1>3. Single(ui_osd_offset_tc(m))
  BY DEF Single, ui_osd_offset_tc
<1>4. Single(ui_osd_offset_fn(m))
  BY DEF Single, ui_osd_offset_fn
<1>5. Single(ui_osd_offset_none(m))
  BY DEF Single, ui_osd_offset_none
<1>6. Single(ui_osd_tc(m)) /\ Single(ui_osd_box(m)) /\ Single(ui_osd_pos(m))
  BY OtherBit DEF ui_osd_tc, ui_osd_box, ui_osd_pos
<1>7. Single(ui_osd_fn(m))
  BY DEF Single, ui_osd_fn
<1>8. Single(ui_osd_vtc_fn(m)) /\ Single(ui_osd_vtc_tc(m)) /\ Single(ui_osd_vtc_off(m))
  BY DEF Single, ui_osd_vtc_fn, ui_osd_vtc_tc, ui_osd_vtc_off
<1>9. Single(ui_osd_geo(m))
  BY DEF Single, ui_osd_geo, ui_osd_offset_none, Toggle, OnOff
<1>10. Single(ui_osd_fileinfo(m))
  BY DEF Single, ui_osd_fileinfo, ui_osd_offset_none, Toggle, OnOff
<1>11. Single(ui_osd_outofrange(m))
  BY DEF Single, ui_osd_outofrange
<1> QED
  BY <1>1, <1>2, <1>3, <1>4, <1>5, <1>6, <1>7, <1>8, <1>9, <1>10, <1>11
     DEF UiOsd, KeyOps, MenuOps

LEMMA OthersKeepOne ==
  ASSUME NEW m, Single(m)
  PROVE  /\ \A supported \in BOOLEAN : Single(KeyEq(supported, m))
         /\ \A bit \in RemoteBits, on \in BOOLEAN : Single(OnOff(on, bit, m))
         /\ \A bits \in SUBSET ModeBits : Single(xapi_osd_mode(bits, m))
         /\ Single(NoFileMessage(m)) /\ Single(m \ {"MSG"})
         /\ Single(IndexBegins(m)) /\ Single(IndexEnds(m))
         /\ \A ok : Single(IndexResult(ok, m))
<1> USE DEF Boxes, Bits
<1>1. \A supported \in BOOLEAN : Single(KeyEq(supported, m))
  BY DEF Single, KeyEq, Toggle, OnOff
<1>2. \A bit \in RemoteBits, on \in BOOLEAN : Single(OnOff(on, bit, m))
  BY DEF Single, OnOff, RemoteBits
<1>3. \A bits \in SUBSET ModeBits : Single(xapi_osd_mode(bits, m))
  BY DEF Single, xapi_osd_mode, ModeBits
<1>4. Single(NoFileMessage(m)) /\ Single(m \ {"MSG"})
  BY DEF Single, NoFileMessage
<1>5. Single(IndexBegins(m)) /\ Single(IndexEnds(m))
  BY DEF Single, IndexBegins, IndexEnds
<1>6. \A ok : Single(IndexResult(ok, m))
  BY DEF Single, IndexResult
<1> QED
  BY <1>1, <1>2, <1>3, <1>4, <1>5, <1>6

IndexType == [at : Updates \cup {"off", "scan", "ended"}, loaded : SUBSET Bits,
              stale : BOOLEAN, ok : BOOLEAN]

OsdInv ==
  /\ Single(osd)
  /\ index \in IndexType
  /\ index.stale => index.at \in Updates /\ Single(index.loaded)
  /\ movie \in Files \cup Sources \cup {None}

LEMMA JoinedKeepsOne ==
  ASSUME OsdInv, NEW m \in Joined(osd)
  PROVE  Single(m \ {"MSG"})
<1> DEFINE value(at, v) == IF index.at = at /\ index.stale THEN index.loaded ELSE v
           a == IF index.at = "begin" THEN IndexBegins(value("begin", osd)) ELSE osd
           b(ok) == IF index.at \in {"begin", "scan", "result"}
                    THEN IndexResult(ok, value("result", a)) ELSE a
           c(ok) == IF index.at \in {"begin", "scan", "result", "end"}
                    THEN IndexEnds(value("end", b(ok))) ELSE b(ok)
<1>1. PICK ok : m = c(ok)
  BY DEF Joined
<1>2. \A at, v : Single(v) => Single(value(at, v))
  BY DEF OsdInv
<1> HIDE DEF value
<1>3. Single(a)
  BY <1>2, OthersKeepOne DEF OsdInv
<1> HIDE DEF a
<1>4. Single(b(ok))
  BY <1>2, <1>3, OthersKeepOne
<1> HIDE DEF b
<1>5. Single(c(ok))
  BY <1>2, <1>4, OthersKeepOne
<1> QED
  BY <1>1, <1>5, OthersKeepOne

LEMMA AfterUpdateIsFresh ==
  ASSUME index \in IndexType, index.at \in Updates
  PROVE  AfterUpdate(index) \in IndexType /\ ~AfterUpdate(index).stale
  BY DEF AfterUpdate, IndexType, Updates

\* What the building blocks of the steps do to OSD_mode and the index thread.
LEMMA BlocksKeepOne ==
  ASSUME OsdInv
  PROVE  /\ \A m : Single(m) /\ SetOsd(m) /\ UNCHANGED movie => OsdInv'
         /\ UNCHANGED osdVars => OsdInv'
         /\ close_movie => OsdInv'
         /\ \A f \in Files \cup Sources : open_movie(f) => OsdInv'
<1>1. \A m : Single(m) /\ SetOsd(m) /\ UNCHANGED movie => OsdInv'
  BY AfterUpdateIsFresh DEF SetOsd, OsdInv
<1>2. UNCHANGED osdVars => OsdInv'
  BY DEF osdVars, OsdInv
<1>3. NoIndex \in IndexType /\ ~NoIndex.stale
  BY DEF NoIndex, IndexType, Updates
<1>4. [NoIndex EXCEPT !.at = "begin"] \in IndexType /\ ~[NoIndex EXCEPT !.at = "begin"].stale
  BY DEF NoIndex, IndexType, Updates
<1>5. close_movie => OsdInv'
  BY <1>2, <1>3, JoinedKeepsOne DEF close_movie, OsdInv
<1>6. \A f \in Files \cup Sources : open_movie(f) => OsdInv'
  BY <1>3, <1>4, JoinedKeepsOne DEF open_movie, OsdInv
<1> QED
  BY <1>1, <1>2, <1>5, <1>6

---------------------------------------------------------------------------
(* Drag and drop: who is asked for data, and whose data is there, has      *)
(* dropped, or began to drag while a request was on its way.               *)

DndType == [source : Sources \cup {None}, atom : STRING \cup {None}, sent : STRING \cup {None},
            data : [type : STRING \cup {None}, file : Sources \cup {None}]]
MessageType == [kind : {"enter", "leave", "drop", "data", "refused"}, from : Sources]
RequestType == [from : Sources, type : STRING \cup {None}]

MayLoad == dropped \cup late

DragInv ==
  /\ dnd \in DndType
  /\ owner \in Sources \cup {None} /\ drag \in Sources \cup {None}
  /\ dropped \subseteq Sources /\ late \subseteq Sources
  /\ events \in Seq(MessageType)
  /\ \A i \in 1 .. Len(events) : events[i].kind = "drop" => events[i].from \in dropped
  /\ asked \in Seq(RequestType)
  /\ \A i \in 1 .. Len(asked) : asked[i].from \in MayLoad
  /\ dnd.sent # None => owner \in MayLoad
  /\ dnd.data.type # None => dnd.data.file \in MayLoad

LEMMA AcceptedType ==
  ASSUME NEW s \in Sources
  PROVE  Accepted(s) \in STRING \cup {None}
<1> DEFINE types == Offers[s]
           InList == {i \in 2 .. Len(types) : types[i] \in {"text/plain", "UTF8_STRING"}}
           InMessage == {i \in 1 .. Len(types) :
                           types[i] \in {"text/uri-list", "text/plain", "UTF8_STRING"}}
           best == IF Len(types) > 3
                   THEN {i \in InList : \A j \in InList : i <= j}
                   ELSE {i \in InMessage : \A j \in InMessage : j <= i}
<1>1. types \in Seq(STRING)
  BY SourcesAssumption
<1>2. best \subseteq 1 .. Len(types)
  BY <1>1
<1>3. Accepted(s) = IF best = {} THEN None ELSE types[CHOOSE i \in best : TRUE]
  BY DEF Accepted
<1> HIDE DEF best
<1>4. best # {} => (CHOOSE i \in best : TRUE) \in 1 .. Len(types)
  BY <1>2
<1> QED
  BY <1>1, <1>3, <1>4

LEMMA Appended ==
  ASSUME NEW S, NEW q \in Seq(S), NEW x \in S
  PROVE  /\ Append(q, x) \in Seq(S)
         /\ \A i \in 1 .. Len(Append(q, x)) :
              Append(q, x)[i] = x \/ (i \in 1 .. Len(q) /\ Append(q, x)[i] = q[i])
  OBVIOUS

LEMMA Taken ==
  ASSUME NEW S, NEW q \in Seq(S), q # <<>>
  PROVE  /\ Tail(q) \in Seq(S) /\ Head(q) \in S /\ Head(q) = q[1] /\ 1 \in 1 .. Len(q)
         /\ \A i \in 1 .. Len(Tail(q)) : i + 1 \in 1 .. Len(q) /\ Tail(q)[i] = q[i + 1]
  OBVIOUS

LEMMA DragInvStays ==
  ASSUME DragInv, UNCHANGED dndVars
  PROVE  DragInv'
  BY DEF DragInv, dndVars, dragHistory, MayLoad

\* Reading the first event leaves the others.
LEMMA EventTaken ==
  ASSUME DragInv, NEW kind, Event(kind)
  PROVE  /\ events' \in Seq(MessageType) /\ Head(events) \in MessageType
         /\ \A i \in 1 .. Len(events') : events'[i].kind = "drop" => events'[i].from \in dropped
         /\ kind = "drop" => Head(events).from \in dropped
<1>1. events \in Seq(MessageType) /\ events # <<>> /\ events' = Tail(events)
  BY DEF DragInv, Event
<1> QED
  BY <1>1, Taken DEF DragInv, Event

LEMMA DragStep ==
  ASSUME DragInv, Drag
  PROVE  DragInv'
<1>1. ASSUME NEW kind \in {"enter", "leave", "drop", "data", "refused"}, NEW s \in Sources,
             events' = Append(events, Message(kind, s)), dropped' \in SUBSET Sources,
             dropped \subseteq dropped', kind = "drop" => s \in dropped'
      PROVE  /\ events' \in Seq(MessageType)
             /\ \A i \in 1 .. Len(events') : events'[i].kind = "drop" => events'[i].from \in dropped'
  <2>1. Message(kind, s) \in MessageType /\ Message(kind, s).kind = kind /\ Message(kind, s).from = s
    BY DEF Message, MessageType
  <2> QED
    BY <1>1, <2>1, Appended DEF DragInv
<1>2. CASE DragOver
  <2>1. PICK s \in Sources : drag' = s /\ owner' = s /\ events' = Append(events, Message("enter", s))
    BY <1>2 DEF DragOver
  <2>2. late' = IF Replied THEN late ELSE late \cup {s}
    BY <1>2, <2>1 DEF DragOver
  <2>3. late' \subseteq Sources /\ MayLoad \subseteq MayLoad' /\ (dnd.sent # None => s \in MayLoad')
    BY <1>2, <2>2 DEF DragOver, DragInv, MayLoad, Replied
  <2> QED
    BY <1>1, <1>2, <2>1, <2>3 DEF DragOver, DragInv
<1>3. CASE DragAway
  BY <1>1, <1>3 DEF DragAway, DragInv, dragHistory, MayLoad
<1>4. CASE DragDrop
  BY <1>1, <1>4 DEF DragDrop, DragInv, MayLoad
<1>5. CASE HandleEnter
  <2>1. dnd' \in DndType /\ dnd'.sent = dnd.sent /\ dnd'.data = dnd.data
    BY <1>5, EventTaken, AcceptedType DEF HandleEnter, DragInv, DndType, MessageType
  <2> QED
    BY <1>5, <2>1, EventTaken DEF HandleEnter, DragInv, dragHistory, MayLoad
<1>6. CASE HandleLeave
  BY <1>6, EventTaken DEF HandleLeave, DragInv, DndType, dragHistory, MayLoad
<1>7. CASE HandleDrop
  <2>1. dnd' \in DndType /\ dnd'.data = dnd.data
    BY <1>7 DEF HandleDrop, DragInv, DndType
  <2>2. dnd'.sent # None => owner \in MayLoad
    BY <1>7, EventTaken DEF HandleDrop, MayConvert, DragInv, DndType, MayLoad
  <2> QED
    BY <1>7, <2>1, <2>2, EventTaken DEF HandleDrop, DragInv, dragHistory, MayLoad
<1>8. CASE Convert
  <2>1. owner \in MayLoad /\ MayLoad' = MayLoad /\ owner \in Sources
    BY <1>8 DEF Convert, Replied, DragInv, dragHistory, MayLoad
  <2>2. dnd' \in DndType /\ dnd'.data = dnd.data /\ dnd'.sent = None
    BY <1>8 DEF Convert, DragInv, DndType
  <2>3. [from |-> owner, type |-> dnd.sent] \in RequestType
    BY <2>1 DEF DragInv, DndType, RequestType
  <2>4. asked' \in Seq(RequestType) /\ \A i \in 1 .. Len(asked') : asked'[i].from \in MayLoad
    BY <1>8, <2>1, <2>3, Appended DEF Convert, DragInv
  <2> QED
    BY <1>8, <2>1, <2>2, <2>4 DEF Convert, DragInv, dragHistory
<1>9. CASE SourceAnswers
  <2> DEFINE s == Head(asked).from
  <2>1. asked' \in Seq(RequestType) /\ Head(asked) \in RequestType /\ s \in MayLoad
        /\ \A i \in 1 .. Len(asked') : asked'[i].from \in MayLoad
    BY <1>9, Taken DEF SourceAnswers, DragInv
  <2>2. s \in Sources /\ Head(asked).type \in STRING \cup {None} /\ MayLoad' = MayLoad
    BY <1>9, <2>1 DEF RequestType, SourceAnswers, dragHistory, MayLoad
  <2>3. CASE /\ dnd' = [dnd EXCEPT !.data = [type |-> Head(asked).type, file |-> s]]
             /\ events' = Append(events, Message("data", s))
    <3>1. dnd' \in DndType /\ dnd'.data.file \in MayLoad /\ dnd'.sent = dnd.sent
      BY <2>1, <2>2, <2>3 DEF DragInv, DndType
    <3> QED
      BY <1>1, <1>9, <2>1, <2>2, <2>3, <3>1 DEF SourceAnswers, DragInv, dragHistory
  <2>4. CASE events' = Append(events, Message("refused", s)) /\ UNCHANGED dnd
    BY <1>1, <1>9, <2>1, <2>2, <2>4 DEF SourceAnswers, DragInv, dragHistory
  <2> QED
    BY <1>9, <2>3, <2>4 DEF SourceAnswers
<1>10. CASE getDragData
  <2>1. \E kind : Event(kind)
    BY <1>10 DEF getDragData
  <2>2. dnd' = [dnd EXCEPT !.data = NoData] \/ dnd' = dnd
    BY <1>10 DEF getDragData
  <2>3. dnd' \in DndType /\ (dnd'.data.type # None => dnd'.data.file \in MayLoad) /\ dnd'.sent = dnd.sent
    BY <2>2 DEF DragInv, DndType, NoData
  <2>4. UNCHANGED <<owner, drag, asked, dropped, late>>
    BY <1>10 DEF getDragData, dragHistory
  <2> QED
    BY <2>1, <2>3, <2>4, EventTaken DEF DragInv, MayLoad
<1> QED
  BY <1>2, <1>3, <1>4, <1>5, <1>6, <1>7, <1>8, <1>9, <1>10 DEF Drag

LEMMA CloseWindowDrags ==
  ASSUME DragInv, xapi_close_window
  PROVE  DragInv'
<1>1. /\ dnd' = [dnd EXCEPT !.sent = None, !.data = NoData] /\ events' = <<>> /\ asked' = <<>>
      /\ drag' = None /\ UNCHANGED <<owner, dropped, late>>
  BY DEF xapi_close_window, dragHistory
<1>2. dnd' \in DndType /\ dnd'.data.type = None /\ dnd'.sent = None
  BY <1>1 DEF DragInv, DndType, NoData
<1> QED
  BY <1>1, <1>2 DEF DragInv

LEMMA DragNext ==
  ASSUME DragInv, [Next]_vars
  PROVE  DragInv'
<1>1. CASE Index \/ DisplayNoFile
  BY <1>1, DragInvStays DEF Index, IndexLoad, IndexStore, IndexScan, DisplayNoFile
<1>2. CASE Keys
  BY <1>2, DragInvStays DEF Keys, KeyOsd, KeyEqualiser, Escape, CloseButton, KeyOpen, KeyUnload,
     KeyOffset, KeyTransport
<1>3. CASE Bar
  BY <1>3, DragInvStays DEF Bar, BarPress, BarMotion, BarRelease
<1>4. CASE Menu
  BY <1>4, DragInvStays DEF Menu, RightClick, HoverHeading, HoverItem, ClickAway, ClickOpen,
     ClickUnload, ClickQuit, ClickSync, ClickOsd, ClickOffset, ClickTransport
<1>5. CASE Browser
  BY <1>5, DragInvStays DEF Browser, BrowserPicks, BrowserCancels
<1>6. CASE Drag
  BY <1>6, DragStep
<1>7. CASE Remote
  BY <1>7, DragInvStays, CloseWindowDrags DEF Remote, RemoteOsd, xapi_soverride, xapi_open,
     xapi_close, xapi_quit, RemoteSync, xapi_set_videomode, Minimise
<1>8. CASE UNCHANGED vars
  BY <1>8, DragInvStays DEF vars
<1> QED
  BY <1>1, <1>2, <1>3, <1>4, <1>5, <1>6, <1>7, <1>8 DEF Next

---------------------------------------------------------------------------

(* The menu and the file dialog: their window, and what was allowed when   *)
(* they opened.                                                            *)

WindowType == [number : Nat \ {0}, mode : Modes, open : BOOLEAN]
MenuType == [win : Nat, mode : Modes \cup {None}, sub : Headings \cup {None},
             item : Items \cup {None}, sensitive : SUBSET (Headings \cup Items),
             since : SUBSET Overrides]
BrowserType == [win : Nat, mode : Modes \cup {None}, since : SUBSET Overrides]

\* A dialog is at the window that is open, or one of ImLib2's was left behind.
AtItsWindow(d) ==
  d.win # 0 =>
    /\ d.win <= window.number /\ (d.win = window.number => d.mode = window.mode)
    /\ d.mode # "imlib2" => window.open /\ d.win = window.number

MenuKept ==
  /\ menu \in MenuType /\ AtItsWindow(menu)
  /\ menu.sub # None => menu.sub \in Headings \cap menu.sensitive
  /\ menu.item # None => menu.sub # None /\ menu.item \in ItemsOf(menu.sub) \cap menu.sensitive
  /\ "quit" \in menu.sensitive => "QUIT_WMG" \notin menu.since
  /\ "transport" \in menu.sensitive => "JCONTROL" \notin menu.since

BrowserKept ==
  /\ browser \in BrowserType /\ AtItsWindow(browser)
  /\ browser.win # 0 => "LOADFILE" \notin browser.since

MainType ==
  /\ window \in WindowType
  /\ loop_run \in BOOLEAN /\ loop_flag \in BOOLEAN /\ osd_seeking \in BOOLEAN
  /\ override \in SUBSET Overrides /\ connected \in SUBSET Clocks

DialogInv == MainType /\ MenuKept /\ BrowserKept

LEMMA ItemsAre ==
  /\ ItemsOf("file") = {"open", "unload", "quit"}
  /\ ItemsOf("sync") = Clocks \cup {"none"}
  /\ ItemsOf("osd") = MenuOps
  /\ ItemsOf("offset") = {"change offset"}
  /\ ItemsOf("transport") = {"toggle"}
  /\ \A h \in Headings : ItemsOf(h) \subseteq Items
  BY DEF ItemsOf, Headings, Items

LEMMA NoneKept ==
  /\ UNCHANGED window /\ menu' = NoMenu => MenuKept'
  /\ UNCHANGED window /\ browser' = NoBrowser => BrowserKept'
  BY DEF MenuKept, BrowserKept, NoMenu, NoBrowser, MenuType, BrowserType, AtItsWindow

LEMMA DialogsStay ==
  /\ MenuKept /\ UNCHANGED <<window, menu>> => MenuKept'
  /\ BrowserKept /\ UNCHANGED <<window, browser>> => BrowserKept'
  BY DEF MenuKept, BrowserKept, AtItsWindow

LEMMA BrowserShown ==
  ASSUME DialogInv, x_fib_show, UNCHANGED window, window.open, ~Disallowed("LOADFILE")
  PROVE  BrowserKept'
  BY DEF DialogInv, MainType, BrowserKept, BrowserType, WindowType, x_fib_show, Disallowed,
     AtItsWindow

LEMMA MenuNext ==
  ASSUME DialogInv, Menu
  PROVE  DialogInv'
<1>1. UNCHANGED <<window, loop_run, override, osd_seeking>>
  BY DEF Menu, RightClick, HoverHeading, HoverItem, ClickAway, ClickOpen, ClickUnload, ClickQuit,
     ClickSync, ClickOsd, ClickOffset, ClickTransport, windowVars
<1>2. MainType'
  <2>1. CASE ClickSync
    <3>1. CASE UNCHANGED connected
      BY <1>1, <2>1, <3>1 DEF ClickSync, DialogInv, MainType
    <3>2. CASE connected' \in Synced(menu.item)
      <4>1. menu.item \in Clocks \cup {"none"}
        BY <2>1, ItemsAre DEF ClickSync, Click, DialogInv, MenuKept
      <4>2. connected' \in SUBSET Clocks
        BY <3>2, <4>1 DEF Synced, Clocks
      <4> QED
        BY <1>1, <2>1, <4>2 DEF ClickSync, DialogInv, MainType
    <3> QED
      BY <2>1, <3>1, <3>2 DEF ClickSync
  <2>2. CASE ClickQuit
    BY <1>1, <2>2 DEF ClickQuit, DialogInv, MainType
  <2>3. CASE ~ClickSync /\ ~ClickQuit
    <3>1. UNCHANGED <<loop_flag, connected>>
      BY <2>3 DEF Menu, RightClick, HoverHeading, HoverItem, ClickAway, ClickOpen, ClickUnload,
         ClickOsd, ClickOffset, ClickTransport
    <3> QED
      BY <1>1, <3>1 DEF DialogInv, MainType
  <2> QED
    BY <2>1, <2>2, <2>3
<1>3. MenuKept'
  <2>1. CASE RightClick
    <3>1. menu' = [win |-> window.number, mode |-> window.mode, sub |-> None,
                   item |-> None, sensitive |-> Sensitive, since |-> override]
          /\ window.open /\ window \in WindowType /\ override \in SUBSET Overrides
      BY <2>1 DEF RightClick, AtWindow, DialogInv, MainType
    <3>2. Sensitive \in SUBSET (Headings \cup Items)
      BY DEF Sensitive
    <3>3. menu' \in MenuType
      BY <3>1, <3>2 DEF MenuType, WindowType
    <3>4. ("quit" \in Sensitive => "QUIT_WMG" \notin override)
          /\ ("transport" \in Sensitive => "JCONTROL" \notin override)
      BY DEF Sensitive, Disallowed
    <3> QED
      BY <1>1, <3>1, <3>3, <3>4 DEF MenuKept, AtItsWindow, WindowType
  <2>2. CASE HoverHeading
    <3>1. PICK h \in Headings \cap menu.sensitive :
             menu' = [menu EXCEPT !.sub = h, !.item = IF h = menu.sub THEN @ ELSE None]
      BY <2>2 DEF HoverHeading
    <3> QED
      BY <1>1, <3>1 DEF DialogInv, MenuKept, MenuType, AtItsWindow
  <2>3. CASE HoverItem
    <3>1. PICK i \in (ItemsOf(menu.sub) \cap menu.sensitive) \cup {None} :
             menu' = [menu EXCEPT !.item = i]
      BY <2>3 DEF HoverItem
    <3>2. menu.sub # None /\ menu.sub \in Headings
      BY <2>3 DEF HoverItem, DialogInv, MenuKept
    <3>3. i \in Items \cup {None}
      BY <3>1, <3>2, ItemsAre
    <3> QED
      BY <1>1, <3>1, <3>2, <3>3 DEF DialogInv, MenuKept, MenuType, AtItsWindow
  <2>4. CASE menu' = NoMenu
    BY <1>1, <2>4, NoneKept
  <2> QED
    BY <2>1, <2>2, <2>3, <2>4 DEF Menu, ClickAway, ClickOpen, ClickUnload, ClickQuit, ClickSync,
       ClickOsd, ClickOffset, ClickTransport, Click
<1>4. BrowserKept'
  <2>1. CASE ClickOpen /\ ~Disallowed("LOADFILE") /\ x_fib_show
    <3>1. window.open
      BY <2>1 DEF ClickOpen, Click, MenuOpen, Stuck
    <3> QED
      BY <1>1, <2>1, <3>1, BrowserShown
  <2>2. CASE UNCHANGED browser
    BY <1>1, <2>2, DialogsStay DEF DialogInv
  <2> QED
    BY <2>1, <2>2 DEF Menu, RightClick, HoverHeading, HoverItem, ClickAway, ClickOpen, ClickUnload,
       ClickQuit, ClickSync, ClickOsd, ClickOffset, ClickTransport
<1> QED
  BY <1>2, <1>3, <1>4 DEF DialogInv

LEMMA WindowNext ==
  ASSUME DialogInv, xapi_close_window \/ xapi_set_videomode \/ Minimise
  PROVE  DialogInv'
<1>1. CASE xapi_close_window
  <2>1. window' = [window EXCEPT !.open = FALSE] /\ loop_run' = FALSE
        /\ UNCHANGED <<loop_flag, override, connected, osd_seeking>>
    BY <1>1 DEF xapi_close_window
  <2>2. MainType'
    BY <2>1 DEF DialogInv, MainType, WindowType
  <2>3. CASE ClosesDialogs(window.mode)
    <3>1. menu' = NoMenu /\ browser' = NoBrowser
      BY <1>1, <2>3 DEF xapi_close_window
    <3> QED
      BY <2>2, <3>1 DEF DialogInv, MenuKept, BrowserKept, NoMenu, NoBrowser, MenuType,
         BrowserType, AtItsWindow
  <2>4. CASE ~ClosesDialogs(window.mode)
    <3>1. window.mode = "imlib2" /\ window'.number = window.number /\ window'.mode = window.mode
      BY <2>1, <2>4, ModesAssumption DEF ClosesDialogs, DialogInv, MainType, WindowType
    <3>2. UNCHANGED <<menu, browser>>
      BY <1>1, <2>4 DEF xapi_close_window, dialogVars
    <3> QED
      BY <2>2, <3>1, <3>2 DEF DialogInv, MenuKept, BrowserKept, AtItsWindow
  <2> QED
    BY <2>3, <2>4
<1>2. CASE xapi_set_videomode
  <2>1. PICK mode \in Modes, opens \in BOOLEAN :
          window' = IF opens THEN [number |-> window.number + 1, mode |-> mode, open |-> TRUE]
                    ELSE window
    BY <1>2 DEF xapi_set_videomode
  <2>2. ~window.open /\ loop_run' = window'.open
        /\ UNCHANGED <<loop_flag, override, connected, osd_seeking, menu, browser>>
    BY <1>2 DEF xapi_set_videomode, dialogVars
  <2>3. window' \in WindowType /\ window'.open \in BOOLEAN
    <3>1. window \in WindowType /\ window.number + 1 \in Nat \ {0}
      BY DEF DialogInv, MainType, WindowType
    <3>2. opens => window' \in WindowType
      BY <2>1, <3>1 DEF WindowType
    <3> QED
      BY <2>1, <3>1, <3>2 DEF WindowType
  <2>4. \A d \in {menu, browser} : d.win # 0 => d.mode = "imlib2" /\ d.win <= window.number
    BY <2>2 DEF DialogInv, MenuKept, BrowserKept, AtItsWindow
  <2>5. CASE window' = window
    BY <2>2, <2>3, <2>5 DEF DialogInv, MainType, MenuKept, BrowserKept, AtItsWindow
  <2>6. CASE window'.number = window.number + 1
    <3>1. window.number \in Nat /\ menu.win \in Nat /\ browser.win \in Nat
      BY DEF DialogInv, MainType, WindowType, MenuKept, MenuType, BrowserKept, BrowserType
    <3>2. \A d \in {menu, browser} : d.win # 0 => d.win <= window'.number /\ d.win # window'.number
      BY <2>4, <2>6, <3>1
    <3> QED
      BY <2>2, <2>3, <2>4, <3>2 DEF DialogInv, MainType, MenuKept, BrowserKept, AtItsWindow
  <2> QED
    BY <2>1, <2>5, <2>6
<1>3. CASE Minimise
  BY <1>3, DialogsStay DEF Minimise, dialogVars, DialogInv, MainType
<1> QED
  BY <1>1, <1>2, <1>3

LEMMA DialogNext ==
  ASSUME DialogInv, [Next]_vars
  PROVE  DialogInv'
<1>0. UNCHANGED <<window, loop_run, loop_flag, override, connected, osd_seeking, menu, browser>>
        => DialogInv'
  BY DialogsStay DEF DialogInv, MainType
<1>1. CASE Index \/ DisplayNoFile
  BY <1>0, <1>1 DEF Index, IndexLoad, IndexStore, IndexScan, DisplayNoFile, windowVars, dialogVars
<1>2. CASE Keys
  <2>1. CASE Escape \/ CloseButton
    BY <2>1, DialogsStay DEF Escape, CloseButton, windowVars, dialogVars, DialogInv, MainType
  <2>2. CASE KeyOpen
    BY <2>2, DialogsStay, BrowserShown DEF KeyOpen, AtWindow, windowVars, DialogInv, MainType
  <2> QED
    BY <1>0, <1>2, <2>1, <2>2 DEF Keys, KeyOsd, KeyEqualiser, KeyUnload, KeyOffset, KeyTransport,
       windowVars, dialogVars
<1>3. CASE Bar
  BY <1>3, DialogsStay, NoneKept DEF Bar, BarPress, BarMotion, BarRelease, windowVars, dialogVars,
     DialogInv, MainType
<1>4. CASE Menu
  BY <1>4, MenuNext
<1>5. CASE Browser
  BY <1>5, DialogsStay, NoneKept DEF Browser, BrowserPicks, BrowserCancels, windowVars, DialogInv,
     MainType
<1>6. CASE Drag
  BY <1>0, <1>6 DEF Drag, DragOver, DragAway, DragDrop, HandleEnter, HandleLeave, HandleDrop, Convert,
     SourceAnswers, getDragData, undragged, windowVars, dialogVars
<1>7. CASE Remote
  <2>1. CASE xapi_soverride
    BY <2>1, MasksAssumption, DialogsStay DEF xapi_soverride, windowVars, dialogVars, DialogInv,
       MainType
  <2>2. CASE xapi_quit
    BY <2>2, DialogsStay DEF xapi_quit, windowVars, dialogVars, DialogInv, MainType
  <2>3. CASE RemoteSync
    <3>1. connected' \in SUBSET Clocks
      BY <2>3 DEF RemoteSync, Synced, Clocks, DialogInv, MainType
    <3> QED
      BY <2>3, <3>1, DialogsStay DEF RemoteSync, windowVars, dialogVars, DialogInv, MainType
  <2> QED
    BY <1>0, <1>7, <2>1, <2>2, <2>3, WindowNext DEF Remote, RemoteOsd, xapi_open, xapi_close,
       windowVars, dialogVars
<1>8. CASE UNCHANGED vars
  BY <1>0, <1>8 DEF vars, windowVars, dialogVars
<1> QED
  BY <1>1, <1>2, <1>3, <1>4, <1>5, <1>6, <1>7, <1>8 DEF Next

---------------------------------------------------------------------------
(* OSD_mode, by the steps.                                                 *)

LEMMA OsdNext ==
  ASSUME OsdInv, DragInv, DialogInv, [Next]_vars
  PROVE  OsdInv'
<1> DEFINE Kept == UNCHANGED osdVars
<1>0. Kept => OsdInv'
  BY BlocksKeepOne
<1>1. CASE IndexLoad
  BY <1>1 DEF IndexLoad, OsdInv, IndexType, Single
<1>2. CASE IndexStore
  <2>1. index.at \in Updates => Single(Update(index, index.loaded))
    BY <1>2, OthersKeepOne DEF IndexStore, OsdInv, Update, Updates
  <2>2. index.at \in Updates => AfterUpdate(index) \in IndexType /\ ~AfterUpdate(index).stale
    BY AfterUpdateIsFresh DEF OsdInv
  <2> QED
    BY <1>2, <2>1, <2>2 DEF IndexStore, OsdInv
<1>3. CASE IndexScan
  BY <1>3 DEF IndexScan, OsdInv, IndexType, Updates
<1>4. CASE DisplayNoFile
  BY <1>4, OthersKeepOne DEF DisplayNoFile, OsdInv
<1>5. CASE Keys
  <2>1. CASE KeyOsd
    BY <1>5, <2>1, BlocksKeepOne, UiOsdKeepsOne DEF KeyOsd, OsdInv
  <2>2. CASE KeyEqualiser
    BY <2>2, BlocksKeepOne, OthersKeepOne DEF KeyEqualiser, OsdInv
  <2>3. CASE KeyUnload
    BY <2>3, BlocksKeepOne DEF KeyUnload
  <2> QED
    BY <1>5, <1>0, <2>1, <2>2, <2>3 DEF Keys, Escape, CloseButton, KeyOpen, KeyOffset, KeyTransport
<1>6. CASE Bar
  BY <1>6, <1>0 DEF Bar, BarPress, BarMotion, BarRelease
<1>7. CASE Menu
  <2>1. CASE ClickUnload
    BY <2>1, <1>0, BlocksKeepOne DEF ClickUnload
  <2>2. CASE ClickOsd
    <3>1. menu.item \in MenuOps
      BY <2>2, ItemsAre DEF ClickOsd, Click, DialogInv, MenuKept
    <3> QED
      BY <2>2, <3>1, BlocksKeepOne, UiOsdKeepsOne DEF ClickOsd, OsdInv
  <2> QED
    BY <1>7, <1>0, <2>1, <2>2 DEF Menu, RightClick, HoverHeading, HoverItem, ClickAway, ClickOpen,
       ClickQuit, ClickSync, ClickOffset, ClickTransport
<1>8. CASE Browser
  BY <1>8, <1>0, BlocksKeepOne DEF Browser, BrowserPicks, BrowserCancels
<1>9. CASE Drag
  <2>1. CASE getDragData
    <3>1. Readable => dnd.data.file \in Sources
      BY DEF DragInv, MayLoad, Readable
    <3> QED
      BY <2>1, <3>1, BlocksKeepOne DEF getDragData
  <2> QED
    BY <1>9, <1>0, <2>1 DEF Drag, DragOver, DragAway, DragDrop, HandleEnter, HandleLeave,
       HandleDrop, Convert, SourceAnswers, undragged
<1>10. CASE Remote
  <2>1. CASE RemoteOsd
    BY <2>1, BlocksKeepOne, OthersKeepOne DEF RemoteOsd, OsdInv
  <2>2. CASE xapi_open \/ xapi_close
    BY <2>2, BlocksKeepOne DEF xapi_open, xapi_close
  <2>3. CASE xapi_set_videomode
    BY <2>3, <1>0, BlocksKeepOne DEF xapi_set_videomode, OsdInv
  <2> QED
    BY <1>10, <1>0, <2>1, <2>2, <2>3 DEF Remote, xapi_soverride, xapi_quit, RemoteSync,
       xapi_close_window, Minimise
<1>11. CASE UNCHANGED vars
  BY <1>11, <1>0 DEF vars
<1> QED
  BY <1>1, <1>2, <1>3, <1>4, <1>5, <1>6, <1>7, <1>8, <1>9, <1>10, <1>11 DEF Next, Index

---------------------------------------------------------------------------
(* What the user does, and what the remote control has disallowed.         *)

LEMMA OverrideKept ==
  /\ OverrideHolds /\ UNCHANGED <<did, override>> => OverrideHolds'
  /\ DidNothing => OverrideHolds'
  /\ \A what : Did(what, "remote") => OverrideHolds'
  /\ \A what, by, since : DidSince(what, by, since) /\ by = "remote" => OverrideHolds'
<1>1. OverrideHolds /\ UNCHANGED <<did, override>> => OverrideHolds'
  BY DEF OverrideHolds, Forbids
<1>2. DidNothing => OverrideHolds'
  BY DEF DidNothing, Nothing, OverrideHolds, Forbids
<1>3. \A what, by, since : DidSince(what, by, since) /\ by = "remote" => OverrideHolds'
  BY DEF DidSince, OverrideHolds
<1>4. \A what : Did(what, "remote") => OverrideHolds'
  BY DEF Did, OverrideHolds
<1> QED
  BY <1>1, <1>2, <1>3, <1>4

LEMMA AllowedSteps ==
  ASSUME NEW what, NEW by, Did(what, by), UNCHANGED override,
         what = "escape" => ~Disallowed("QUIT_KEY"),
         what = "quit" => ~Disallowed("QUIT_WMG"),
         what \in {"load", "unload", "browse"} => ~Disallowed("LOADFILE"),
         what = "offset" => ~Disallowed("AVOFFSET"),
         what = "transport" => ~Disallowed("JCONTROL"),
         what \in {"sync", "seek"} => ~Disallowed("MENUSYNC")
  PROVE  OverrideHolds'
<1>1. did'.what = what /\ did'.since = override /\ override' = override
  BY DEF Did
<1> QED
  BY <1>1 DEF OverrideHolds, Forbids, Disallowed

LEMMA WhoDid ==
  /\ DidNothing => did'.by # "drop"
  /\ \A what, by : Did(what, by) => did'.by = by
  /\ \A what, by, since : DidSince(what, by, since) => did'.by = by
  BY DEF DidNothing, Nothing, Did, DidSince

LEMMA OverrideNext ==
  ASSUME OverrideHolds, DialogInv, [Next]_vars
  PROVE  OverrideHolds'
<1>1. CASE Index \/ DisplayNoFile
  BY <1>1, OverrideKept DEF Index, IndexLoad, IndexStore, IndexScan, DisplayNoFile
<1>2. CASE Keys
  <2>1. CASE KeyOsd \/ KeyEqualiser
    BY <2>1, AllowedSteps DEF KeyOsd, KeyEqualiser
  <2>2. CASE Escape
    BY <2>2, AllowedSteps DEF Escape
  <2>3. CASE CloseButton
    BY <2>3, AllowedSteps DEF CloseButton
  <2>4. CASE KeyOpen \/ KeyUnload
    BY <2>4, AllowedSteps DEF KeyOpen, KeyUnload
  <2>5. CASE KeyOffset
    BY <2>5, AllowedSteps DEF KeyOffset, MayChangeOffset
  <2>6. CASE KeyTransport
    BY <2>6, AllowedSteps DEF KeyTransport
  <2> QED
    BY <1>2, <2>1, <2>2, <2>3, <2>4, <2>5, <2>6 DEF Keys
<1>3. CASE Bar
  BY <1>3, OverrideKept, AllowedSteps DEF Bar, BarPress, BarMotion, BarRelease, OnBar
<1>4. CASE Menu
  <2>1. CASE ClickQuit \/ ClickTransport
    <3>1. (ClickQuit => "QUIT_WMG" \notin menu.since)
          /\ (ClickTransport => "JCONTROL" \notin menu.since)
      BY ItemsAre DEF ClickQuit, ClickTransport, Click, DialogInv, MenuKept
    <3> QED
      BY <2>1, <3>1, OverrideKept DEF ClickQuit, ClickTransport, DidSince, OverrideHolds, Forbids
  <2>2. CASE ClickOpen \/ ClickUnload \/ ClickSync \/ ClickOsd \/ ClickOffset
    BY <2>2, OverrideKept, AllowedSteps DEF ClickOpen, ClickUnload, ClickSync, ClickOsd,
       ClickOffset, MayChangeOffset
  <2> QED
    BY <1>4, <2>1, <2>2, OverrideKept DEF Menu, RightClick, HoverHeading, HoverItem, ClickAway
<1>5. CASE Browser
  BY <1>5, OverrideKept DEF Browser, BrowserPicks, BrowserCancels, BrowserOpen, DialogInv,
     BrowserKept, OverrideHolds, Forbids
<1>6. CASE Drag
  BY <1>6, OverrideKept DEF Drag, DragOver, DragAway, DragDrop, HandleEnter, HandleLeave,
     HandleDrop, Convert, SourceAnswers, getDragData, OverrideHolds, Forbids, Disallowed
<1>7. CASE Remote
  BY <1>7, OverrideKept DEF Remote, RemoteOsd, xapi_soverride, xapi_open, xapi_close, xapi_quit,
     RemoteSync, xapi_close_window, xapi_set_videomode, Minimise
<1>8. CASE UNCHANGED vars
  BY <1>8, OverrideKept DEF vars
<1> QED
  BY <1>1, <1>2, <1>3, <1>4, <1>5, <1>6, <1>7, <1>8 DEF Next

LEMMA DropsNext ==
  ASSUME PassingDragsLoadNothing, DragInv, [Next]_vars
  PROVE  PassingDragsLoadNothing'
<1>1. CASE getDragData
  <2>1. Readable => dnd.data.file \in dropped \cup late
    BY DEF Readable, DragInv, MayLoad
  <2> QED
    BY <1>1, <2>1 DEF getDragData, DidNothing, Nothing, dragHistory, PassingDragsLoadNothing
<1>2. CASE UNCHANGED vars
  BY <1>2 DEF vars, dndVars, dragHistory, PassingDragsLoadNothing
<1>3. CASE Next /\ ~getDragData
  <2>1. did'.by # "drop"
    <3>1. CASE Index \/ DisplayNoFile \/ Bar
      BY <3>1, WhoDid DEF Index, IndexLoad, IndexStore, IndexScan, DisplayNoFile, Bar, BarPress,
         BarMotion, BarRelease
    <3>2. CASE Keys
      BY <3>2, WhoDid DEF Keys, KeyOsd, KeyEqualiser, Escape, CloseButton, KeyOpen, KeyUnload,
         KeyOffset, KeyTransport
    <3>3. CASE Menu
      BY <3>3, WhoDid DEF Menu, RightClick, HoverHeading, HoverItem, ClickAway, ClickOpen,
         ClickUnload, ClickQuit, ClickSync, ClickOsd, ClickOffset, ClickTransport
    <3>4. CASE Drag
      BY <1>3, <3>4, WhoDid DEF Drag, DragOver, DragAway, DragDrop, HandleEnter, HandleLeave,
         HandleDrop, Convert, SourceAnswers
    <3>5. CASE Remote
      BY <3>5, WhoDid DEF Remote, RemoteOsd, xapi_soverride, xapi_open, xapi_close, xapi_quit,
         RemoteSync, xapi_close_window, xapi_set_videomode, Minimise
    <3>6. CASE Browser
      BY <3>6, WhoDid DEF Browser, BrowserPicks, BrowserCancels
    <3> QED
      BY <1>3, <3>1, <3>2, <3>3, <3>4, <3>5, <3>6 DEF Next
  <2> QED
    BY <2>1 DEF PassingDragsLoadNothing
<1> QED
  BY <1>1, <1>2, <1>3

---------------------------------------------------------------------------
(* Theorems.                                                               *)

Inv == OsdInv /\ DragInv /\ DialogInv /\ OverrideHolds /\ PassingDragsLoadNothing

LEMMA InvInit ==
  ASSUME Init
  PROVE  Inv
<1>1. OsdInv
  BY DEF Init, OsdInv, Single, Bits, Boxes, NoIndex, IndexType, Updates
<1>2. DragInv
  <2>1. dnd \in DndType /\ dnd.data.type = None
    BY DEF Init, DndType, NoData
  <2>2. events = <<>> /\ asked = <<>> /\ owner = None /\ drag = None /\ dropped = {}
        /\ late = {} /\ dnd.sent = None
    BY DEF Init
  <2> QED
    BY <2>1, <2>2 DEF DragInv
<1>3. DialogInv
  <2>1. PICK m \in Modes : window = [number |-> 1, mode |-> m, open |-> TRUE]
    BY DEF Init
  <2>2. MainType
    <3>1. window \in WindowType
      BY <2>1 DEF WindowType
    <3> QED
      BY <3>1 DEF Init, MainType
  <2> QED
    BY <2>2 DEF Init, DialogInv, MenuKept, BrowserKept, NoMenu, NoBrowser, MenuType, BrowserType,
       AtItsWindow
<1>4. OverrideHolds /\ PassingDragsLoadNothing
  BY DEF Init, Nothing, OverrideHolds, Forbids, PassingDragsLoadNothing
<1> QED
  BY <1>1, <1>2, <1>3, <1>4 DEF Inv

LEMMA InvNext ==
  ASSUME Inv, [Next]_vars
  PROVE  Inv'
  BY OsdNext, DragNext, DialogNext, OverrideNext, DropsNext DEF Inv

LEMMA InvImplies ==
  ASSUME Inv
  PROVE  TypeOK /\ TheBoxIsDrawn /\ DialogsHaveTheirWindow
<1>1. TypeOK
  BY DEF Inv, OsdInv, Single, IndexType, DragInv, DndType, DialogInv, MainType, MenuKept,
     BrowserKept, WindowType, MenuType, BrowserType, TypeOK
<1>2. TheBoxIsDrawn
  BY OneBoxIsDrawn DEF Inv, OsdInv, TheBoxIsDrawn
<1>3. DialogsHaveTheirWindow
  BY DEF Inv, DialogInv, MenuKept, BrowserKept, AtItsWindow, DialogsHaveTheirWindow
<1> QED
  BY <1>1, <1>2, <1>3

\* Inv is an invariant: at most one box is switched on, in OSD_mode and in what
\* the index thread has loaded of it; data comes from sources whose file was
\* dropped, or that began while a request was on its way; dialogs are at the window that is open; and what was allowed when
\* they opened is still what they hold.
THEOREM Invariant == Spec => []Inv
  BY InvInit, InvNext, PTL DEF Spec

\* Every variable keeps its type.
THEOREM TypeCorrect == Spec => []TypeOK
<1>1. Inv => TypeOK
  BY InvImplies
<1> QED
  BY <1>1, Invariant, PTL

\* Whatever keys, menu and remote control do while the index thread updates
\* OSD_mode without a lock, the box that is switched on is the one that is seen.
THEOREM BoxIsSeen == Spec => []TheBoxIsDrawn
<1>1. Inv => TheBoxIsDrawn
  BY InvImplies
<1> QED
  BY <1>1, Invariant, PTL

\* A menu or a file dialog belongs to the window that is open, but for ImLib2's.
THEOREM DialogsOwned == Spec => []DialogsHaveTheirWindow
<1>1. Inv => DialogsHaveTheirWindow
  BY InvImplies
<1> QED
  BY <1>1, Invariant, PTL

\* For every set of override masks, the user does nothing that is disallowed.
THEOREM OverrideIsKept == Spec => []OverrideHolds
<1>1. Inv => OverrideHolds
  BY DEF Inv
<1> QED
  BY <1>1, Invariant, PTL

\* For any number of sources and types, a drag that only passes is loaded only if
\* it begins between the check of the owner and the request's arrival.
THEOREM DropsOnly == Spec => []PassingDragsLoadNothing
<1>1. Inv => PassingDragsLoadNothing
  BY DEF Inv
<1> QED
  BY <1>1, Invariant, PTL

-----------------------------------------------------------------------------
(* The file dialog: sorting.                                               *)

\* f orders S: f[y] are those that come before y.
Orders(f, S) ==
  /\ f \in [S -> SUBSET S]
  /\ \A x \in S : x \notin f[x]
  /\ \A x, y \in S : x # y => x \in f[y] \/ y \in f[x]
  /\ \A x, y, z \in S : x \in f[y] /\ y \in f[z] => x \in f[z]

\* Who comes earlier has fewer before it.
LEMMA RanksRise ==
  ASSUME NEW S, IsFiniteSet(S), NEW f, Orders(f, S)
  PROVE  /\ \A x \in S : Cardinality(f[x]) \in 0 .. Cardinality(S) - 1
         /\ \A x, y \in S : x \in f[y] => Cardinality(f[x]) < Cardinality(f[y])
  <1>1. Cardinality(S) \in Nat
    BY FS_CardinalityType
  <1>2. ASSUME NEW x \in S
        PROVE  IsFiniteSet(f[x]) /\ Cardinality(f[x]) \in Nat
    <2>1. f[x] \in SUBSET S
      BY DEF Orders
    <2> QED BY <2>1, FS_Subset, FS_CardinalityType
  <1>3. ASSUME NEW x \in S
        PROVE  Cardinality(f[x]) < Cardinality(S)
    <2>1. f[x] \in SUBSET S /\ f[x] # S
      BY DEF Orders
    <2>2. Cardinality(f[x]) <= Cardinality(S) /\ (Cardinality(S) = Cardinality(f[x]) => S = f[x])
      BY <2>1, FS_Subset
    <2> QED BY <2>1, <2>2, <1>1, <1>2
  <1>4. ASSUME NEW x \in S, NEW y \in S, x \in f[y]
        PROVE  Cardinality(f[x]) < Cardinality(f[y])
    <2>1. f[x] \in SUBSET f[y] /\ f[x] # f[y]
      BY <1>4 DEF Orders
    <2>2. /\ Cardinality(f[x]) <= Cardinality(f[y])
          /\ Cardinality(f[y]) = Cardinality(f[x]) => f[y] = f[x]
      BY <2>1, <1>2, FS_Subset
    <2> QED BY <2>1, <2>2, <1>2
  <1> QED BY <1>1, <1>2, <1>3, <1>4

\* Every element is at one place of InOrder(f), behind those before it.
LEMMA InOrderIsRight ==
  ASSUME NEW S, IsFiniteSet(S), NEW f, Orders(f, S)
  PROVE  /\ InOrder(f) \in [1 .. Cardinality(S) -> S]
         /\ \A m, n \in 1 .. Cardinality(S) : m < n => InOrder(f)[m] \in f[InOrder(f)[n]]
         /\ \A m, n \in 1 .. Cardinality(S) : m # n => InOrder(f)[m] # InOrder(f)[n]
  <1> DEFINE N == Cardinality(S)
             rank == [x \in S |-> Cardinality(f[x]) + 1]
  <1>1. N \in Nat /\ IsFiniteSet(1 .. N) /\ Cardinality(1 .. N) = N
    BY FS_CardinalityType, FS_Interval
  <1>2. rank \in Injection(S, 1 .. N)
    <2>1. rank \in [S -> 1 .. N]
      BY RanksRise, <1>1
    <2>2. ASSUME NEW x \in S, NEW y \in S, rank[x] = rank[y] PROVE x = y
      <3>1. Cardinality(f[x]) = Cardinality(f[y]) /\ Cardinality(f[x]) \in Nat
        BY <2>2, RanksRise, <1>1
      <3> QED BY <3>1, RanksRise DEF Orders
    <2> HIDE DEF rank
    <2> QED BY <2>1, <2>2 DEF Injection, IsInjective
  <1>3. rank \in Surjection(S, 1 .. N)
    BY <1>1, <1>2, FS_Injection
  <1>4. \A n \in 1 .. N : \E x \in S : Cardinality(f[x]) = n - 1
    <2> TAKE n \in 1 .. N
    <2>1. PICK x \in S : rank[x] = n
      BY <1>3 DEF Surjection
    <2> QED BY <2>1, RanksRise, <1>1
  <1>5. InOrder(f) = [n \in 1 .. N |-> CHOOSE x \in S : Cardinality(f[x]) = n - 1]
    BY DEF InOrder, Orders
  <1>6. \A n \in 1 .. N : InOrder(f)[n] \in S /\ Cardinality(f[InOrder(f)[n]]) = n - 1
    BY <1>4, <1>5
  <1>7. ASSUME NEW m \in 1 .. N, NEW n \in 1 .. N, m < n
        PROVE  InOrder(f)[m] \in f[InOrder(f)[n]]
    <2> DEFINE x == InOrder(f)[m]
               y == InOrder(f)[n]
    <2>1. x \in S /\ y \in S /\ Cardinality(f[x]) = m - 1 /\ Cardinality(f[y]) = n - 1
      BY <1>6
    <2> HIDE DEF x, y
    <2>2. x # y
      BY <2>1, <1>7, <1>1
    <2>3. ~ (y \in f[x])
      BY <2>1, <1>7, <1>1, RanksRise
    <2>4. x \in f[y]
      BY <2>1, <2>2, <2>3 DEF Orders
    <2> QED BY <2>4 DEF x, y
  <1>8. ASSUME NEW m \in 1 .. N, NEW n \in 1 .. N, m # n
        PROVE  InOrder(f)[m] # InOrder(f)[n]
    BY <1>6, <1>8, <1>1
  <1>9. InOrder(f) \in [1 .. N -> S]
    BY <1>5, <1>6
  <1> HIDE DEF N
  <1> QED BY <1>7, <1>8, <1>9 DEF N

\* A sequence whose places are taken in another order.
LEMMA Permuted ==
  ASSUME NEW T, NEW s \in Seq(T), NEW f, Orders(f, DOMAIN s)
  PROVE  LET o == InOrder(f)
             t == [n \in DOMAIN s |-> s[o[n]]]
         IN  /\ t \in Seq(T) /\ Len(t) = Len(s) /\ DOMAIN t = DOMAIN s
             /\ \A n \in DOMAIN s : o[n] \in DOMAIN s /\ t[n] = s[o[n]]
             /\ \A m, n \in DOMAIN s : m < n => o[m] # o[n] /\ o[m] \in f[o[n]]
  <1> DEFINE o == InOrder(f)
             t == [n \in DOMAIN s |-> s[o[n]]]
  <1>1. DOMAIN s = 1 .. Len(s) /\ Len(s) \in Nat
    OBVIOUS
  <1>2. IsFiniteSet(DOMAIN s) /\ Cardinality(DOMAIN s) = Len(s)
    BY <1>1, FS_Interval
  <1>3. /\ o \in [DOMAIN s -> DOMAIN s]
        /\ \A m, n \in DOMAIN s : m < n => o[m] \in f[o[n]]
        /\ \A m, n \in DOMAIN s : m # n => o[m] # o[n]
    BY <1>1, <1>2, InOrderIsRight
  <1> HIDE DEF o
  <1>4. t \in Seq(T) /\ Len(t) = Len(s) /\ DOMAIN t = DOMAIN s
    BY <1>1, <1>3
  <1>5. \A m, n \in DOMAIN s : m < n => o[m] # o[n] /\ o[m] \in f[o[n]]
    BY <1>1, <1>3
  <1>6. \A n \in DOMAIN s : o[n] \in DOMAIN s /\ t[n] = s[o[n]]
    BY <1>3
  <1> QED BY <1>4, <1>5, <1>6 DEF o

-----------------------------------------------------------------------------
(* The recently used files.                                                *)

Uses == [path : Paths, atime : 0..MaxTime]

\* Every file is there once, the latest first.
OnceInOrder(r) ==
  \A i, j \in DOMAIN r : i < j => r[i].path # r[j].path /\ r[i].atime >= r[j].atime

RecentList(r) == r \in Seq(Uses) /\ Len(r) <= MaxRecent /\ OnceInOrder(r)

\* cmp_recent sorts what has each file once into such a list.
LEMMA SortedByUse ==
  ASSUME NEW s \in Seq(Uses),
         \A i, j \in DOMAIN s : i # j => s[i].path # s[j].path
  PROVE  /\ StableSort(s, LaterUsed) \in Seq(Uses)
         /\ Len(StableSort(s, LaterUsed)) = Len(s)
         /\ OnceInOrder(StableSort(s, LaterUsed))
  <1> DEFINE f == [i \in DOMAIN s |-> {j \in DOMAIN s : \/ s[j].atime > s[i].atime
                                                      \/ (~(s[i].atime > s[j].atime) /\ j < i)}]
             o == InOrder(f)
             t == [n \in DOMAIN s |-> s[o[n]]]
  <1>1. DOMAIN s = 1 .. Len(s) /\ Len(s) \in Nat
        /\ \A i \in DOMAIN s : s[i].atime \in Int
    <2>1. DOMAIN s = 1 .. Len(s) /\ Len(s) \in Nat /\ \A i \in DOMAIN s : s[i] \in Uses
      OBVIOUS
    <2>2. \A u \in Uses : u.atime \in Int
      BY BoundsAssumption DEF Uses
    <2> QED BY <2>1, <2>2
  <1>2. Orders(f, DOMAIN s)
    <2>1. f \in [DOMAIN s -> SUBSET DOMAIN s] /\ \A x \in DOMAIN s : x \notin f[x]
      BY <1>1
    <2>2. \A x, y \in DOMAIN s : x # y => x \in f[y] \/ y \in f[x]
      BY <1>1
    <2>3. \A x, y, z \in DOMAIN s : x \in f[y] /\ y \in f[z] => x \in f[z]
      BY <1>1
    <2> QED BY <2>1, <2>2, <2>3 DEF Orders
  <1>3. StableSort(s, LaterUsed) = t
    BY DEF StableSort, LaterUsed
  <1>4. /\ t \in Seq(Uses) /\ Len(t) = Len(s) /\ DOMAIN t = DOMAIN s
        /\ \A n \in DOMAIN s : o[n] \in DOMAIN s /\ t[n] = s[o[n]]
        /\ \A m, n \in DOMAIN s : m < n => o[m] # o[n] /\ o[m] \in f[o[n]]
    <2> HIDE DEF f
    <2> QED BY <1>2, Permuted
  <1>5. \A x, y \in DOMAIN s : x \in f[y] => s[x].atime >= s[y].atime
    BY <1>1
  <1> HIDE DEF t, o, f
  <1>6. OnceInOrder(t)
    BY <1>4, <1>5, <1>1 DEF OnceInOrder
  <1> QED BY <1>3, <1>4, <1>6

LEMMA AddedIsList ==
  ASSUME NEW r, RecentList(r), NEW p \in Paths, NEW t \in 0 .. MaxTime
  PROVE  RecentList(Added(r, p, t))
  <1> DEFINE known == {i \in DOMAIN r : r[i].path = p}
             touched == [i \in DOMAIN r |-> IF i \in known /\ r[i].atime < t
                                            THEN [r[i] EXCEPT !.atime = t] ELSE r[i]]
             l == IF known # {} THEN touched ELSE Append(r, [path |-> p, atime |-> t])
             sorted == StableSort(l, LaterUsed)
  <1>1. r \in Seq(Uses) /\ DOMAIN r = 1 .. Len(r) /\ Len(r) \in Nat
    BY DEF RecentList
  <1>2. /\ touched \in Seq(Uses) /\ DOMAIN touched = DOMAIN r
        /\ \A i \in DOMAIN r : touched[i].path = r[i].path
    <2>0. \A u \in Uses : /\ [u EXCEPT !.atime = t] \in Uses
                          /\ [u EXCEPT !.atime = t].path = u.path
      BY DEF Uses
    <2>1. \A i \in DOMAIN r : touched[i] \in Uses /\ touched[i].path = r[i].path
      <3>1. \A i \in DOMAIN r : r[i] \in Uses
        BY <1>1
      <3> QED BY <2>0, <3>1
    <2>2. touched \in [1 .. Len(r) -> Uses]
      BY <2>1, <1>1
    <2> HIDE DEF touched
    <2> QED BY <2>1, <2>2, <1>1
  <1>3. \A i, j \in DOMAIN r : i # j => r[i].path # r[j].path
    BY <1>1 DEF RecentList, OnceInOrder
  <1> HIDE DEF touched
  <1>4. l \in Seq(Uses) /\ \A i, j \in DOMAIN l : i # j => l[i].path # l[j].path
    <2>1. CASE known # {}
      BY <2>1, <1>2, <1>3
    <2>2. CASE known = {}
      <3> DEFINE u == [path |-> p, atime |-> t]
                 q == Append(r, u)
      <3>1. u \in Uses /\ u.path = p
        BY DEF Uses
      <3> HIDE DEF u
      <3>2. /\ q \in Seq(Uses) /\ DOMAIN q = 1 .. Len(r) + 1
            /\ \A i \in DOMAIN r : q[i] = r[i]
            /\ q[Len(r) + 1] = u
        BY <1>1, <3>1
      <3>3. \A i \in DOMAIN r : r[i].path # p
        BY <2>2
      <3> HIDE DEF q
      <3>4. \A i, j \in DOMAIN q : i # j => q[i].path # q[j].path
        BY <1>1, <1>3, <3>1, <3>2, <3>3
      <3>5. l = q
        BY <2>2 DEF q, u
      <3> QED BY <3>2, <3>4, <3>5
    <2> QED BY <2>1, <2>2
  <1> HIDE DEF l
  <1>5. sorted \in Seq(Uses) /\ OnceInOrder(sorted)
    BY <1>4, SortedByUse
  <1>6. Added(r, p, t) = IF Len(sorted) > MaxRecent THEN SubSeq(sorted, 1, MaxRecent) ELSE sorted
    BY DEF Added, l, touched
  <1> HIDE DEF sorted
  <1>7. CASE Len(sorted) > MaxRecent
    <2> DEFINE cut == SubSeq(sorted, 1, MaxRecent)
    <2>1. /\ cut \in Seq(Uses) /\ Len(cut) = MaxRecent /\ DOMAIN cut = 1 .. MaxRecent
          /\ \A i \in 1 .. MaxRecent : cut[i] = sorted[i] /\ i \in DOMAIN sorted
      BY <1>5, <1>7, BoundsAssumption
    <2> HIDE DEF cut
    <2>2. OnceInOrder(cut)
      BY <1>5, <2>1 DEF OnceInOrder
    <2> QED BY <1>6, <1>7, <2>1, <2>2, BoundsAssumption DEF RecentList, cut
  <1>8. CASE ~(Len(sorted) > MaxRecent)
    BY <1>5, <1>6, <1>8, BoundsAssumption DEF RecentList
  <1> QED BY <1>7, <1>8

-----------------------------------------------------------------------------
(* Induction over the natural numbers: the lines that are reloaded.        *)

Less == OpToRel(<, Nat)

\* Every set of natural numbers that is not empty has a least element.
LEMMA LeastElement ==
  ASSUME NEW T, T \subseteq Nat, T # {}
  PROVE  \E x \in T : \A y \in T : x <= y
  <1>1. IsWellFoundedOn(Less, Nat)
    BY NatLessThanWellFounded DEF Less
  <1>2. \A x, y \in Nat : x < y => <<x, y>> \in Less
    BY DEF Less, OpToRel
  <1>3. PICK x \in T : \A y \in T : ~ (<<y, x>> \in Less)
    BY <1>1, WFMin
  <1>4. \A y \in T : ~ (y < x)
    BY <1>2, <1>3
  <1>5. \A y \in T : x <= y
    BY <1>4, <1>3
  <1> QED BY <1>3, <1>5

LEMMA Induction ==
  ASSUME NEW S, 0 \in S, \A n \in Nat : n \in S => n + 1 \in S
  PROVE  Nat \subseteq S
  <1> SUFFICES ASSUME Nat \ S # {} PROVE FALSE
    OBVIOUS
  <1>1. PICK x \in Nat \ S : \A y \in Nat \ S : x <= y
    BY LeastElement
  <1> QED BY <1>1

\* What x_fib_load_recent makes of the list after one more line.
AfterLine(list, f, there) ==
  IF ~SurvivesFile(f.path) \/ f.path \notin there \/ TooOld(f.atime)
  THEN list ELSE Added(list, f.path, f.atime)

IsReload(g, r, there, m) ==
  g = [n \in 0 .. m |-> IF n = 0 THEN <<>> ELSE AfterLine(g[n - 1], r[n], there)]

LEMMA ReloadExists ==
  ASSUME NEW r, NEW there
  PROVE  \A m \in Nat : \E g : IsReload(g, r, there, m)
  <1> DEFINE S == {m \in Nat : \E g : IsReload(g, r, there, m)}
  <1>1. 0 \in S
    <2> DEFINE g == [n \in 0 .. 0 |-> <<>>]
    <2>1. g = [n \in 0 .. 0 |-> IF n = 0 THEN <<>> ELSE AfterLine(g[n - 1], r[n], there)]
      OBVIOUS
    <2> QED BY <2>1 DEF IsReload
  <1>2. ASSUME NEW m \in Nat, m \in S PROVE m + 1 \in S
    <2>1. PICK g : IsReload(g, r, there, m)
      BY <1>2
    <2> DEFINE h == [n \in 0 .. m + 1 |-> IF n <= m THEN g[n] ELSE AfterLine(g[m], r[m + 1], there)]
               k == [n \in 0 .. m + 1 |-> IF n = 0 THEN <<>> ELSE AfterLine(h[n - 1], r[n], there)]
    <2>2. \A n \in 0 .. m : g[n] = IF n = 0 THEN <<>> ELSE AfterLine(g[n - 1], r[n], there)
      BY <2>1 DEF IsReload
    <2>3. \A n \in 0 .. m + 1 : h[n] = k[n]
      <3> TAKE n \in 0 .. m + 1
      <3>1. CASE n = 0
        BY <2>2, <3>1
      <3>2. CASE n # 0 /\ n <= m
        <4>1. h[n - 1] = g[n - 1] /\ h[n] = g[n]
          BY <3>2
        <4> QED BY <4>1, <2>2, <3>2
      <3>3. CASE n = m + 1
        <4>1. h[n - 1] = g[m] /\ r[n] = r[m + 1] /\ h[n] = AfterLine(g[m], r[m + 1], there)
          BY <3>3
        <4> QED BY <4>1, <3>3
      <3> QED BY <3>1, <3>2, <3>3
    <2>4. h = k
      BY <2>3
    <2>5. IsReload(h, r, there, m + 1)
      BY <2>4 DEF IsReload
    <2> QED BY <2>5
  <1> HIDE DEF S
  <1>3. Nat \subseteq S
    BY <1>1, <1>2, Induction
  <1> QED BY <1>3 DEF S

\* Saving the list and loading it again gives a list.
LEMMA ReloadedIsList ==
  ASSUME NEW r, RecentList(r), NEW there
  PROVE  RecentList(Reloaded(r, there))
  <1>1. Len(r) \in Nat /\ r \in Seq(Uses)
    BY DEF RecentList
  <1> DEFINE g == CHOOSE g : IsReload(g, r, there, Len(r))
             S == {n \in Nat : n <= Len(r) => RecentList(g[n])}
  <1>2. IsReload(g, r, there, Len(r))
    <2>1. \E h : IsReload(h, r, there, Len(r))
      BY <1>1, ReloadExists
    <2> QED BY <2>1, Zenon
  <1>3. Reloaded(r, there) = g[Len(r)]
    BY DEF Reloaded, IsReload, AfterLine
  <1> HIDE DEF g
  <1>4. \A n \in 0 .. Len(r) : g[n] = IF n = 0 THEN <<>> ELSE AfterLine(g[n - 1], r[n], there)
    BY <1>2 DEF IsReload
  <1>5. 0 \in S
    <2>1. g[0] = <<>>
      BY <1>4, <1>1
    <2>2. RecentList(<<>>)
      BY BoundsAssumption DEF RecentList, OnceInOrder
    <2> QED BY <2>1, <2>2
  <1>6. ASSUME NEW n \in Nat, n \in S PROVE n + 1 \in S
    <2> SUFFICES ASSUME n + 1 <= Len(r) PROVE RecentList(g[n + 1])
      OBVIOUS
    <2>1. RecentList(g[n])
      BY <1>6, <1>1
    <2>2. g[n + 1] = AfterLine(g[n], r[n + 1], there)
      <3>1. n + 1 \in 0 .. Len(r) /\ n + 1 # 0 /\ (n + 1) - 1 = n
        BY <1>1
      <3> QED BY <3>1, <1>4
    <2>3. r[n + 1].path \in Paths /\ r[n + 1].atime \in 0 .. MaxTime
      <3>1. r[n + 1] \in Uses
        BY <1>1
      <3>2. \A u \in Uses : u.path \in Paths /\ u.atime \in 0 .. MaxTime
        BY DEF Uses
      <3> QED BY <3>1, <3>2
    <2> QED BY <2>1, <2>2, <2>3, AddedIsList DEF AfterLine
  <1> HIDE DEF S
  <1>7. Nat \subseteq S
    BY <1>5, <1>6, Induction
  <1>8. Len(r) \in S
    BY <1>1, <1>7
  <1> QED BY <1>1, <1>3, <1>8 DEF S

-----------------------------------------------------------------------------
(* The dialog.                                                             *)

LineType ==
  [dir : Seq(Nat), name : Nat, isdir : BOOLEAN, size : Nat, time : Nat, rfp : Nat, on : BOOLEAN]

\* The type of fib, for any set of paths and of lists.
FibRecord(T, S) ==
  [shown : BOOLEAN, mapped : BOOLEAN, aborted : BOOLEAN, status : -2..1,
   cur : Dirs \cup {Recents}, chosen : T, list : S, fsel : Int,
   scrl : Int, llen : Rows, bar : BOOLEAN, drag : BOOLEAN, dblclk : BOOLEAN, sort : 0..5,
   filter : BOOLEAN, hidden : BOOLEAN]

FibType == FibRecord(Seq(Nat), Seq(LineType))

\* A line of the recent files points to what it shows, any other lies in cur.
LineRight(cur, l) ==
  IF cur = Recents
  THEN l.rfp \in DOMAIN recent /\ recent[l.rfp].path = Append(l.dir, l.name)
  ELSE l.rfp = 0 /\ l.dir = cur /\ (l.isdir => Append(cur, l.name) \in Dirs)

LinesRight(u) == \A i \in DOMAIN u.list : LineRight(u.cur, u.list[i])

\* What holds of the dialog in the middle of a handler, too.
Whole(u) ==
  /\ u \in FibType /\ ~u.aborted /\ LinesRight(u)
  /\ u.list # <<>> => u.shown
  /\ u.shown /\ u.cur = Recents => recent # <<>>

\* No line but the selected one is marked; and that one is.
NoOtherMarked(u) ==
  /\ u.fsel \in -1..(NumRows(u) - 1)
  /\ \A i \in DOMAIN u.list : u.list[i].on => i = u.fsel + 1

Marked(u) ==
  /\ u.fsel \in -1..(NumRows(u) - 1)
  /\ \A i \in DOMAIN u.list : u.list[i].on <=> i = u.fsel + 1

\* The scroll bar is there if it must.
Level(u) == u.mapped => u.bar = HasScrollBar(u)

Sound(u) == Whole(u) /\ Marked(u) /\ Level(u)

\* What no helper of the handlers changes.
Kept(u, v) ==
  v.shown = u.shown /\ v.mapped = u.mapped /\ v.status = u.status /\ v.llen = u.llen

\* The scroll position does not become negative.
Stays(u, v) == u.scrl >= 0 => v.scrl >= 0

LEMMA ListFacts ==
  ASSUME NEW u \in FibType
  PROVE  /\ u.list \in Seq(LineType) /\ NumRows(u) = Len(u.list) /\ NumRows(u) \in Nat
         /\ DOMAIN u.list = 1 .. NumRows(u)
         /\ u.scrl \in Int /\ u.llen \in Int /\ u.fsel \in Int /\ u.bar \in BOOLEAN
         /\ u.mapped \in BOOLEAN
  <1>1. /\ u.list \in Seq(LineType) /\ u.llen \in Rows /\ u.bar \in BOOLEAN /\ u.mapped \in BOOLEAN
        /\ u.scrl \in Int /\ u.fsel \in Int
    BY DEF FibType, FibRecord
  <1>2. u.llen \in Int
    BY <1>1, BoundsAssumption
  <1> QED BY <1>1, <1>2 DEF NumRows

LEMMA ExposedIsSound ==
  ASSUME NEW u, Whole(u), Marked(u)
  PROVE  /\ Sound(Exposed(u)) /\ Kept(u, Exposed(u)) /\ Stays(u, Exposed(u))
         /\ Exposed(u).list = u.list /\ Exposed(u).fsel = u.fsel
  <1> DEFINE v == Exposed(u)
  <1>1. u \in FibType
    BY DEF Whole
  <1>2. CASE ~u.mapped
    <2>1. v = u
      BY <1>2 DEF Exposed
    <2> QED BY <2>1, <1>2 DEF Sound, Level, Kept, Stays
  <1>3. CASE u.mapped
    <2> DEFINE w == [u EXCEPT !.scrl = FirstRow(u), !.bar = HasScrollBar(u)]
    <2>1. /\ FirstRow(u) \in Int /\ HasScrollBar(u) \in BOOLEAN
          /\ u.scrl >= 0 => FirstRow(u) >= 0
      BY <1>1, ListFacts DEF FirstRow, HasScrollBar, AtLeast0
    <2>2. /\ w \in FibType
          /\ w.scrl = FirstRow(u) /\ w.bar = HasScrollBar(u)
          /\ w.list = u.list /\ w.fsel = u.fsel /\ w.cur = u.cur /\ w.aborted = u.aborted
          /\ Kept(u, w)
      BY <1>1, <2>1 DEF FibType, FibRecord, Kept
    <2>3. v = w
      BY <1>3 DEF Exposed, Painted
    <2> HIDE DEF w, v
    <2>4. Whole(w)
      BY <2>2 DEF Whole, LinesRight, Kept
    <2>5. Marked(w)
      BY <2>2 DEF Marked, NumRows
    <2>6. Level(w)
      BY <2>1, <2>2 DEF Level, HasScrollBar, NumRows, Kept
    <2>7. Sound(v) /\ Kept(u, v) /\ Stays(u, v) /\ v.list = u.list /\ v.fsel = u.fsel
      BY <2>1, <2>2, <2>3, <2>4, <2>5, <2>6 DEF Sound, Stays
    <2> QED BY <2>7 DEF v
  <1> QED BY <1>1, <1>2, <1>3 DEF FibType, FibRecord

\* Setting and clearing the mark of a line leaves what it shows.
LEMMA MarkKeepsLine ==
  ASSUME NEW l \in LineType, NEW b \in BOOLEAN
  PROVE  LET m == [l EXCEPT !.on = b]
         IN  /\ m \in LineType /\ m.on = b
             /\ \A cur : LineRight(cur, l) => LineRight(cur, m)
  <1> DEFINE m == [l EXCEPT !.on = b]
  <1>1. /\ m \in LineType /\ m.on = b /\ m.rfp = l.rfp /\ m.dir = l.dir
        /\ m.name = l.name /\ m.isdir = l.isdir
    BY DEF LineType
  <1> HIDE DEF m
  <1>2. \A cur : LineRight(cur, l) => LineRight(cur, m)
    BY <1>1 DEF LineRight
  <1>3. m \in LineType /\ m.on = b /\ \A cur : LineRight(cur, l) => LineRight(cur, m)
    BY <1>1, <1>2
  <1> QED BY <1>3 DEF m

LEMMA MarkInList ==
  ASSUME NEW s \in Seq(LineType), NEW k \in DOMAIN s, NEW b \in BOOLEAN
  PROVE  LET t == [s EXCEPT ![k].on = b]
         IN  /\ t \in Seq(LineType) /\ Len(t) = Len(s) /\ DOMAIN t = DOMAIN s
             /\ t[k].on = b
             /\ \A i \in DOMAIN s : i # k => t[i] = s[i]
             /\ \A cur : \A i \in DOMAIN s : LineRight(cur, s[i]) => LineRight(cur, t[i])
  <1> DEFINE m == [s[k] EXCEPT !.on = b]
             t == [s EXCEPT ![k] = m]
  <1>1. s[k] \in LineType /\ DOMAIN s = 1 .. Len(s) /\ Len(s) \in Nat
    OBVIOUS
  <1>2. m \in LineType /\ m.on = b /\ \A cur : LineRight(cur, s[k]) => LineRight(cur, m)
    BY <1>1, MarkKeepsLine
  <1> HIDE DEF m
  <1>3. /\ t \in Seq(LineType) /\ Len(t) = Len(s) /\ DOMAIN t = DOMAIN s
        /\ t[k] = m /\ \A i \in DOMAIN s : i # k => t[i] = s[i]
    BY <1>1, <1>2
  <1>4. t = [s EXCEPT ![k].on = b]
    BY DEF m
  <1> HIDE DEF t
  <1>5. \A cur : \A i \in DOMAIN s : LineRight(cur, s[i]) => LineRight(cur, t[i])
    BY <1>2, <1>3
  <1> QED BY <1>2, <1>3, <1>4, <1>5

\* fib_select takes the old mark away.
LEMMA UnmarkedHasNone ==
  ASSUME NEW u, Whole(u), NoOtherMarked(u)
  PROVE  /\ Unmarked(u) \in Seq(LineType) /\ Len(Unmarked(u)) = Len(u.list)
         /\ DOMAIN Unmarked(u) = DOMAIN u.list
         /\ \A i \in DOMAIN u.list : /\ ~Unmarked(u)[i].on
                                     /\ LineRight(u.cur, Unmarked(u)[i])
  <1>1. u \in FibType /\ u.list \in Seq(LineType) /\ u.fsel \in Int /\ Len(u.list) \in Nat
        /\ DOMAIN u.list = 1 .. Len(u.list) /\ NumRows(u) = Len(u.list)
    BY ListFacts DEF Whole
  <1>2. \A i \in DOMAIN u.list : u.list[i].on \in BOOLEAN
    <2>1. \A i \in DOMAIN u.list : u.list[i] \in LineType
      BY <1>1
    <2>2. \A l \in LineType : l.on \in BOOLEAN
      BY DEF LineType
    <2> QED BY <2>1, <2>2
  <1>3. CASE u.fsel < 0
    BY <1>1, <1>2, <1>3 DEF Unmarked, Whole, LinesRight, NoOtherMarked
  <1>4. CASE u.fsel >= 0
    <2> DEFINE k == u.fsel + 1
               t == [u.list EXCEPT ![k].on = FALSE]
    <2>1. k \in DOMAIN u.list
      BY <1>1, <1>4 DEF NoOtherMarked
    <2>2. Unmarked(u) = t
      BY <1>1, <1>4 DEF Unmarked
    <2>3. /\ t \in Seq(LineType) /\ Len(t) = Len(u.list) /\ DOMAIN t = DOMAIN u.list
          /\ t[k].on = FALSE
          /\ \A i \in DOMAIN u.list : i # k => t[i] = u.list[i]
          /\ \A i \in DOMAIN u.list : LineRight(u.cur, u.list[i]) => LineRight(u.cur, t[i])
      <3> HIDE DEF k
      <3> QED BY <1>1, <2>1, MarkInList
    <2> HIDE DEF t
    <2> QED BY <1>1, <1>2, <2>2, <2>3 DEF Whole, LinesRight, NoOtherMarked
  <1> QED BY <1>1, <1>3, <1>4

\* fib with another list and another position in it.
Put(u, l, f, c) == [u EXCEPT !.list = l, !.fsel = f, !.scrl = c]

LEMMA PutFacts ==
  ASSUME NEW u \in FibType, NEW l \in Seq(LineType), NEW f \in Int, NEW c \in Int
  PROVE  LET v == Put(u, l, f, c)
         IN  /\ v \in FibType /\ v.list = l /\ v.fsel = f /\ v.scrl = c /\ v.cur = u.cur
             /\ v.aborted = u.aborted /\ Kept(u, v)
             /\ v.sort = u.sort /\ v.filter = u.filter /\ v.hidden = u.hidden
  <1> DEFINE S == Seq(LineType)
             T == Seq(Nat)
  <1>1. l \in S /\ FibType = FibRecord(T, S)
    BY DEF FibType, FibRecord
  <1> HIDE DEF S, T
  <1> QED BY <1>1 DEF Put, Kept, FibRecord

LEMMA SelectedIsSound ==
  ASSUME NEW u, Whole(u), NoOtherMarked(u), NEW item \in Int
  PROVE  /\ Sound(Selected(u, item)) /\ Kept(u, Selected(u, item))
         /\ Stays(u, Selected(u, item))
  <1> DEFINE none == Unmarked(u)
  <1>1. u \in FibType /\ u.list \in Seq(LineType) /\ u.fsel \in Int /\ Len(u.list) \in Nat
        /\ DOMAIN u.list = 1 .. Len(u.list) /\ NumRows(u) = Len(u.list)
        /\ u.scrl \in Int /\ u.llen \in Int
    BY ListFacts DEF Whole
  <1>2. /\ none \in Seq(LineType) /\ Len(none) = Len(u.list) /\ DOMAIN none = DOMAIN u.list
        /\ \A i \in DOMAIN u.list : ~none[i].on /\ LineRight(u.cur, none[i])
    BY UnmarkedHasNone
  <1> HIDE DEF none
  <1>3. ASSUME NEW l \in Seq(LineType), Len(l) = Len(u.list), DOMAIN l = DOMAIN u.list,
               \A i \in DOMAIN l : LineRight(u.cur, l[i]),
               NEW f \in -1 .. Len(l) - 1,
               \A i \in DOMAIN l : l[i].on <=> i = f + 1,
               NEW c \in Int, u.scrl >= 0 => c >= 0
        PROVE  /\ Sound(Exposed(Put(u, l, f, c))) /\ Kept(u, Exposed(Put(u, l, f, c)))
               /\ Stays(u, Exposed(Put(u, l, f, c)))
    <2> DEFINE v == Put(u, l, f, c)
    <2>1. /\ v \in FibType /\ v.list = l /\ v.fsel = f /\ v.scrl = c /\ v.cur = u.cur
          /\ v.aborted = u.aborted /\ Kept(u, v)
      <3>1. f \in Int /\ u \in FibType
        BY <1>1, <1>3
      <3> QED BY <3>1, PutFacts
    <2> HIDE DEF v
    <2>2. l # <<>> => u.list # <<>>
      BY <1>1, <1>3
    <2>3. Whole(v)
      BY <1>3, <2>1, <2>2 DEF Whole, LinesRight, Kept
    <2>4. Marked(v)
      BY <1>3, <2>1 DEF Marked, NumRows
    <2>5. Sound(Exposed(v)) /\ Kept(v, Exposed(v)) /\ Stays(v, Exposed(v))
      BY <2>3, <2>4, ExposedIsSound
    <2>6. Kept(u, Exposed(v)) /\ Stays(u, Exposed(v))
      BY <1>3, <2>1, <2>5 DEF Kept, Stays
    <2> QED BY <2>5, <2>6 DEF v
  <1>4. CASE item >= 0 /\ item < NumRows(u)
    <2> DEFINE l == [none EXCEPT ![item + 1].on = TRUE]
               c == IF item < u.scrl THEN item
                    ELSE IF item >= u.scrl + u.llen THEN 1 + item - u.llen
                    ELSE u.scrl
               v == Put(u, l, item, c)
    <2>1. item + 1 \in DOMAIN none
      BY <1>1, <1>2, <1>4
    <2>2. /\ l \in Seq(LineType) /\ Len(l) = Len(none) /\ DOMAIN l = DOMAIN none
          /\ l[item + 1].on = TRUE
          /\ \A i \in DOMAIN none : i # item + 1 => l[i] = none[i]
          /\ \A i \in DOMAIN none : LineRight(u.cur, none[i]) => LineRight(u.cur, l[i])
      <3> DEFINE k == item + 1
      <3>1. k \in DOMAIN none
        BY <2>1
      <3> HIDE DEF k
      <3>2. LET t == [none EXCEPT ![k].on = TRUE]
            IN  /\ t \in Seq(LineType) /\ Len(t) = Len(none) /\ DOMAIN t = DOMAIN none
                /\ t[k].on = TRUE
                /\ \A i \in DOMAIN none : i # k => t[i] = none[i]
                /\ \A cur : \A i \in DOMAIN none : LineRight(cur, none[i]) => LineRight(cur, t[i])
        BY <1>2, <3>1, MarkInList
      <3> QED BY <3>2 DEF k
    <2>3. c \in Int /\ (u.scrl >= 0 => c >= 0)
      BY <1>1, <1>4
    <2>4. Selected(u, item) = Exposed(v)
      BY <1>4 DEF Selected, Put, none
    <2> HIDE DEF l, c
    <2>5. \A i \in DOMAIN l : (l[i].on <=> i = item + 1) /\ LineRight(u.cur, l[i])
      BY <1>2, <2>2
    <2>6. item \in -1 .. Len(l) - 1
      BY <1>1, <1>2, <1>4, <2>2
    <2>7. Sound(Exposed(v)) /\ Kept(u, Exposed(v)) /\ Stays(u, Exposed(v))
      BY <1>2, <1>3, <2>2, <2>3, <2>5, <2>6
    <2> QED BY <2>4, <2>7
  <1>5. CASE ~(item >= 0 /\ item < NumRows(u))
    <2> DEFINE w == [u EXCEPT !.list = none, !.fsel = -1]
               v == Put(u, none, -1, u.scrl)
    <2>1. v = w
      BY <1>1 DEF FibType, FibRecord, Put
    <2>2. Selected(u, item) = Exposed(w)
      BY <1>5 DEF Selected, none
    <2>3. -1 \in -1 .. Len(none) - 1 /\ \A i \in DOMAIN none : none[i].on <=> i = -1 + 1
      BY <1>1, <1>2
    <2>4. Sound(Exposed(v)) /\ Kept(u, Exposed(v)) /\ Stays(u, Exposed(v))
      BY <1>1, <1>2, <1>3, <2>3
    <2> HIDE DEF v, w
    <2> QED BY <2>1, <2>2, <2>4
  <1> QED BY <1>4, <1>5

\* What the dialog sorts by is a weak order.
LEMMA BeforeIsOrder ==
  ASSUME NEW sort \in 0..5, NEW a \in LineType, NEW b \in LineType, NEW c \in LineType
  PROVE  /\ Before(sort, a, b) => ~Before(sort, b, a)
         /\ ~Before(sort, b, a) /\ ~Before(sort, c, b) => ~Before(sort, c, a)
  <1>1. \A l \in LineType : /\ l.isdir \in BOOLEAN /\ l.name \in Int
                            /\ l.size \in Int /\ l.time \in Int
    BY DEF LineType
  <1>2. sort = 0 \/ sort = 1 \/ sort = 2 \/ sort = 3 \/ sort = 4 \/ sort = 5
    OBVIOUS
  <1>3. CASE sort = 0
    BY <1>1, <1>3 DEF Before
  <1>4. CASE sort = 1
    BY <1>1, <1>4 DEF Before
  <1>5. CASE sort = 2
    <2>1. \A x, y \in LineType :
            Before(sort, x, y) <=> \/ x.isdir /\ ~y.isdir
                                   \/ ~x.isdir /\ ~y.isdir /\ x.size < y.size
      <3> TAKE x, y \in LineType
      <3>1. x.isdir \in BOOLEAN /\ y.isdir \in BOOLEAN
        BY <1>1
      <3>2. (x.isdir = y.isdir) <=> (x.isdir <=> y.isdir)
        BY <3>1, Zenon
      <3>3. x.isdir # y.isdir => (Before(sort, x, y) <=> x.isdir)
        BY DEF Before
      <3>4. x.isdir = y.isdir => (Before(sort, x, y) <=> ~x.isdir /\ x.size < y.size)
        BY <1>5 DEF Before
      <3> QED BY <3>2, <3>3, <3>4, Zenon
    <2> QED BY <1>1, <2>1
  <1>6. CASE sort = 3
    <2>1. \A x, y \in LineType :
            Before(sort, x, y) <=> \/ x.isdir /\ ~y.isdir
                                   \/ ~x.isdir /\ ~y.isdir /\ x.size > y.size
      <3> TAKE x, y \in LineType
      <3>1. x.isdir \in BOOLEAN /\ y.isdir \in BOOLEAN
        BY <1>1
      <3>2. (x.isdir = y.isdir) <=> (x.isdir <=> y.isdir)
        BY <3>1, Zenon
      <3>3. x.isdir # y.isdir => (Before(sort, x, y) <=> x.isdir)
        BY DEF Before
      <3>4. x.isdir = y.isdir => (Before(sort, x, y) <=> ~x.isdir /\ x.size > y.size)
        BY <1>6 DEF Before
      <3> QED BY <3>2, <3>3, <3>4, Zenon
    <2> QED BY <1>1, <2>1
  <1>7. CASE sort = 4
    BY <1>1, <1>7 DEF Before
  <1>8. CASE sort = 5
    BY <1>1, <1>8 DEF Before
  <1> QED BY <1>2, <1>3, <1>4, <1>5, <1>6, <1>7, <1>8

\* fib_resort gives the same lines in another order.
LEMMA SortedLines ==
  ASSUME NEW s \in Seq(LineType), NEW sort \in 0..5
  PROVE  /\ SortedBy(s, sort) \in Seq(LineType)
         /\ Len(SortedBy(s, sort)) = Len(s)
         /\ \A n \in DOMAIN SortedBy(s, sort) : \E k \in DOMAIN s : SortedBy(s, sort)[n] = s[k]
  <1> DEFINE f == [i \in DOMAIN s |-> {j \in DOMAIN s : \/ Before(sort, s[j], s[i])
                                                      \/ (~Before(sort, s[i], s[j]) /\ j < i)}]
             o == InOrder(f)
             t == [n \in DOMAIN s |-> s[o[n]]]
  <1>1. DOMAIN s = 1 .. Len(s) /\ Len(s) \in Nat /\ \A i \in DOMAIN s : s[i] \in LineType
    OBVIOUS
  <1>2. Orders(f, DOMAIN s)
    <2>1. /\ \A i, j \in DOMAIN s : Before(sort, s[i], s[j]) => ~Before(sort, s[j], s[i])
          /\ \A i, j, k \in DOMAIN s :
               ~Before(sort, s[j], s[i]) /\ ~Before(sort, s[k], s[j]) => ~Before(sort, s[k], s[i])
      BY <1>1, BeforeIsOrder
    <2>2. f \in [DOMAIN s -> SUBSET DOMAIN s] /\ \A x \in DOMAIN s : x \notin f[x]
      BY <1>1, <2>1
    <2>3. \A x, y \in DOMAIN s : x # y => x \in f[y] \/ y \in f[x]
      BY <1>1, <2>1
    <2>4. \A x, y, z \in DOMAIN s : x \in f[y] /\ y \in f[z] => x \in f[z]
      <3> TAKE x, y, z \in DOMAIN s
      <3> HAVE x \in f[y] /\ y \in f[z]
      <3> DEFINE B(i, j) == Before(sort, s[i], s[j])
      <3>1. /\ B(x, y) \/ (~B(y, x) /\ x < y)
            /\ B(y, z) \/ (~B(z, y) /\ y < z)
        OBVIOUS
      <3>2. /\ B(x, y) => ~B(y, x)
            /\ B(y, z) => ~B(z, y)
            /\ ~B(y, x) /\ ~B(z, y) => ~B(z, x)
            /\ ~B(z, y) /\ ~B(x, z) => ~B(x, y)
            /\ ~B(x, z) /\ ~B(y, x) => ~B(y, z)
        BY <2>1
      <3> HIDE DEF B
      <3>3. B(x, z) \/ (~B(z, x) /\ x < z)
        BY <1>1, <3>1, <3>2
      <3> QED BY <3>3 DEF B
    <2> HIDE DEF f
    <2> QED BY <2>2, <2>3, <2>4 DEF Orders
  <1>3. SortedBy(s, sort) = t
    BY DEF SortedBy, StableSort
  <1>4. /\ t \in Seq(LineType) /\ Len(t) = Len(s) /\ DOMAIN t = DOMAIN s
        /\ \A n \in DOMAIN s : o[n] \in DOMAIN s /\ t[n] = s[o[n]]
    <2> HIDE DEF f
    <2> QED BY <1>2, Permuted
  <1> HIDE DEF t, o, f
  <1> QED BY <1>3, <1>4

LEMMA ResortedKeepsLines ==
  ASSUME NEW u, Whole(u), \A i \in DOMAIN u.list : ~u.list[i].on,
         u.fsel \in -1..(NumRows(u) - 1), NEW sel
  PROVE  LET v == Resorted(u, sel)
         IN  /\ Whole(v) /\ NoOtherMarked(v) /\ Kept(u, v) /\ v.scrl = u.scrl
             /\ NumRows(v) = NumRows(u)
             /\ u.fsel >= 0 => v.fsel >= 0
             /\ u.fsel < 0 => (v.fsel < 0 \/ v.fsel \in 0..(NumRows(v) - 1))
  <1> DEFINE sorted == SortedBy(u.list, u.sort)
             named == {i \in DOMAIN sorted : sorted[i].name = sel}
             first == CHOOSE i \in named : \A j \in named : i <= j
             f == IF named = {} THEN u.fsel ELSE first - 1
             v == Put(u, sorted, f, u.scrl)
  <1>1. u \in FibType /\ u.list \in Seq(LineType) /\ u.fsel \in Int /\ Len(u.list) \in Nat
        /\ DOMAIN u.list = 1 .. Len(u.list) /\ NumRows(u) = Len(u.list)
        /\ u.scrl \in Int /\ u.llen \in Int /\ u.sort \in 0..5
    BY ListFacts DEF Whole, FibType, FibRecord
  <1>2. CASE NumRows(u) < 1
    <2>1. Resorted(u, sel) = u
      BY <1>2 DEF Resorted
    <2> QED BY <2>1, <1>1, <1>2 DEF NoOtherMarked, Kept
  <1>3. CASE ~(NumRows(u) < 1)
    <2>1. /\ sorted \in Seq(LineType) /\ Len(sorted) = Len(u.list) /\ DOMAIN sorted = DOMAIN u.list
          /\ \A n \in DOMAIN sorted : \E k \in DOMAIN u.list : sorted[n] = u.list[k]
      <3>1. u.list \in Seq(LineType) /\ u.sort \in 0..5
        BY <1>1
      <3>2. /\ sorted \in Seq(LineType) /\ Len(sorted) = Len(u.list)
            /\ \A n \in DOMAIN sorted : \E k \in DOMAIN u.list : sorted[n] = u.list[k]
        BY <3>1, SortedLines, Zenon
      <3> HIDE DEF sorted
      <3>3. DOMAIN sorted = DOMAIN u.list
        BY <3>1, <3>2
      <3> QED BY <3>2, <3>3
    <2>2. Resorted(u, sel) = [u EXCEPT !.list = sorted,
                       !.fsel = IF named = {} THEN @ ELSE first - 1]
      BY <1>3 DEF Resorted
    <2> HIDE DEF sorted
    <2>3. named # {} => first \in DOMAIN sorted
      <3> SUFFICES ASSUME named # {} PROVE first \in named
        OBVIOUS
      <3>1. named \subseteq Nat
        BY <1>1, <2>1
      <3>2. \E i \in named : \A j \in named : i <= j
        BY <3>1, LeastElement
      <3> QED BY <3>2
    <2> HIDE DEF first, named
    <2>4. f \in Int /\ f \in -1 .. Len(sorted) - 1 /\ (u.fsel >= 0 => f >= 0)
      BY <1>1, <2>1, <2>3
    <2>5. Resorted(u, sel) = v
      <3> DEFINE w == [u EXCEPT !.list = sorted, !.fsel = f]
      <3>1. Resorted(u, sel) = w
        BY <2>2, <1>1 DEF FibType, FibRecord
      <3>2. w = v
        BY <1>1 DEF FibType, FibRecord, Put
      <3> QED BY <3>1, <3>2
    <2> HIDE DEF f
    <2>6. /\ v \in FibType /\ v.list = sorted /\ v.fsel = f /\ v.scrl = u.scrl /\ v.cur = u.cur
          /\ v.aborted = u.aborted /\ Kept(u, v)
      BY <1>1, <2>1, <2>4, PutFacts
    <2> HIDE DEF v
    <2>7. NumRows(v) = NumRows(u)
      BY <1>1, <2>1, <2>6 DEF NumRows
    <2>8. Whole(v)
      <3>1. sorted # <<>> => u.list # <<>>
        BY <1>1, <1>3
      <3>2. LinesRight(v)
        BY <2>1, <2>6 DEF Whole, LinesRight
      <3> QED BY <2>6, <3>1, <3>2 DEF Whole, Kept
    <2>9. NoOtherMarked(v)
      <3>1. \A i \in DOMAIN v.list : ~v.list[i].on
        BY <2>1, <2>6
      <3> QED BY <3>1, <2>4, <2>6 DEF NoOtherMarked, NumRows
    <2>10. v.fsel \in -1 .. NumRows(v) - 1 /\ NumRows(v) \in Nat
      BY <2>9, <2>7, <1>1 DEF NoOtherMarked
    <2> QED BY <1>1, <2>4, <2>5, <2>6, <2>7, <2>8, <2>9, <2>10
  <1> QED BY <1>2, <1>3

\* post_opendir: what was listed becomes a sound dialog.
LEMMA PostOpenIsSound ==
  ASSUME NEW u, Whole(u), \A i \in DOMAIN u.list : ~u.list[i].on, u.scrl = 0, NEW sel
  PROVE  /\ Sound(PostOpen(u, sel)) /\ Kept(u, PostOpen(u, sel))
         /\ PostOpen(u, sel).scrl >= 0
  <1> DEFINE f == IF NumRows(u) > 0 THEN 0 ELSE -1
             w == [u EXCEPT !.fsel = f]
             v == Resorted(w, sel)
  <1>1. u \in FibType /\ u.list \in Seq(LineType) /\ Len(u.list) \in Nat
        /\ NumRows(u) = Len(u.list) /\ u.scrl \in Int
    BY ListFacts DEF Whole
  <1>2. /\ w \in FibType /\ w.list = u.list /\ w.fsel = f /\ w.scrl = u.scrl /\ w.cur = u.cur
        /\ w.aborted = u.aborted /\ Kept(u, w)
    <2> DEFINE z == Put(u, u.list, f, u.scrl)
    <2>1. f \in Int
      BY <1>1
    <2>2. w = z
      BY <1>1 DEF FibType, FibRecord, Put
    <2> HIDE DEF f, w
    <2>3. /\ z \in FibType /\ z.list = u.list /\ z.fsel = f /\ z.scrl = u.scrl /\ z.cur = u.cur
          /\ z.aborted = u.aborted /\ Kept(u, z)
      BY <1>1, <2>1, PutFacts
    <2> HIDE DEF z
    <2> QED BY <2>2, <2>3
  <1>3. f \in -1 .. NumRows(u) - 1 /\ (NumRows(u) > 0 => f >= 0)
    BY <1>1
  <1> HIDE DEF f, w
  <1>4. Whole(w) /\ NumRows(w) = NumRows(u)
    BY <1>2 DEF Whole, LinesRight, Kept, NumRows
  <1>5. /\ Whole(v) /\ NoOtherMarked(v) /\ Kept(w, v) /\ v.scrl = w.scrl
        /\ NumRows(v) = NumRows(w)
    BY <1>2, <1>3, <1>4, ResortedKeepsLines
  <1>6. PostOpen(u, sel) = IF NumRows(v) > 0 /\ v.fsel >= 0 THEN Selected(v, v.fsel) ELSE Exposed(v)
    BY DEF PostOpen, f, w
  <1>7. v \in FibType /\ v.fsel \in Int /\ v.scrl >= 0 /\ NumRows(v) \in Nat
        /\ DOMAIN v.list = 1 .. NumRows(v)
    BY <1>1, <1>2, <1>5, ListFacts DEF Whole
  <1> HIDE DEF v
  <1>8. CASE NumRows(v) > 0 /\ v.fsel >= 0
    <2>1. /\ Sound(Selected(v, v.fsel)) /\ Kept(v, Selected(v, v.fsel))
          /\ Stays(v, Selected(v, v.fsel))
      BY <1>5, <1>7, SelectedIsSound
    <2> QED BY <1>2, <1>5, <1>6, <1>7, <1>8, <2>1 DEF Kept, Stays
  <1>9. CASE ~(NumRows(v) > 0 /\ v.fsel >= 0)
    <2>1. Marked(v)
      BY <1>5, <1>7, <1>9 DEF NoOtherMarked, Marked
    <2>2. Sound(Exposed(v)) /\ Kept(v, Exposed(v)) /\ Stays(v, Exposed(v))
      BY <1>5, <2>1, ExposedIsSound
    <2> QED BY <1>2, <1>5, <1>6, <1>7, <1>9, <2>2 DEF Kept, Stays
  <1> QED BY <1>8, <1>9

-----------------------------------------------------------------------------
(* Reading a directory, or the list of recent files.                       *)

LEMMA EntryFacts ==
  /\ \A e \in Entries : /\ e.dir \in Seq(Nat) /\ e.name \in Nat /\ e.size \in Nat
                        /\ e.time \in Nat /\ e.isdir \in BOOLEAN
                        /\ PathOf(e) \in Seq(Nat) /\ PathOf(e) = Append(e.dir, e.name)
                        /\ e.isdir => PathOf(e) \in Dirs
  /\ Dirs \subseteq Seq(Nat) /\ Paths \subseteq Seq(Nat) /\ <<>> \in Dirs
  <1>1. ASSUME NEW e \in Entries
        PROVE  /\ e.dir \in Seq(Nat) /\ e.name \in Nat /\ e.size \in Nat
               /\ e.time \in Nat /\ e.isdir \in BOOLEAN
    BY EntriesAssumption
  <1>2. ASSUME NEW e \in Entries
        PROVE  PathOf(e) \in Seq(Nat) /\ PathOf(e) = Append(e.dir, e.name)
    BY <1>1 DEF PathOf
  <1>3. Home \in Seq(Nat)
    BY EntriesAssumption
  <1>4. \A e \in Entries : e.isdir => PathOf(e) \in Dirs
    BY DEF Dirs
  <1>5. Dirs \subseteq Seq(Nat)
    <2>1. <<>> \in Seq(Nat)
      OBVIOUS
    <2>2. \A d \in Dirs : d = <<>> \/ d = Home \/ \E e \in Entries : d = PathOf(e)
      BY DEF Dirs
    <2> QED BY <1>2, <1>3, <2>1, <2>2
  <1>6. Paths \subseteq Seq(Nat)
    <2>1. \A d \in Paths : \E e \in Entries : d = PathOf(e)
      BY DEF Paths
    <2> QED BY <1>2, <2>1
  <1>7. <<>> \in Dirs
    BY DEF Dirs
  <1> QED BY <1>1, <1>2, <1>4, <1>5, <1>6, <1>7

\* A line that is not marked, of what its entry is.
LEMMA LineFacts ==
  ASSUME NEW e \in Entries, NEW t \in Nat, NEW rfp \in Nat
  PROVE  /\ Line(e, t, rfp) \in LineType /\ Line(e, t, rfp).on = FALSE
         /\ Line(e, t, rfp).rfp = rfp /\ Line(e, t, rfp).dir = e.dir
         /\ Line(e, t, rfp).name = e.name /\ Line(e, t, rfp).isdir = e.isdir
  BY EntryFacts DEF Line, LineType

\* What is read of a directory lies in it.
LEMMA ReadingsAreLines ==
  ASSUME NEW u, NEW d \in Dirs, NEW l \in Readings(u, d)
  PROVE  l \in Seq(LineType) /\ \A i \in DOMAIN l : ~l[i].on /\ LineRight(d, l[i])
  <1>1. PICK there \in Found(In(d, Entries)) :
             l \in SetToSeqs({Line(e, e.time, 0) : e \in {f \in there : Listed(u, f)}})
    BY DEF Readings
  <1> DEFINE S == {f \in there : Listed(u, f)}
             T == {Line(e, e.time, 0) : e \in S}
             g == [e \in S |-> Line(e, e.time, 0)]
  <1>2. S \subseteq Entries /\ \A e \in S : e \in Entries /\ e.dir = d
    BY DEF Found, In
  <1>3. IsFiniteSet(T)
    <2>1. IsFiniteSet(S)
      BY <1>2, EntriesAssumption, FS_Subset
    <2>2. g \in Surjection(S, T)
      BY DEF Surjection
    <2> HIDE DEF S, T, g
    <2> QED BY <2>1, <2>2, FS_Surjection
  <1>4. \A x \in T : x \in LineType /\ ~x.on /\ LineRight(d, x)
    <2> SUFFICES ASSUME NEW e \in S
                 PROVE  LET x == Line(e, e.time, 0)
                        IN  x \in LineType /\ ~x.on /\ LineRight(d, x)
      OBVIOUS
    <2> DEFINE x == Line(e, e.time, 0)
    <2>1. e \in Entries /\ e.dir = d /\ e.time \in Nat /\ 0 \in Nat
      BY <1>2, EntryFacts
    <2>2. /\ x \in LineType /\ x.on = FALSE /\ x.rfp = 0 /\ x.dir = e.dir
          /\ x.name = e.name /\ x.isdir = e.isdir
      <3>1. e \in Entries /\ e.time \in Nat /\ 0 \in Nat
        BY <2>1
      <3> QED BY <3>1, LineFacts, Zenon
    <2> HIDE DEF x
    <2>3. LineRight(d, x)
      BY <2>1, <2>2, EntryFacts, TreeAssumption DEF LineRight
    <2>4. x \in LineType /\ ~x.on /\ LineRight(d, x)
      BY <2>2, <2>3
    <2> QED BY <2>4 DEF x
  <1>5. l \in [1 .. Cardinality(T) -> T] /\ Cardinality(T) \in Nat
    <2>1. l \in SetToSeqs(T)
      BY <1>1
    <2> HIDE DEF T
    <2> QED BY <2>1, <1>3, FS_CardinalityType DEF SetToSeqs
  <1> HIDE DEF T, S
  <1>6. l \in [1 .. Cardinality(T) -> LineType] /\ \A i \in DOMAIN l : l[i] \in T
    BY <1>4, <1>5
  <1>7. l \in Seq(LineType)
    BY <1>5, <1>6
  <1> QED BY <1>4, <1>6, <1>7

\* Every recent file that is there has a line that points to it.
LEMMA RecentLinesAreLines ==
  ASSUME RecentList(recent), NEW u, NEW there \in Found(Entries)
  PROVE  LET l == RecentLines(u, there)
         IN  l \in Seq(LineType) /\ \A i \in DOMAIN l : ~l[i].on /\ LineRight(Recents, l[i])
  <1> DEFINE seen == {j \in DOMAIN recent :
                        \E e \in there : PathOf(e) = recent[j].path /\ Listed(u, e)}
             f == [j \in seen |-> {k \in seen : k < j}]
             N == Cardinality(seen)
             l == [n \in 1 .. N |-> RecentLine(InOrder(f)[n])]
  <1>1. recent \in Seq(Uses) /\ Len(recent) \in Nat /\ DOMAIN recent = 1 .. Len(recent)
    BY DEF RecentList
  <1>2. seen \subseteq 1 .. Len(recent) /\ IsFiniteSet(seen) /\ N \in Nat
    <2>1. seen \subseteq 1 .. Len(recent)
      BY <1>1
    <2>2. IsFiniteSet(1 .. Len(recent))
      BY <1>1, FS_Interval
    <2> HIDE DEF seen
    <2> QED BY <2>1, <2>2, FS_Subset, FS_CardinalityType
  <1>3. \A j \in DOMAIN recent :
          /\ RecentLine(j) \in LineType /\ ~RecentLine(j).on /\ LineRight(Recents, RecentLine(j))
    <2> TAKE j \in DOMAIN recent
    <2> DEFINE e == CHOOSE e \in Entries : PathOf(e) = recent[j].path
               x == Line(e, recent[j].atime, j)
    <2>1. recent[j] \in Uses
      BY <1>1
    <2>2. recent[j].path \in Paths /\ recent[j].atime \in Nat
      BY <2>1, BoundsAssumption DEF Uses
    <2>3. e \in Entries /\ PathOf(e) = recent[j].path
      BY <2>2 DEF Paths
    <2>4. RecentLine(j) = x
      BY DEF RecentLine
    <2> HIDE DEF e
    <2>5. j \in Nat
      BY <1>1
    <2>6. /\ x \in LineType /\ x.on = FALSE /\ x.rfp = j /\ x.dir = e.dir
          /\ x.name = e.name
      BY <2>2, <2>3, <2>5, LineFacts
    <2> HIDE DEF x
    <2>7. LineRight(Recents, x)
      BY <2>3, <2>6, EntryFacts DEF LineRight
    <2> QED BY <2>4, <2>6, <2>7
  <1>4. Orders(f, seen)
    BY <1>2 DEF Orders
  <1>5. RecentLines(u, there) = l
    BY DEF RecentLines
  <1> HIDE DEF f
  <1>6. InOrder(f) \in [1 .. N -> seen]
    BY <1>2, <1>4, InOrderIsRight
  <1>7. \A n \in 1 .. N : InOrder(f)[n] \in DOMAIN recent
    BY <1>1, <1>2, <1>6
  <1> HIDE DEF seen, N
  <1>8. l \in [1 .. N -> LineType]
    BY <1>3, <1>7
  <1>9. l \in Seq(LineType)
    BY <1>2, <1>8
  <1>10. \A i \in DOMAIN l : ~l[i].on /\ LineRight(Recents, l[i])
    BY <1>3, <1>7
  <1> HIDE DEF l
  <1> QED BY <1>5, <1>9, <1>10

\* A directory that stays as it was counted has room for its lines.
LEMMA CalmNeverAborts ==
  ASSUME Calm, NEW u, NEW d
  PROVE  ~MayAbort(u, d)
  <1> SUFFICES ASSUME NEW there \in Found(In(d, Entries)),
                      Overflows(u, Counted(u, there), there)
               PROVE  FALSE
    BY DEF MayAbort
  <1>1. PICK e \in there : /\ u.hidden \/ ~e.hid
                           /\ Cardinality({f \in there : Listed(u, f)} \ {e}) >= Counted(u, there)
    BY DEF Overflows
  <1>2. IsFiniteSet(there)
    <2>1. there \subseteq Entries
      BY DEF Found, In
    <2> QED BY <2>1, EntriesAssumption, FS_Subset
  <1> DEFINE L == {f \in there : Listed(u, f)}
             V == {f \in there : ~f.hid}
  <1>3. Cardinality(there) \in Nat
    BY <1>2, FS_CardinalityType
  <1>4. CASE u.hidden
    <2>1. L \ {e} \in SUBSET there
      OBVIOUS
    <2>2. Cardinality(L \ {e}) <= Cardinality(there) /\ IsFiniteSet(L \ {e})
      BY <1>2, <2>1, FS_Subset
    <2>3. Cardinality(L \ {e}) \in Nat
      BY <2>2, FS_CardinalityType
    <2>4. Cardinality(L \ {e}) >= Cardinality(there) + 2
      BY <1>1, <1>4 DEF Counted
    <2> HIDE DEF L
    <2> QED BY <1>3, <2>2, <2>3, <2>4
  <1>5. CASE ~u.hidden
    <2>1. L \subseteq V /\ e \in V /\ V \subseteq there
      BY <1>1, <1>5 DEF Listed
    <2>2. Cardinality(L \ {e}) >= Cardinality(V)
      BY <1>1, <1>5 DEF Counted
    <2> HIDE DEF L, V
    <2>3. IsFiniteSet(V) /\ Cardinality(V) \in Nat
      BY <1>2, <2>1, FS_Subset, FS_CardinalityType
    <2>4. L \ {e} \in SUBSET V /\ L \ {e} # V
      BY <2>1
    <2>5. /\ IsFiniteSet(L \ {e}) /\ Cardinality(L \ {e}) <= Cardinality(V)
          /\ Cardinality(V) = Cardinality(L \ {e}) => V = L \ {e}
      BY <2>3, <2>4, FS_Subset
    <2>6. Cardinality(L \ {e}) \in Nat
      BY <2>5, FS_CardinalityType
    <2> QED BY <2>2, <2>3, <2>4, <2>5, <2>6
  <1> QED BY <1>4, <1>5

LEMMA RelistedIsWhole ==
  ASSUME NEW u \in FibType, ~u.aborted, u.shown,
         NEW d \in Dirs \cup {Recents}, d = Recents => recent # <<>>,
         NEW l \in Seq(LineType), \A i \in DOMAIN l : LineRight(d, l[i])
  PROVE  /\ Whole(Relisted(u, d, l)) /\ Relisted(u, d, l).list = l
         /\ Relisted(u, d, l).scrl = 0 /\ Kept(u, Relisted(u, d, l))
  <1> DEFINE S == Seq(LineType)
             T == Seq(Nat)
             w == Relisted(u, d, l)
  <1>1. u \in FibType /\ l \in S /\ FibType = FibRecord(T, S)
    BY DEF FibType, FibRecord, Whole
  <1> HIDE DEF S, T
  <1>2. /\ w \in FibType /\ w.list = l /\ w.scrl = 0 /\ w.cur = d /\ w.aborted = u.aborted
        /\ Kept(u, w)
    <2> DEFINE p == Put(u, l, -1, 0)
               q == [p EXCEPT !.cur = d]
    <2>1. w = q
      BY <1>1 DEF Relisted, Put
    <2>2. /\ p \in FibType /\ p.list = l /\ p.scrl = 0 /\ p.aborted = u.aborted /\ Kept(u, p)
      BY <1>1, PutFacts DEF S
    <2> HIDE DEF p, w
    <2>3. /\ q \in FibType /\ q.cur = d /\ q.list = p.list /\ q.scrl = p.scrl
          /\ q.aborted = p.aborted /\ Kept(p, q)
      BY <1>1, <2>2 DEF Kept, FibRecord
    <2> HIDE DEF q
    <2> QED BY <2>1, <2>2, <2>3 DEF Kept
  <1> HIDE DEF w
  <1>3. Whole(w)
    BY <1>2 DEF Whole, LinesRight, Kept
  <1>4. Whole(w) /\ w.list = l /\ w.scrl = 0 /\ Kept(u, w)
    BY <1>2, <1>3
  <1> QED BY <1>4 DEF w

\* fib_opendir.
LEMMA OpenDirIsSound ==
  ASSUME Calm, RecentList(recent), NEW u \in FibType, ~u.aborted, u.shown, NEW d \in Dirs \cup {Recents},
         d = Recents => recent # <<>>, NEW sel, NEW v \in OpenDir(u, d, sel)
  PROVE  Sound(v) /\ Kept(u, v) /\ v.scrl >= 0
  <1>1. ASSUME NEW e \in Dirs \cup {Recents}, e = Recents => recent # <<>>,
               NEW l \in Seq(LineType), \A i \in DOMAIN l : ~l[i].on /\ LineRight(e, l[i]),
               v = PostOpen(Relisted(u, e, l), sel)
        PROVE  Sound(v) /\ Kept(u, v) /\ v.scrl >= 0
    <2> DEFINE w == Relisted(u, e, l)
    <2>1. Whole(w) /\ w.list = l /\ w.scrl = 0 /\ Kept(u, w)
      BY <1>1, RelistedIsWhole
    <2> HIDE DEF w
    <2>2. /\ Sound(PostOpen(w, sel)) /\ Kept(w, PostOpen(w, sel))
          /\ PostOpen(w, sel).scrl >= 0
      BY <1>1, <2>1, PostOpenIsSound
    <2> QED BY <1>1, <2>1, <2>2 DEF Kept, w
  <1>3. CASE d = Recents
    <2>1. OpenDir(u, d, sel) = OpenRecent(u, sel)
      <3>1. Len(recent) > 0
        BY <1>3 DEF RecentList
      <3> QED BY <1>3, <3>1 DEF OpenDir
    <2>2. PICK there \in Found(Entries) : v = PostOpen(Relisted(u, Recents, RecentLines(u, there)), sel)
      BY <2>1 DEF OpenRecent
    <2>3. LET l == RecentLines(u, there)
          IN  l \in Seq(LineType) /\ \A i \in DOMAIN l : ~l[i].on /\ LineRight(Recents, l[i])
      BY RecentLinesAreLines
    <2> QED BY <1>1, <1>3, <2>2, <2>3
  <1>4. CASE d # Recents
    <2>1. d \in Dirs
      BY <1>4
    <2>2. \/ v = PostOpen(Relisted(u, <<>>, <<>>), sel)
          \/ \E l \in Readings(u, d) : v = PostOpen(Relisted(u, d, l), sel)
      <3>1. ~MayAbort(u, d)
        BY CalmNeverAborts
      <3> QED BY <1>4, <3>1 DEF OpenDir
    <2>3. CASE v = PostOpen(Relisted(u, <<>>, <<>>), sel)
      <3>1. <<>> \in Dirs /\ <<>> # Recents
        BY EntryFacts, TreeAssumption
      <3>2. <<>> \in Seq(LineType) /\ DOMAIN <<>> = {}
        OBVIOUS
      <3> QED BY <1>1, <2>3, <3>1, <3>2
    <2>4. ASSUME NEW l \in Readings(u, d), v = PostOpen(Relisted(u, d, l), sel)
          PROVE  Sound(v) /\ Kept(u, v) /\ v.scrl >= 0
      <3>1. l \in Seq(LineType) /\ \A i \in DOMAIN l : ~l[i].on /\ LineRight(d, l[i])
        BY <2>1, ReadingsAreLines
      <3> QED BY <1>1, <1>4, <2>4, <3>1
    <2> QED BY <2>2, <2>3, <2>4
  <1> QED BY <1>3, <1>4

-----------------------------------------------------------------------------
(* What an event does.                                                     *)

\* The parts of fib that Sound is about.
Alike(u, w) ==
  /\ w.shown = u.shown /\ w.mapped = u.mapped /\ w.aborted = u.aborted /\ w.cur = u.cur
  /\ w.list = u.list /\ w.fsel = u.fsel /\ w.scrl = u.scrl /\ w.llen = u.llen /\ w.bar = u.bar

LEMMA AlikeIsSound ==
  ASSUME NEW u, NEW w \in FibType, Alike(u, w)
  PROVE  /\ Whole(u) => Whole(w)
         /\ Marked(u) => Marked(w)
         /\ Level(u) => Level(w)
         /\ Sound(u) => Sound(w)
  <1>1. NumRows(w) = NumRows(u) /\ HasScrollBar(w) = HasScrollBar(u)
    BY DEF Alike, NumRows, HasScrollBar
  <1>2. Whole(u) => Whole(w)
    BY DEF Alike, Whole, LinesRight
  <1>3. Marked(u) => Marked(w)
    BY <1>1 DEF Alike, Marked
  <1>4. Level(u) => Level(w)
    BY <1>1 DEF Alike, Level
  <1> QED BY <1>2, <1>3, <1>4 DEF Sound

\* v returns what u shows as selected.
Returns(u, v) ==
  \E i \in DOMAIN u.list :
    /\ u.list[i].on
    /\ \A j \in DOMAIN u.list : u.list[j].on => i = j
    /\ v.chosen = Append(u.list[i].dir, u.list[i].name)

Good(v) ==
  /\ Sound(v)
  /\ fib.status = 0 /\ v.status = 1 => Returns(fib, v)
  /\ Stays(fib, v) \/ (fib.drag /\ ~fib.bar)

LEMMA ClosedIsSound ==
  ASSUME NEW u \in FibType, ~u.aborted
  PROVE  /\ Sound(Closed(u)) /\ Closed(u).status = u.status
         /\ Closed(u).chosen = u.chosen /\ Closed(u).scrl = 0
  <1> DEFINE S == Seq(LineType)
             T == Seq(Nat)
             p == Put(u, <<>>, -1, 0)
             w == [p EXCEPT !.shown = FALSE, !.bar = FALSE, !.mapped = FALSE, !.llen = ShownRows]
  <1>1. FibType = FibRecord(T, S)
    BY DEF FibType, FibRecord
  <1>2. <<>> \in Seq(LineType) /\ -1 \in Int /\ 0 \in Int /\ ShownRows \in Rows
    BY BoundsAssumption
  <1>3. Closed(u) = w
    BY <1>1 DEF Closed, Put
  <1>4. /\ p \in FibType /\ p.list = <<>> /\ p.fsel = -1 /\ p.scrl = 0 /\ p.cur = u.cur
        /\ p.aborted = u.aborted /\ Kept(u, p)
    <2> DEFINE e == <<>>
               f == -1
               c == 0
    <2>1. e \in Seq(LineType) /\ f \in Int /\ c \in Int
      BY <1>2
    <2> HIDE DEF e, f, c
    <2>2. LET q == Put(u, e, f, c)
          IN  /\ q \in FibType /\ q.list = e /\ q.fsel = f /\ q.scrl = c /\ q.cur = u.cur
              /\ q.aborted = u.aborted /\ Kept(u, q)
      BY <2>1, PutFacts
    <2> QED BY <2>2 DEF e, f, c
  <1>5. p.chosen = u.chosen
    BY <1>1 DEF Put
  <1> HIDE DEF p, S, T
  <1>6. /\ w \in FibType /\ w.shown = FALSE /\ w.mapped = FALSE /\ w.bar = FALSE
        /\ w.list = p.list /\ w.fsel = p.fsel /\ w.scrl = p.scrl /\ w.aborted = p.aborted
        /\ w.status = p.status /\ w.chosen = p.chosen
    BY <1>1, <1>2, <1>4 DEF FibRecord
  <1> HIDE DEF w
  <1>7. w.list = <<>> /\ DOMAIN w.list = {} /\ NumRows(w) = 0
    BY <1>4, <1>6 DEF NumRows
  <1>8. Whole(w) /\ Marked(w) /\ Level(w)
    BY <1>4, <1>6, <1>7 DEF Whole, LinesRight, Marked, Level
  <1> QED BY <1>3, <1>4, <1>5, <1>6, <1>8 DEF Sound, Kept

LEMMA DoneIsGood ==
  ASSUME NEW u, Sound(u), Stays(fib, u), fib.status = 0 /\ u.status = 1 => Returns(fib, u)
  PROVE  Good(Done(u))
  <1>1. u \in FibType /\ ~u.aborted
    BY DEF Sound, Whole
  <1>2. CASE u.status # 0
    <2>1. Done(u) = Closed(u)
      BY <1>2 DEF Done
    <2>2. /\ Sound(Closed(u)) /\ Closed(u).status = u.status
          /\ Closed(u).chosen = u.chosen /\ Closed(u).scrl = 0
      BY <1>1, ClosedIsSound
    <2>3. Returns(fib, u) => Returns(fib, Closed(u))
      BY <2>2 DEF Returns
    <2> QED BY <2>1, <2>2, <2>3 DEF Good, Stays
  <1>3. CASE u.status = 0
    <2>1. Done(u) = u
      BY <1>3 DEF Done
    <2> QED BY <1>3, <2>1 DEF Good
  <1> QED BY <1>2, <1>3

LEMMA ChosenFacts ==
  ASSUME NEW u \in FibType, NEW p \in Seq(Nat)
  PROVE  LET v == Chosen(u, p)
         IN  v \in FibType /\ v.chosen = p /\ Alike(u, v)
  <1> DEFINE S == Seq(LineType)
             T == Seq(Nat)
             a == [u EXCEPT !.status = 1]
             b == [a EXCEPT !.chosen = p]
  <1>1. p \in T /\ FibType = FibRecord(T, S)
    BY DEF FibType, FibRecord
  <1> HIDE DEF S, T
  <1>2. a \in FibType
    BY <1>1 DEF FibRecord
  <1>3. Alike(u, a)
    BY <1>1 DEF Alike
  <1>4. Chosen(u, p) = b
    BY DEF Chosen
  <1> HIDE DEF a
  <1>5. b \in FibType /\ b.chosen = p
    BY <1>1, <1>2 DEF FibRecord
  <1>6. Alike(a, b)
    BY <1>1, <1>2 DEF Alike
  <1> HIDE DEF b
  <1>7. Alike(u, b)
    BY <1>3, <1>6 DEF Alike
  <1> QED BY <1>4, <1>5, <1>7

\* fib_open, of the line that is selected.
LEMMA OpenedIsGood ==
  ASSUME Calm, RecentList(recent), Sound(fib), fib.shown, fib.status = 0,
         fib.fsel >= 0, NEW v \in Opened(fib, fib.fsel)
  PROVE  Sound(v) /\ Stays(fib, v) /\ (fib.status = 0 /\ v.status = 1 => Returns(fib, v))
  <1> DEFINE k == fib.fsel + 1
             l == fib.list[k]
  <1>1. /\ fib \in FibType /\ ~fib.aborted /\ fib.list \in Seq(LineType)
        /\ fib.fsel \in Int /\ NumRows(fib) \in Nat /\ DOMAIN fib.list = 1 .. NumRows(fib)
    BY ListFacts DEF Sound, Whole
  <1>2. k \in DOMAIN fib.list /\ l \in LineType /\ LineRight(fib.cur, l)
        /\ \A j \in DOMAIN fib.list : fib.list[j].on <=> j = k
    <2>1. k \in DOMAIN fib.list
      BY <1>1 DEF Sound, Marked
    <2> HIDE DEF k
    <2>2. l \in LineType
      BY <1>1, <2>1
    <2>3. LineRight(fib.cur, l)
      BY <2>1 DEF Sound, Whole, LinesRight
    <2>4. \A j \in DOMAIN fib.list : fib.list[j].on <=> j = k
      BY DEF Sound, Marked, k
    <2> QED BY <2>1, <2>2, <2>3, <2>4
  <1>3. l.dir \in Seq(Nat) /\ l.name \in Nat
    BY <1>2 DEF LineType
  <1>4. Append(l.dir, l.name) \in Seq(Nat)
    BY <1>3
  <1>5. fib.cur \in Dirs \cup {Recents}
    BY <1>1 DEF FibType, FibRecord
  <1>6. ASSUME NEW p, p = Append(l.dir, l.name), v = Chosen(fib, p)
        PROVE  Sound(v) /\ Stays(fib, v) /\ Returns(fib, v)
    <2>1. p \in Seq(Nat)
      BY <1>4, <1>6
    <2>2. v \in FibType /\ v.chosen = p /\ Alike(fib, v)
      BY <1>1, <1>6, <2>1, ChosenFacts
    <2>3. Sound(v)
      BY <2>2, AlikeIsSound
    <2>4. Returns(fib, v)
      <3> HIDE DEF k
      <3> QED BY <1>2, <1>6, <2>2 DEF Returns
    <2>5. Stays(fib, v)
      BY <2>2 DEF Alike, Stays
    <2> QED BY <2>3, <2>4, <2>5
  <1> HIDE DEF k
  <1>7. CASE l.rfp # 0
    <2>1. recent[l.rfp].path = Append(l.dir, l.name)
      BY <1>2, <1>7 DEF LineRight
    <2>2. v = Chosen(fib, recent[l.rfp].path)
      BY <1>7 DEF Opened, k
    <2> QED BY <1>6, <2>1, <2>2
  <1>8. CASE l.rfp = 0
    <2>1. fib.cur # Recents /\ l.dir = fib.cur
      <3>1. 0 \notin DOMAIN recent
        BY DEF RecentList
      <3> QED BY <1>2, <1>8, <3>1 DEF LineRight
    <2>2. CASE l.isdir
      <3>1. v \in OpenDir(fib, Append(fib.cur, l.name), NoName)
        BY <1>8, <2>2 DEF Opened, k
      <3>2. Append(fib.cur, l.name) \in Dirs /\ Append(fib.cur, l.name) # Recents
        BY <1>2, <2>1, <2>2, TreeAssumption DEF LineRight
      <3>3. Sound(v) /\ Kept(fib, v) /\ v.scrl >= 0
        BY <1>1, <3>1, <3>2, OpenDirIsSound
      <3> QED BY <3>3 DEF Kept, Stays
    <2>3. CASE ~l.isdir
      <3>1. v = Chosen(fib, Append(fib.cur, l.name))
        BY <1>8, <2>3 DEF Opened, k
      <3> QED BY <1>6, <2>1, <3>1
    <2> QED BY <2>2, <2>3
  <1> QED BY <1>7, <1>8

LEMMA OpenSelectedIsGood ==
  ASSUME Calm, RecentList(recent), Sound(fib), fib.shown, fib.status = 0,
         NEW v \in OpenSelected(fib)
  PROVE  Good(Done(v))
  <1>1. CASE fib.fsel >= 0 /\ fib.fsel < NumRows(fib)
    <2>1. v \in Opened(fib, fib.fsel)
      BY <1>1 DEF OpenSelected
    <2>2. Sound(v) /\ Stays(fib, v) /\ (fib.status = 0 /\ v.status = 1 => Returns(fib, v))
      BY <1>1, <2>1, OpenedIsGood
    <2> QED BY <2>2, DoneIsGood
  <1>2. CASE ~(fib.fsel >= 0 /\ fib.fsel < NumRows(fib))
    <2>1. v = fib
      BY <1>2 DEF OpenSelected
    <2>2. ~(fib.status = 0 /\ v.status = 1) /\ Stays(fib, v)
      BY <2>1 DEF Stays
    <2> QED BY <2>1, <2>2, DoneIsGood
  <1> QED BY <1>1, <1>2

\* A position is brought into a range that is not empty.
LEMMA InRangeIsInList ==
  ASSUME NEW n \in Int, NEW last \in Int, last >= 0
  PROVE  InRange(n, last) \in Int /\ InRange(n, last) >= 0
  BY DEF InRange, AtLeast0

\* The code assumes that one line fits into the window, and asks for it.
RowsFit == Rows \subseteq Nat \ {0}

\* Where there is a scroll bar the list is longer than the window.
LEMMA BarIsLonger ==
  ASSUME NEW u, Sound(u), u.mapped, u.bar
  PROVE  /\ NumRows(u) \in Nat /\ u.llen \in Int /\ u.llen < NumRows(u)
         /\ LastTop(u) \in Int /\ LastTop(u) >= 0
         /\ RowsFit => u.llen >= 1
  <1>1. u \in FibType /\ NumRows(u) \in Nat /\ u.llen \in Int
    BY ListFacts DEF Sound, Whole
  <1>2. u.llen < NumRows(u)
    BY DEF Sound, Level, HasScrollBar
  <1>3. RowsFit => u.llen >= 1
    BY <1>1 DEF RowsFit, FibType, FibRecord
  <1> QED BY <1>1, <1>2, <1>3 DEF LastTop

LEMMA ScrolledToIsSound ==
  ASSUME NEW u, Sound(u), NEW n, u.bar => n \in Int /\ n >= 0
  PROVE  /\ Sound(ScrolledTo(u, n)) /\ Kept(u, ScrolledTo(u, n))
         /\ Stays(u, ScrolledTo(u, n))
  <1>1. u \in FibType
    BY DEF Sound, Whole
  <1>2. CASE n # u.scrl /\ u.bar
    <2> DEFINE w == [u EXCEPT !.scrl = n]
    <2>1. n \in Int /\ n >= 0
      BY <1>2
    <2>2. ScrolledTo(u, n) = Exposed(w)
      BY <1>2, <2>1 DEF ScrolledTo
    <2>3. /\ w \in FibType /\ w.scrl = n /\ Kept(u, w) /\ w.list = u.list /\ w.fsel = u.fsel
          /\ w.cur = u.cur /\ w.aborted = u.aborted
      BY <1>1, <2>1 DEF FibType, FibRecord, Kept
    <2> HIDE DEF w
    <2>4. Whole(w) /\ Marked(w)
      BY <2>3 DEF Sound, Whole, LinesRight, Marked, NumRows, Kept
    <2>5. Sound(Exposed(w)) /\ Kept(w, Exposed(w)) /\ Stays(w, Exposed(w))
      BY <2>4, ExposedIsSound
    <2> QED BY <2>1, <2>2, <2>3, <2>5 DEF Kept, Stays
  <1>3. CASE ~(n # u.scrl /\ u.bar)
    <2>1. ScrolledTo(u, n) = u
      BY <1>3 DEF ScrolledTo
    <2> QED BY <2>1 DEF Kept, Stays
  <1> QED BY <1>2, <1>3

-----------------------------------------------------------------------------
(* The steps.                                                              *)

FibInv ==
  /\ Sound(fib) /\ RecentList(recent) /\ clock \in 0..MaxTime

Follows(u, w) == w.status = u.status /\ w.chosen = u.chosen

LEMMA FlagFacts ==
  ASSUME NEW u \in FibType, NEW b \in BOOLEAN
  PROVE  /\ LET w == [u EXCEPT !.dblclk = b] IN w \in FibType /\ Alike(u, w) /\ Follows(u, w)
         /\ LET w == [u EXCEPT !.filter = b] IN w \in FibType /\ Alike(u, w) /\ Follows(u, w)
         /\ LET w == [u EXCEPT !.hidden = b] IN w \in FibType /\ Alike(u, w) /\ Follows(u, w)
  <1> DEFINE S == Seq(LineType)
             T == Seq(Nat)
  <1>1. FibType = FibRecord(T, S)
    BY DEF FibType, FibRecord
  <1> HIDE DEF S, T
  <1>2. LET w == [u EXCEPT !.dblclk = b] IN w \in FibType /\ Alike(u, w) /\ Follows(u, w)
    BY <1>1 DEF Alike, Follows, FibRecord
  <1>3. LET w == [u EXCEPT !.filter = b] IN w \in FibType /\ Alike(u, w) /\ Follows(u, w)
    BY <1>1 DEF Alike, Follows, FibRecord
  <1>4. LET w == [u EXCEPT !.hidden = b] IN w \in FibType /\ Alike(u, w) /\ Follows(u, w)
    BY <1>1 DEF Alike, Follows, FibRecord
  <1> QED BY <1>2, <1>3, <1>4

LEMMA StatusFacts ==
  ASSUME NEW u \in FibType, NEW n \in -2..1
  PROVE  LET w == [u EXCEPT !.status = n]
         IN  w \in FibType /\ Alike(u, w) /\ w.status = n
  <1> DEFINE S == Seq(LineType)
             T == Seq(Nat)
  <1>1. FibType = FibRecord(T, S)
    BY DEF FibType, FibRecord
  <1> HIDE DEF S, T
  <1> QED BY <1>1 DEF Alike, FibRecord

AsShown(u) == [u EXCEPT !.shown = TRUE, !.status = 0]

LEMMA ShownFacts ==
  ASSUME NEW u \in FibType
  PROVE  LET w == AsShown(u)
         IN  /\ w \in FibType /\ w.shown = TRUE /\ w.aborted = u.aborted /\ w.status = 0
             /\ w.cur = u.cur
  <1> DEFINE S == Seq(LineType)
             T == Seq(Nat)
             a == [u EXCEPT !.shown = TRUE]
             b == [a EXCEPT !.status = 0]
  <1>1. FibType = FibRecord(T, S)
    BY DEF FibType, FibRecord
  <1> HIDE DEF S, T
  <1>2. /\ a \in FibType /\ a.shown = TRUE /\ a.aborted = u.aborted
        /\ a.cur = u.cur
    BY <1>1 DEF FibRecord
  <1> HIDE DEF a
  <1>3. 0 \in -2..1
    OBVIOUS
  <1>4. b \in FibType /\ Alike(a, b) /\ b.status = 0
    BY <1>2, <1>3, StatusFacts
  <1>5. b = AsShown(u)
    BY DEF a, AsShown
  <1> HIDE DEF b
  <1> QED BY <1>2, <1>4, <1>5 DEF Alike

LEMMA DragFacts ==
  ASSUME NEW u \in FibType, NEW b \in BOOLEAN
  PROVE  LET w == [u EXCEPT !.drag = b]
         IN  w \in FibType /\ Alike(u, w) /\ w.status = u.status
  <1> DEFINE S == Seq(LineType)
             T == Seq(Nat)
  <1>1. FibType = FibRecord(T, S)
    BY DEF FibType, FibRecord
  <1> HIDE DEF S, T
  <1> QED BY <1>1 DEF Alike, FibRecord

\* A handler that only follows the status that was is good without a return.
LEMMA KeptIsGood ==
  ASSUME NEW v, Sound(v), fib.status = 0, Kept(fib, v), Stays(fib, v) \/ (fib.drag /\ ~fib.bar)
  PROVE  Good(v)
  BY DEF Kept, Good

LEMMA FibFacts ==
  ASSUME FibInv
  PROVE  /\ fib \in FibType /\ ~fib.aborted /\ Whole(fib) /\ Marked(fib) /\ NoOtherMarked(fib)
         /\ Level(fib)
         /\ fib.list \in Seq(LineType) /\ NumRows(fib) \in Nat /\ DOMAIN fib.list = 1 .. NumRows(fib)
         /\ fib.scrl \in Int /\ fib.llen \in Int /\ fib.fsel \in Int /\ fib.drag \in BOOLEAN
         /\ fib.fsel \in -1 .. NumRows(fib) - 1
         /\ fib.cur \in Dirs \cup {Recents}
  <1>1. Sound(fib) /\ Whole(fib) /\ Marked(fib) /\ Level(fib) /\ fib \in FibType /\ ~fib.aborted
    BY DEF FibInv, Sound, Whole
  <1>2. /\ fib.list \in Seq(LineType) /\ NumRows(fib) \in Nat /\ DOMAIN fib.list = 1 .. NumRows(fib)
        /\ fib.scrl \in Int /\ fib.llen \in Int /\ fib.fsel \in Int
    BY <1>1, ListFacts
  <1>3. NoOtherMarked(fib)
    BY <1>1 DEF Marked, NoOtherMarked
  <1>4. fib.cur \in Dirs \cup {Recents} /\ fib.drag \in BOOLEAN
    BY <1>1 DEF FibType, FibRecord
  <1> QED BY <1>1, <1>2, <1>3, <1>4 DEF Marked

\* A handler that opens a directory.
LEMMA OpenDirIsGood ==
  ASSUME Calm, FibInv, fib.shown, fib.status = 0,
         NEW u \in FibType, Alike(fib, u), Follows(fib, u),
         NEW d \in Dirs \cup {Recents}, d = Recents => recent # <<>>,
         NEW sel, Becomes(OpenDir(u, d, sel))
  PROVE  Good(fib')
  <1>1. PICK v \in OpenDir(u, d, sel) : fib' = Done(v)
    BY DEF Becomes
  <1>2. u.shown /\ ~u.aborted /\ RecentList(recent)
    BY FibFacts DEF Alike, FibInv
  <1>3. Sound(v) /\ Kept(u, v) /\ v.scrl >= 0
    BY <1>1, <1>2, OpenDirIsSound
  <1>4. Stays(fib, v) /\ v.status = 0
    BY <1>3 DEF Kept, Follows, Stays
  <1> QED BY <1>1, <1>3, <1>4, DoneIsGood

LEMMA SelectedIsGood ==
  ASSUME FibInv, fib.status = 0, NEW item \in Int
  PROVE  Good(Selected(fib, item))
  BY FibFacts, SelectedIsSound, KeptIsGood

\* The scroll bar, the wheel and the pointer's motion.
LEMMA ScrollIsGood ==
  ASSUME RowsFit, FibInv, ScrollBarDrag \/ ScrollBarPage \/ Motion \/ MouseUp \/ Wheel
  PROVE  Good(fib')
  <1>1. CASE ScrollBarDrag
    <2> DEFINE a == [fib EXCEPT !.dblclk = FALSE]
               b == [a EXCEPT !.drag = TRUE]
    <2>1. a \in FibType /\ Alike(fib, a) /\ Follows(fib, a)
      BY FibFacts, FlagFacts
    <2> HIDE DEF a
    <2>2. b \in FibType /\ Alike(a, b) /\ b.status = a.status
      <3> DEFINE y == TRUE
      <3>1. y \in BOOLEAN
        OBVIOUS
      <3> HIDE DEF y, b
      <3>2. LET w == [a EXCEPT !.drag = y] IN w \in FibType /\ Alike(a, w) /\ w.status = a.status
        BY <2>1, <3>1, DragFacts
      <3> QED BY <3>2 DEF y, b
    <2>3. fib' = b
      BY <1>1 DEF ScrollBarDrag, a
    <2> HIDE DEF b
    <2>4. Alike(fib, b) /\ b.status = 0
      BY <1>1, <2>1, <2>2 DEF Alike, Follows, ScrollBarDrag, Pointer, Active
    <2>5. Sound(b)
      BY <2>2, <2>4, AlikeIsSound DEF FibInv
    <2>6. Stays(fib, b)
      BY <2>4 DEF Stays, Alike
    <2> QED BY <2>3, <2>4, <2>5, <2>6 DEF Good
  <1>2. CASE ScrollBarPage
    <2> DEFINE u == [fib EXCEPT !.dblclk = FALSE]
               llen == IF fib.llen < 2 THEN 2 ELSE fib.llen
    <2>1. PICK dir \in {-1, 1} :
            fib' = ScrolledTo(u, InRange(fib.scrl + dir * (llen - 1), NumRows(fib) - llen))
      BY <1>2 DEF ScrollBarPage
    <2>2. fib.scrl + dir * (llen - 1) \in Int
      BY FibFacts
    <2>3. fib.status = 0 /\ fib.mapped /\ fib.bar
      BY <1>2 DEF ScrollBarPage, Pointer, Active
    <2> DEFINE n == InRange(fib.scrl + dir * (llen - 1), NumRows(fib) - llen)
    <2>4. n \in Int /\ n >= 0
      <3>1. NumRows(fib) \in Nat /\ fib.llen \in Int /\ fib.llen >= 1 /\ fib.llen < NumRows(fib)
        BY <2>3, BarIsLonger DEF FibInv
      <3>2. NumRows(fib) - llen \in Int /\ NumRows(fib) - llen >= 0
        BY <3>1
      <3> DEFINE c == fib.scrl + dir * (llen - 1)
                 d == NumRows(fib) - llen
      <3>3. c \in Int /\ d \in Int /\ d >= 0
        BY <2>2, <3>2
      <3> HIDE DEF c, d
      <3>4. InRange(c, d) \in Int /\ InRange(c, d) >= 0
        BY <3>3, InRangeIsInList
      <3> QED BY <3>4 DEF c, d
    <2>5. u \in FibType /\ Alike(fib, u) /\ Follows(fib, u)
      BY FibFacts, FlagFacts
    <2>6. fib' = ScrolledTo(u, n)
      BY <2>1
    <2> HIDE DEF u, n
    <2>7. Sound(u)
      BY <2>5, AlikeIsSound DEF FibInv
    <2>8. Sound(ScrolledTo(u, n)) /\ Kept(u, ScrolledTo(u, n)) /\ Stays(u, ScrolledTo(u, n))
      BY <2>4, <2>7, ScrolledToIsSound
    <2>9. Kept(fib, fib') /\ Stays(fib, fib')
      BY <2>5, <2>6, <2>8 DEF Kept, Alike, Follows, Stays
    <2> QED BY <2>3, <2>6, <2>8, <2>9, KeptIsGood
  <1>3. CASE Motion
    <2>1. PICK n \in 0 .. MaxRows :
            fib' = LET m == InRange(n, LastTop(fib)) IN
                   IF m # fib.scrl THEN Exposed([fib EXCEPT !.scrl = m]) ELSE fib
      BY <1>3 DEF Motion
    <2>2. fib.status = 0 /\ fib.drag /\ fib.mapped
      BY <1>3 DEF Motion, Pointer, Active
    <2> DEFINE m == InRange(n, LastTop(fib))
               w == [fib EXCEPT !.scrl = m]
    <2>3. m \in Int /\ (fib.bar => m >= 0)
      <3>1. n \in Int /\ LastTop(fib) \in Int
        BY FibFacts DEF LastTop
      <3>2. m \in Int
        BY <3>1 DEF InRange, AtLeast0
      <3>3. ASSUME fib.bar PROVE m >= 0
        <4>1. LastTop(fib) >= 0
          BY <2>2, <3>3, BarIsLonger DEF FibInv
        <4> QED BY <3>1, <4>1, InRangeIsInList
      <3> QED BY <3>2, <3>3
    <2>4. fib' = IF m # fib.scrl THEN Exposed(w) ELSE fib
      BY <2>1
    <2> HIDE DEF m
    <2>5. /\ w \in FibType /\ w.scrl = m /\ Kept(fib, w) /\ w.list = fib.list /\ w.fsel = fib.fsel
          /\ w.cur = fib.cur /\ w.aborted = fib.aborted
      BY <2>3, FibFacts DEF FibType, FibRecord, Kept
    <2> HIDE DEF w
    <2>6. Whole(w) /\ Marked(w)
      BY <2>5, FibFacts DEF Whole, LinesRight, Marked, NumRows, Kept
    <2>7. Sound(Exposed(w)) /\ Kept(w, Exposed(w)) /\ Stays(w, Exposed(w))
      BY <2>6, ExposedIsSound
    <2>8. Sound(fib') /\ Kept(fib, fib')
      BY <2>4, <2>5, <2>7 DEF Kept, FibInv
    <2>9. Stays(fib, fib') \/ ~fib.bar
      BY <2>3, <2>4, <2>5, <2>7 DEF Stays
    <2> QED BY <2>2, <2>8, <2>9, KeptIsGood
  <1>4. CASE MouseUp
    <2> DEFINE y == FALSE
               w == [fib EXCEPT !.drag = y]
    <2>1. fib' = w /\ fib.status = 0
      BY <1>4 DEF MouseUp, Pointer, Active
    <2>2. y \in BOOLEAN
      OBVIOUS
    <2> HIDE DEF y
    <2>3. w \in FibType /\ Alike(fib, w) /\ w.status = fib.status
      BY <2>2, FibFacts, DragFacts
    <2> HIDE DEF w
    <2>4. Sound(w)
      BY <2>3, AlikeIsSound DEF FibInv
    <2>5. Stays(fib, w)
      BY <2>3 DEF Stays, Alike
    <2> QED BY <2>1, <2>3, <2>4, <2>5 DEF Good
  <1>5. CASE Wheel
    <2>1. PICK dir \in {-1, 1} :
            fib' = [ScrolledTo(fib, InRange(fib.scrl + dir, LastTop(fib))) EXCEPT !.dblclk = FALSE]
      BY <1>5 DEF Wheel
    <2> DEFINE n == InRange(fib.scrl + dir, LastTop(fib))
               v == ScrolledTo(fib, n)
               w == [v EXCEPT !.dblclk = FALSE]
    <2>2. fib.status = 0 /\ fib.mapped
      BY <1>5 DEF Wheel, Pointer, Active
    <2>3. fib.bar => n \in Int /\ n >= 0
      <3>1. fib.scrl + dir \in Int
        BY FibFacts
      <3>2. fib.bar => LastTop(fib) \in Int /\ LastTop(fib) >= 0
        BY <2>2, BarIsLonger DEF FibInv
      <3> QED BY <3>1, <3>2, InRangeIsInList
    <2>4. fib' = w
      BY <2>1
    <2> HIDE DEF n
    <2>5. Sound(v) /\ Kept(fib, v) /\ Stays(fib, v)
      BY <2>3, ScrolledToIsSound DEF FibInv
    <2> HIDE DEF v
    <2>6. w \in FibType /\ Alike(v, w) /\ Follows(v, w)
      BY <2>5, FlagFacts DEF Sound, Whole
    <2> HIDE DEF w
    <2>7. Sound(w) /\ Kept(fib, w) /\ Stays(fib, w)
      BY <2>5, <2>6, AlikeIsSound DEF Kept, Alike, Follows, Stays
    <2> QED BY <2>2, <2>4, <2>7, KeptIsGood
  <1> QED BY <1>1, <1>2, <1>3, <1>4, <1>5

\* The other clicks.
LEMMA ClickIsGood ==
  ASSUME Calm, FibInv,
         \/ ClickFile \/ ClickPath \/ ClickPlace \/ ClickSort
         \/ ClickFilter \/ ClickHidden \/ ClickOpenButton
  PROVE  Good(fib')
  <1>1. fib.shown /\ fib.status = 0 /\ fib.mapped /\ fib \in FibType
    <2>1. Pointer
      BY DEF ClickFile, ClickPath, ClickPlace, ClickSort, ClickFilter, ClickHidden, ClickOpenButton
    <2> QED BY <2>1, FibFacts DEF Pointer, Active
  <1>2. Alike(fib, fib) /\ Follows(fib, fib)
    BY DEF Alike, Follows
  <1>3. fib.cur = Recents => recent # <<>>
    BY <1>1, FibFacts DEF Whole
  <1>4. CASE ClickFile
    <2>0. PICK item \in ClickableRows(fib), fast \in BOOLEAN :
            \E u \in (IF fib.fsel # item THEN {Selected(fib, item)}
                      ELSE IF fast THEN Opened(fib, item) ELSE {fib}) :
              fib' = Done([u EXCEPT !.dblclk = TRUE])
      BY <1>4 DEF ClickFile
    <2>1. PICK u \in (IF fib.fsel # item THEN {Selected(fib, item)}
                      ELSE IF fast THEN Opened(fib, item) ELSE {fib}) :
            fib' = Done([u EXCEPT !.dblclk = TRUE])
      BY <2>0
    <2>2. item \in Int /\ item >= 0
      BY FibFacts DEF ClickableRows
    <2>3. Sound(u) /\ Stays(fib, u) /\ (fib.status = 0 /\ u.status = 1 => Returns(fib, u))
      <3>1. CASE fib.fsel # item
        <4>1. u = Selected(fib, item)
          BY <2>1, <3>1
        <4>2. Sound(u) /\ Kept(fib, u) /\ Stays(fib, u)
          BY <2>2, <4>1, FibFacts, SelectedIsSound
        <4> QED BY <1>1, <4>2 DEF Kept
      <3>2. CASE fib.fsel = item /\ fast
        <4>1. u \in Opened(fib, fib.fsel)
          BY <2>1, <3>2
        <4> QED BY <1>1, <2>2, <3>2, <4>1, OpenedIsGood DEF FibInv
      <3>3. CASE fib.fsel = item /\ ~fast
        <4>1. u = fib
          BY <2>1, <3>3
        <4> QED BY <1>1, <4>1 DEF FibInv, Stays
      <3> QED BY <3>1, <3>2, <3>3
    <2> DEFINE w == [u EXCEPT !.dblclk = TRUE]
    <2>4. w \in FibType /\ Alike(u, w) /\ Follows(u, w)
      BY <2>3, FlagFacts DEF Sound, Whole
    <2>5. fib' = Done(w)
      BY <2>1
    <2> HIDE DEF w
    <2>6. Sound(w)
      BY <2>3, <2>4, AlikeIsSound
    <2>7. Stays(fib, w) /\ (fib.status = 0 /\ w.status = 1 => Returns(fib, w))
      BY <2>3, <2>4 DEF Follows, Returns, Alike, Stays
    <2> QED BY <2>5, <2>6, <2>7, DoneIsGood
  <1>5. CASE ClickPath
    <2>1. fib.cur \in Dirs /\ fib.cur # Recents
      BY <1>5, FibFacts DEF ClickPath
    <2>2. PICK it \in 0 .. Len(fib.cur) :
            Becomes(OpenDir(fib, SubSeq(fib.cur, 1, it),
                            IF it < Len(fib.cur) THEN fib.cur[it + 1] ELSE SelectedName(fib)))
      BY <1>5 DEF ClickPath
    <2>3. SubSeq(fib.cur, 1, it) \in Dirs /\ SubSeq(fib.cur, 1, it) # Recents
      BY <2>1, TreeAssumption
    <2> QED BY <1>1, <1>2, <2>2, <2>3, OpenDirIsGood
  <1>6. CASE ClickPlace
    <2>1. PICK d \in Places : Becomes(OpenDir(fib, d, NoName))
      BY <1>6 DEF ClickPlace
    <2>2. d \in Dirs \cup {Recents} /\ (d = Recents => recent # <<>>)
      BY TreeAssumption DEF Places
    <2> QED BY <1>1, <1>2, <2>1, <2>2, OpenDirIsGood
  <1>7. CASE ClickSort
    <2>1. PICK c \in Columns : fib' = ResortedBy(fib, c)
      BY <1>7 DEF ClickSort
    <2> DEFINE up == 2 * (c - 1)
               n == IF fib.sort = up THEN up + 1 ELSE up
               u == [fib EXCEPT !.sort = n, !.list = Unmarked(fib)]
               r == Resorted(u, SelectedName(u))
               v == [r EXCEPT !.scrl = 0]
    <2>2. fib' = Selected(v, v.fsel)
      BY <2>1 DEF ResortedBy
    <2>3. n \in 0..5
      <3>1. c \in 1..3
        BY BoundsAssumption
      <3> QED BY <3>1
    <2> HIDE DEF n
    <2>4. /\ Unmarked(fib) \in Seq(LineType) /\ Len(Unmarked(fib)) = Len(fib.list)
          /\ DOMAIN Unmarked(fib) = DOMAIN fib.list
          /\ \A i \in DOMAIN fib.list : /\ ~Unmarked(fib)[i].on
                                        /\ LineRight(fib.cur, Unmarked(fib)[i])
      BY FibFacts, UnmarkedHasNone
    <2> DEFINE l == Unmarked(fib)
               a == [fib EXCEPT !.sort = n]
               b == [a EXCEPT !.list = l]
    <2>5. a \in FibType /\ Alike(fib, a) /\ a.status = fib.status
      BY <1>1, <2>3 DEF FibType, FibRecord, Alike
    <2> HIDE DEF a, l
    <2>6. /\ b \in FibType /\ b.list = l /\ b.fsel = a.fsel /\ b.cur = a.cur /\ b.aborted = a.aborted
          /\ Kept(a, b)
      <3> DEFINE p == Put(a, l, a.fsel, a.scrl)
      <3>1. a.fsel \in Int /\ a.scrl \in Int /\ l \in Seq(LineType)
        BY <2>4, <2>5, ListFacts DEF l
      <3>2. b = p
        BY <2>5 DEF Put, FibType, FibRecord
      <3> HIDE DEF b
      <3> QED BY <2>5, <3>1, <3>2, PutFacts
    <2>7. u = b
      BY DEF a, l
    <2> HIDE DEF u, b
    <2>8. Whole(u)
      <3>1. LinesRight(u) /\ (u.list # <<>> => u.shown)
        BY <1>1, <2>4, <2>5, <2>6, <2>7 DEF LinesRight, Alike, Kept, l
      <3> QED BY <1>1, <1>3, <2>5, <2>6, <2>7, <3>1, FibFacts DEF Whole, Alike, Kept
    <2>9. u.fsel \in -1 .. (NumRows(u) - 1) /\ \A i \in DOMAIN u.list : ~u.list[i].on
      BY <2>4, <2>5, <2>6, <2>7, FibFacts DEF Alike, NumRows, l
    <2>10. Whole(r) /\ NoOtherMarked(r) /\ Kept(u, r)
      BY <2>8, <2>9, ResortedKeepsLines
    <2> HIDE DEF r
    <2>11. /\ v \in FibType /\ v.scrl = 0 /\ v.list = r.list /\ v.fsel = r.fsel /\ v.cur = r.cur
           /\ v.aborted = r.aborted /\ Kept(r, v)
      <3> DEFINE p == Put(r, r.list, r.fsel, 0)
      <3>1. r \in FibType /\ r.fsel \in Int /\ r.list \in Seq(LineType) /\ 0 \in Int
        BY <2>10, ListFacts DEF Whole
      <3>2. v = p
        BY <3>1 DEF Put, FibType, FibRecord
      <3> HIDE DEF v
      <3>3. /\ p \in FibType /\ p.scrl = 0 /\ p.list = r.list /\ p.fsel = r.fsel /\ p.cur = r.cur
            /\ p.aborted = r.aborted /\ Kept(r, p)
        BY <3>1, PutFacts
      <3> QED BY <3>2, <3>3
    <2> HIDE DEF v
    <2>12. Whole(v) /\ NoOtherMarked(v) /\ v.fsel \in Int
      <3>1. v.fsel \in Int
        BY <2>11, ListFacts
      <3> QED BY <2>10, <2>11, <3>1 DEF Whole, LinesRight, NoOtherMarked, NumRows, Kept
    <2>13. /\ Sound(Selected(v, v.fsel)) /\ Kept(v, Selected(v, v.fsel))
           /\ Stays(v, Selected(v, v.fsel))
      BY <2>12, SelectedIsSound
    <2>14. Kept(fib, fib') /\ Stays(fib, fib')
      BY <2>2, <2>5, <2>6, <2>7, <2>10, <2>11, <2>13 DEF Kept, Alike, Stays
    <2> QED BY <1>1, <2>2, <2>13, <2>14, KeptIsGood
  <1>8. CASE ClickFilter
    <2> DEFINE u == [fib EXCEPT !.filter = ~fib.filter]
    <2>1. Becomes(OpenDir(u, fib.cur, SelectedName(fib)))
      BY <1>8 DEF ClickFilter
    <2>2. (~fib.filter) \in BOOLEAN
      OBVIOUS
    <2>3. u \in FibType /\ Alike(fib, u) /\ Follows(fib, u)
      BY <1>1, <2>2, FlagFacts
    <2> HIDE DEF u
    <2> QED BY <1>1, <1>3, <2>1, <2>3, FibFacts, OpenDirIsGood
  <1>9. CASE ClickHidden
    <2> DEFINE u == [fib EXCEPT !.hidden = ~fib.hidden]
    <2>1. Becomes(OpenDir(u, fib.cur, SelectedName(fib)))
      BY <1>9 DEF ClickHidden
    <2>2. (~fib.hidden) \in BOOLEAN
      OBVIOUS
    <2>3. u \in FibType /\ Alike(fib, u) /\ Follows(fib, u)
      BY <1>1, <2>2, FlagFacts
    <2> HIDE DEF u
    <2> QED BY <1>1, <1>3, <2>1, <2>3, FibFacts, OpenDirIsGood
  <1>10. CASE ClickOpenButton
    <2>1. PICK v \in OpenSelected(fib) : fib' = Done(v)
      BY <1>10 DEF ClickOpenButton, Becomes
    <2> QED BY <1>1, <2>1, OpenSelectedIsGood DEF FibInv
  <1> QED BY <1>4, <1>5, <1>6, <1>7, <1>8, <1>9, <1>10

\* The keyboard.
LEMMA KeyIsGood ==
  ASSUME Calm, FibInv, Key
  PROVE  Good(fib')
  <1>1. fib.shown /\ fib.status = 0 /\ fib \in FibType
    <2>1. Keyboard
      BY DEF Key, Cancel, KeyUp, KeyDown, KeyPageUp, KeyPageDown, KeyLeft, KeyRight, KeyReturn,
             KeyLetter
    <2> QED BY <2>1, FibFacts DEF Keyboard, Active
  <1>2. Alike(fib, fib) /\ Follows(fib, fib)
    BY DEF Alike, Follows
  <1>3. CASE Cancel
    <2> DEFINE w == [fib EXCEPT !.status = -1]
    <2>1. fib' = Done(w)
      BY <1>3 DEF Cancel, Becomes
    <2>2. w \in FibType /\ Alike(fib, w) /\ w.status = -1
      <3>1. -1 \in -2..1
        OBVIOUS
      <3> HIDE DEF w
      <3> QED BY <1>1, <3>1, StatusFacts DEF w
    <2> HIDE DEF w
    <2>3. Sound(w) /\ Stays(fib, w)
      BY <2>2, AlikeIsSound DEF FibInv, Alike, Stays
    <2> QED BY <1>1, <2>1, <2>2, <2>3, DoneIsGood
  <1>4. CASE KeyUp
    <2>1. fib.fsel - 1 \in Int /\ fib' = Selected(fib, fib.fsel - 1)
      BY <1>4, FibFacts DEF KeyUp
    <2> QED BY <1>1, <2>1, SelectedIsGood
  <1>5. CASE KeyDown
    <2>1. fib.fsel + 1 \in Int /\ fib' = Selected(fib, fib.fsel + 1)
      BY <1>5, FibFacts DEF KeyDown
    <2> QED BY <1>1, <2>1, SelectedIsGood
  <1>6. CASE KeyPageUp
    <2> DEFINE n == AtLeast0(fib.fsel - PageStep(fib))
    <2>1. n \in Int
      BY FibFacts DEF AtLeast0, PageStep
    <2>2. fib' = Selected(fib, n)
      BY <1>6 DEF KeyPageUp
    <2> HIDE DEF n
    <2> QED BY <1>1, <2>1, <2>2, SelectedIsGood
  <1>7. CASE KeyPageDown
    <2> DEFINE to == fib.fsel + PageStep(fib)
               last == NumRows(fib) - 1
               n == IF to < last THEN to ELSE last
    <2>1. n \in Int
      BY FibFacts DEF PageStep
    <2>2. fib' = Selected(fib, n)
      BY <1>7 DEF KeyPageDown
    <2> HIDE DEF n
    <2> QED BY <1>1, <2>1, <2>2, SelectedIsGood
  <1>8. CASE KeyLeft
    <2>1. fib.cur \in Dirs /\ fib.cur # <<>> /\ fib.cur \in Seq(Nat)
      BY <1>8, FibFacts, EntryFacts DEF KeyLeft
    <2>2. Front(fib.cur) \in Dirs /\ Front(fib.cur) # Recents
      <3>1. Len(fib.cur) - 1 \in 0 .. Len(fib.cur)
        BY <2>1
      <3> QED BY <2>1, <3>1, TreeAssumption DEF Front
    <2>3. Becomes(OpenDir(fib, Front(fib.cur), Last(fib.cur)))
      BY <1>8 DEF KeyLeft
    <2> QED BY <1>1, <1>2, <2>2, <2>3, OpenDirIsGood
  <1>9. CASE KeyRight
    <2>1. PICK v \in Opened(fib, fib.fsel) : fib' = Done(v)
      BY <1>9 DEF KeyRight, Becomes
    <2>2. fib.fsel >= 0
      BY <1>9 DEF KeyRight
    <2>3. Sound(v) /\ Stays(fib, v) /\ (fib.status = 0 /\ v.status = 1 => Returns(fib, v))
      BY <1>1, <2>1, <2>2, OpenedIsGood DEF FibInv
    <2> QED BY <2>1, <2>3, DoneIsGood
  <1>10. CASE KeyReturn
    <2>1. PICK v \in OpenSelected(fib) : fib' = Done(v)
      BY <1>10 DEF KeyReturn, Becomes
    <2> QED BY <1>1, <2>1, OpenSelectedIsGood DEF FibInv
  <1>11. CASE KeyLetter
    <2>1. PICK i \in 0 .. (NumRows(fib) - 1) :
                fib' = Selected(fib, (fib.fsel + i + 1) % NumRows(fib))
      BY <1>11 DEF KeyLetter
    <2> DEFINE n == (fib.fsel + i + 1) % NumRows(fib)
    <2>2. n \in Int
      <3>1. NumRows(fib) \in Nat \ {0} /\ fib.fsel + i + 1 \in Int
        BY FibFacts
      <3> HIDE DEF n
      <3> QED BY <3>1 DEF n
    <2> HIDE DEF n
    <2>3. fib' = Selected(fib, n)
      BY <2>1 DEF n
    <2> QED BY <1>1, <2>2, <2>3, SelectedIsGood
  <1> QED BY <1>3, <1>4, <1>5, <1>6, <1>7, <1>8, <1>9, <1>10, <1>11 DEF Key

\* Showing the dialog opens the last directory, or else the home directory.
LEMMA ShowIsGood ==
  ASSUME Calm, FibInv, Show
  PROVE  Good(fib')
  <1> DEFINE a == AsShown(fib)
             u == [a EXCEPT !.chosen = <<>>]
             w == [fib EXCEPT !.shown = TRUE, !.status = 0, !.chosen = <<>>]
  <1>1. fib \in FibType /\ ~fib.shown /\ ~fib.aborted
    BY FibFacts DEF Show
  <1>3. u \in FibType /\ u.shown /\ ~u.aborted /\ u.status = 0 /\ u.cur = fib.cur
    <2> DEFINE S == Seq(LineType)
               T == Seq(Nat)
    <2>1. FibType = FibRecord(T, S)
      BY DEF FibType, FibRecord
    <2>2. <<>> \in T
      OBVIOUS
    <2> DEFINE e == <<>>
               b == [a EXCEPT !.chosen = e]
    <2> HIDE DEF S, T
    <2>3. /\ a \in FibType /\ a.shown = TRUE /\ a.aborted = fib.aborted /\ a.status = 0
          /\ a.cur = fib.cur
      BY <1>1, ShownFacts
    <2>4. e \in T
      BY <2>2
    <2> HIDE DEF a, e
    <2>5. /\ b \in FibType /\ b.shown = a.shown /\ b.aborted = a.aborted /\ b.status = a.status
          /\ b.cur = a.cur
      BY <2>1, <2>3, <2>4 DEF FibRecord
    <2>6. u = b
      BY DEF e
    <2> HIDE DEF b
    <2> QED BY <1>1, <2>3, <2>5, <2>6
  <1>4. u = w
    BY <1>1 DEF FibType, FibRecord, AsShown
  <1>5. \/ /\ w.cur # Recents
           /\ \E v \in OpenDir(w, w.cur, NoName) : fib' = v
        \/ \E v \in OpenDir(w, Home, NoName) : fib' = v
    BY DEF Show
  <1> HIDE DEF u, w
  <1>6. \E d \in Dirs : fib' \in OpenDir(u, d, NoName)
    <2>1. Home \in Dirs
      BY DEF Dirs
    <2>2. w.cur # Recents => w.cur \in Dirs
      BY <1>3, <1>4, FibFacts
    <2> QED BY <1>4, <1>5, <2>1, <2>2
  <1>7. PICK d \in Dirs : fib' \in OpenDir(u, d, NoName)
    BY <1>6
  <1>8. d \in Dirs \cup {Recents} /\ d # Recents /\ RecentList(recent)
    BY TreeAssumption DEF FibInv
  <1>9. Sound(fib') /\ Kept(u, fib') /\ fib'.scrl >= 0
    BY <1>3, <1>7, <1>8, OpenDirIsSound
  <1>10. fib'.status = 0
    BY <1>3, <1>9 DEF Kept
  <1> QED BY <1>9, <1>10 DEF Good, Stays

\* The window, and closing it.
LEMMA WindowIsGood ==
  ASSUME Calm, FibInv, Map \/ Unmap \/ Resize \/ Show \/ Close
  PROVE  Good(fib')
  <1>1. CASE Map
    <2> DEFINE w == [fib EXCEPT !.mapped = TRUE]
    <2>1. /\ w \in FibType /\ w.list = fib.list /\ w.fsel = fib.fsel /\ w.cur = fib.cur
          /\ w.aborted = fib.aborted /\ w.shown = fib.shown /\ w.scrl = fib.scrl
          /\ w.status = fib.status
      BY FibFacts DEF FibType, FibRecord
    <2>2. fib' = Exposed(w) /\ fib.status = 0 /\ ~fib.mapped
      BY <1>1 DEF Map, Active
    <2> HIDE DEF w
    <2>3. Whole(w) /\ Marked(w)
      BY <2>1, FibFacts DEF Whole, LinesRight, Marked, NumRows
    <2>4. Sound(Exposed(w)) /\ Kept(w, Exposed(w)) /\ Stays(w, Exposed(w))
      BY <2>3, ExposedIsSound
    <2>5. fib'.status = 0 /\ Stays(fib, fib')
      BY <2>1, <2>2, <2>4 DEF Kept, Stays
    <2> QED BY <2>2, <2>4, <2>5 DEF Good
  <1>2. CASE Unmap
    <2> DEFINE w == [fib EXCEPT !.mapped = FALSE]
    <2>1. /\ w \in FibType /\ w.list = fib.list /\ w.fsel = fib.fsel /\ w.cur = fib.cur
          /\ w.aborted = fib.aborted /\ w.shown = fib.shown /\ w.scrl = fib.scrl
          /\ w.status = fib.status /\ w.mapped = FALSE
      BY FibFacts DEF FibType, FibRecord
    <2>2. fib' = w /\ fib.status = 0
      BY <1>2 DEF Unmap, Active
    <2> HIDE DEF w
    <2>3. Whole(w) /\ Marked(w) /\ Level(w)
      BY <2>1, FibFacts DEF Whole, LinesRight, Marked, NumRows, Level
    <2> QED BY <2>1, <2>2, <2>3 DEF Good, Sound, Stays
  <1>3. CASE Resize
    <2>1. PICK n \in Rows : fib' = Exposed([fib EXCEPT !.llen = n])
      BY <1>3 DEF Resize
    <2> DEFINE w == [fib EXCEPT !.llen = n]
    <2>2. /\ w \in FibType /\ w.list = fib.list /\ w.fsel = fib.fsel /\ w.cur = fib.cur
          /\ w.aborted = fib.aborted /\ w.shown = fib.shown /\ w.scrl = fib.scrl
          /\ w.status = fib.status
      BY FibFacts DEF FibType, FibRecord
    <2>3. fib' = Exposed(w) /\ fib.status = 0
      BY <1>3, <2>1 DEF Resize, Active
    <2> HIDE DEF w
    <2>4. Whole(w) /\ Marked(w)
      BY <2>2, FibFacts DEF Whole, LinesRight, Marked, NumRows
    <2>5. Sound(Exposed(w)) /\ Kept(w, Exposed(w)) /\ Stays(w, Exposed(w))
      BY <2>4, ExposedIsSound
    <2>6. fib'.status = 0 /\ Stays(fib, fib')
      BY <2>2, <2>3, <2>5 DEF Kept, Stays
    <2> QED BY <2>3, <2>5, <2>6 DEF Good
  <1>4. CASE Show
    BY <1>4, ShowIsGood
  <1>5. CASE Close
    <2>1. fib' = Closed(fib)
      BY <1>5 DEF Close
    <2>2. /\ Sound(Closed(fib)) /\ Closed(fib).status = fib.status
          /\ Closed(fib).scrl = 0
      BY FibFacts, ClosedIsSound
    <2> QED BY <2>1, <2>2 DEF Good, Stays
  <1> QED BY <1>1, <1>2, <1>3, <1>4, <1>5

-----------------------------------------------------------------------------
(* The invariant.                                                          *)

LEMMA FreshIsSound == Sound(Fresh) /\ Fresh.scrl = 0 /\ Fresh.status = -2
  <1>1. Fresh \in FibType
    <2> DEFINE S == Seq(LineType)
               T == Seq(Nat)
    <2>1. FibType = FibRecord(T, S)
      BY DEF FibType, FibRecord
    <2>2. <<>> \in S /\ <<>> \in T
      OBVIOUS
    <2>3. ShownRows \in Rows
      BY BoundsAssumption
    <2> HIDE DEF S, T
    <2> QED BY <2>1, <2>2, <2>3 DEF Fresh, FibRecord
  <1>2. /\ ~Fresh.shown /\ ~Fresh.mapped /\ ~Fresh.aborted /\ Fresh.list = <<>> /\ Fresh.fsel = -1
        /\ Fresh.scrl = 0 /\ Fresh.status = -2
    BY DEF Fresh
  <1>3. NumRows(Fresh) = 0 /\ DOMAIN Fresh.list = {}
    BY <1>2 DEF NumRows
  <1> QED BY <1>1, <1>2, <1>3 DEF Sound, Whole, LinesRight, Marked, Level

LEMMA FibInitInv == FibInit => FibInv
  <1> SUFFICES ASSUME FibInit PROVE FibInv
    OBVIOUS
  <1>1. RecentList(<<>>)
    BY BoundsAssumption DEF RecentList, OnceInOrder
  <1>2. 0 \in 0..MaxTime
    BY BoundsAssumption
  <1> QED BY <1>1, <1>2, FreshIsSound DEF FibInit, FibInv

\* What the dialog may return.
ReturnsMarked == fib.status = 0 /\ fib'.status = 1 => Returns(fib, fib')

\* Where the dialog may scroll to.
ScrollsInList == Stays(fib, fib') \/ (fib.drag /\ ~fib.bar)

LEMMA QuietInv ==
  ASSUME FibInv, Quiet, Good(fib')
  PROVE  FibInv' /\ ReturnsMarked /\ ScrollsInList
  <1>1. recent' = recent /\ clock' = clock
    BY DEF Quiet
  <1>2. Sound(fib)'
    BY <1>1 DEF Good, Sound, Whole, LinesRight, LineRight, Marked, Level, NumRows, HasScrollBar,
               FibType
  <1>3. RecentList(recent)' /\ (clock \in 0..MaxTime)'
    BY <1>1 DEF FibInv, RecentList, OnceInOrder, Uses
  <1> QED BY <1>2, <1>3 DEF FibInv, Good, ReturnsMarked, ScrollsInList

\* Without lines the dialog does not depend on the list of recent files.
LEMMA EmptyIsSound ==
  ASSUME NEW u, Sound(u), ~u.shown, fib' = u
  PROVE  Sound(fib)'
  <1>1. u.list = <<>>
    BY DEF Sound, Whole
  <1>2. u \in FibType /\ ~u.aborted
    BY DEF Sound, Whole
  <1>3. (fib \in FibType /\ ~fib.aborted)'
    BY <1>2 DEF FibType, FibRecord
  <1>4. LinesRight(fib)'
    BY <1>1 DEF LinesRight
  <1>5. Whole(fib)'
    BY <1>1, <1>3, <1>4 DEF Whole
  <1>6. Marked(fib)' /\ Level(fib)'
    BY DEF Sound, Marked, Level, NumRows, HasScrollBar
  <1> QED BY <1>5, <1>6 DEF Sound

\* The list of recent files, alone.
LEMMA AddRecentInv ==
  ASSUME RecentList(recent), clock \in 0..MaxTime, AddRecent
  PROVE  RecentList(recent)'
  <1>1. PICK e \in Movies : recent' = IF Locked THEN recent ELSE Added(recent, PathOf(e), clock)
    BY DEF AddRecent
  <1>2. PathOf(e) \in Paths
    BY DEF Movies, Paths
  <1>3. RecentList(Added(recent, PathOf(e), clock))
    BY <1>2, AddedIsList
  <1>4. RecentList(recent')
    BY <1>1, <1>3
  <1> QED BY <1>4 DEF RecentList, OnceInOrder, Uses

LEMMA RestartInv ==
  ASSUME RecentList(recent), Restart
  PROVE  RecentList(recent)'
  <1>1. PICK there \in SUBSET Movies : recent' = Reloaded(recent, {PathOf(e) : e \in there})
    BY DEF Restart
  <1>2. RecentList(Reloaded(recent, {PathOf(e) : e \in there}))
    BY ReloadedIsList
  <1>3. RecentList(recent')
    BY <1>1, <1>2
  <1> QED BY <1>3 DEF RecentList, OnceInOrder, Uses

LEMMA FibNextInv ==
  ASSUME Calm, RowsFit, FibInv, [FibNext]_fibVars
  PROVE  FibInv' /\ ReturnsMarked /\ ScrollsInList
  <1>1. CASE Point
    <2>1. Good(fib')
      BY <1>1, ScrollIsGood, ClickIsGood DEF Point
    <2>2. Quiet
      BY <1>1 DEF Point, ScrollBarDrag, ScrollBarPage, Motion, MouseUp, Wheel, ClickFile,
                  ClickPath, ClickPlace, ClickSort, ClickFilter, ClickHidden, ClickOpenButton
    <2> QED BY <2>1, <2>2, QuietInv
  <1>2. CASE Key
    <2>1. Good(fib')
      BY <1>2, KeyIsGood
    <2>2. Quiet
      BY <1>2 DEF Key, Cancel, KeyUp, KeyDown, KeyPageUp, KeyPageDown, KeyLeft, KeyRight, KeyReturn,
                  KeyLetter
    <2> QED BY <2>1, <2>2, QuietInv
  <1>3. CASE Map \/ Unmap \/ Resize \/ Show \/ Close
    <2>1. Good(fib')
      BY <1>3, WindowIsGood
    <2>2. Quiet
      BY <1>3 DEF Map, Unmap, Resize, Show, Close
    <2> QED BY <2>1, <2>2, QuietInv
  <1>4. CASE AddRecent
    <2>1. fib' = fib /\ clock' = clock
      BY <1>4 DEF AddRecent
    <2>2. RecentList(recent)'
      BY <1>4, AddRecentInv DEF FibInv
    <2>3. Sound(fib)'
      <3>1. CASE fib.shown
        <4>1. recent' = recent
          BY <1>4, <3>1 DEF AddRecent, Locked
        <4> QED BY <2>1, <4>1 DEF FibInv, Sound, Whole, LinesRight, LineRight, Marked, Level, NumRows,
                                  HasScrollBar, FibType
      <3>2. CASE ~fib.shown
        BY <2>1, <3>2, EmptyIsSound DEF FibInv
      <3> QED BY <3>1, <3>2
    <2>4. (clock \in 0..MaxTime)'
      BY <2>1 DEF FibInv
    <2> QED BY <2>1, <2>2, <2>3, <2>4 DEF FibInv, ReturnsMarked, ScrollsInList, Stays
  <1>5. CASE Tick
    <2>1. fib' = fib /\ recent' = recent /\ clock' \in 0..MaxTime
      BY <1>5, BoundsAssumption DEF Tick, FibInv
    <2> QED BY <2>1 DEF FibInv, ReturnsMarked, ScrollsInList, Stays, Sound, Whole, LinesRight, LineRight, Marked, Level,
                        NumRows, HasScrollBar, FibType, FibRecord, RecentList, OnceInOrder, Uses
  <1>6. CASE Restart
    <2>1. fib' = Fresh /\ clock' = clock
      BY <1>6 DEF Restart
    <2>2. RecentList(recent)'
      BY <1>6, RestartInv DEF FibInv
    <2>3. ~Fresh.shown
      BY DEF Fresh
    <2>4. Sound(fib)'
      BY <2>1, <2>3, FreshIsSound, EmptyIsSound
    <2>5. (clock \in 0..MaxTime)'
      BY <2>1 DEF FibInv
    <2> QED BY <2>1, <2>2, <2>4, <2>5, FreshIsSound DEF FibInv, ReturnsMarked, ScrollsInList, Stays
  <1>7. CASE UNCHANGED fibVars
    <2>1. fib' = fib /\ recent' = recent /\ clock' = clock
      BY <1>7 DEF fibVars
    <2> QED BY <2>1 DEF FibInv, ReturnsMarked, ScrollsInList, Stays, Sound, Whole, LinesRight, LineRight, Marked, Level,
                        NumRows, HasScrollBar, FibType, FibRecord, RecentList, OnceInOrder, Uses
  <1> QED BY <1>1, <1>2, <1>3, <1>4, <1>5, <1>6, <1>7 DEF FibNext

\* The fields of the dialog and of the list stay in their ranges, and the
\* lines of the recent files point into that list, whatever is done to it.
THEOREM FibTypeCorrect == Calm /\ RowsFit => (FibSpec => []FibTypeOK)
  <1> SUFFICES ASSUME Calm, RowsFit PROVE FibSpec => []FibTypeOK
    OBVIOUS
  <1>1. FibInv => FibTypeOK
    <2> SUFFICES ASSUME FibInv PROVE FibTypeOK
      OBVIOUS
    <2>1. fib.llen \in Rows /\ fib.sort \in 0..5 /\ fib.status \in -2..1
      BY FibFacts DEF FibType, FibRecord
    <2>2. recent \in Seq(Uses) /\ DOMAIN recent = 1 .. Len(recent) /\ Len(recent) \in Nat
          /\ clock \in 0..MaxTime
      BY DEF FibInv, RecentList
    <2>3. \A i \in DOMAIN fib.list : fib.list[i].rfp \in 0 .. Len(recent)
      <3> TAKE i \in DOMAIN fib.list
      <3>1. LineRight(fib.cur, fib.list[i])
        BY FibFacts DEF Whole, LinesRight
      <3> QED BY <2>2, <3>1 DEF LineRight
    <2>4. \A i \in DOMAIN recent : recent[i] \in Uses
      BY <2>2
    <2> QED BY <2>1, <2>2, <2>3, <2>4, FibFacts DEF FibTypeOK, Uses
  <1> QED BY FibInitInv, FibNextInv, <1>1, PTL DEF FibSpec

\* The rows are in the list if and only if the scroll position is.
LEMMA RowsAndPosition ==
  ASSUME RowsFit, FibInv
  PROVE  RowsInList(fib) <=> fib.scrl >= 0
  <1> DEFINE v == Painted(fib)
             a == FirstRow(fib)
             b == a + fib.llen - 1
  <1>1. /\ NumRows(fib) \in Nat /\ fib.scrl \in Int /\ fib.llen \in Int /\ fib.llen >= 1
        /\ fib \in FibType
    BY FibFacts DEF RowsFit, FibType, FibRecord
  <1>2. v.scrl = a /\ v.llen = fib.llen /\ v.list = fib.list /\ v.bar = HasScrollBar(fib)
    BY <1>1 DEF Painted, FibType, FibRecord
  <1>3. NumRows(v) = NumRows(fib)
    BY <1>2 DEF NumRows
  <1>4. RowsInList(fib) <=> /\ DrawnRows(v) \subseteq 0..(NumRows(fib) - 1)
                            /\ v.bar => Cardinality(DrawnRows(v)) = AtLeast0(fib.llen)
    BY <1>2, <1>3 DEF RowsInList
  <1>5. DrawnRows(v) = {j \in a..b : j < NumRows(fib)}
    BY <1>2, <1>3 DEF DrawnRows
  <1> HIDE DEF v
  <1>6. ASSUME fib.scrl < 0
        PROVE  ~(DrawnRows(v) \subseteq 0..(NumRows(fib) - 1))
    <2>1. a = fib.scrl
      BY <1>1, <1>6 DEF FirstRow
    <2>2. a \in DrawnRows(v) /\ a < 0 /\ a \in Int
      BY <1>1, <1>5, <1>6, <2>1
    <2>3. a \notin 0..(NumRows(fib) - 1)
      BY <1>1, <2>2
    <2> QED BY <2>2, <2>3
  <1>7. ASSUME fib.scrl >= 0
        PROVE  /\ DrawnRows(v) \subseteq 0..(NumRows(fib) - 1)
               /\ v.bar => Cardinality(DrawnRows(v)) = AtLeast0(fib.llen)
    <2>1. a \in Int /\ a >= 0 /\ (fib.llen < NumRows(fib) => a + fib.llen <= NumRows(fib))
      BY <1>1, <1>7 DEF FirstRow, AtLeast0
    <2>2. DrawnRows(v) \subseteq 0..(NumRows(fib) - 1)
      BY <1>1, <1>5, <2>1
    <2>3. ASSUME v.bar PROVE Cardinality(DrawnRows(v)) = AtLeast0(fib.llen)
      <3>1. fib.llen < NumRows(fib)
        BY <1>2, <2>3 DEF HasScrollBar
      <3>2. a \in Int /\ b \in Int /\ b - a + 1 = fib.llen /\ a <= b /\ b < NumRows(fib)
        BY <1>1, <2>1, <3>1
      <3> HIDE DEF a, b
      <3>3. DrawnRows(v) = a .. b
        BY <1>1, <1>5, <3>2
      <3>4. Cardinality(a .. b) = IF a > b THEN 0 ELSE b - a + 1
        BY <3>2, FS_Interval
      <3> QED BY <1>1, <3>2, <3>3, <3>4 DEF AtLeast0
    <2> QED BY <2>2, <2>3
  <1> QED BY <1>1, <1>4, <1>6, <1>7

\* No step takes the drawing out of the list but a drag without a scroll bar:
\* no listing, sorting, selecting, scrolling, resizing, and no other drag.
THEOREM DrawingStaysInList == Calm /\ RowsFit => (FibSpec => DrawnRowsExist)
  <1> SUFFICES ASSUME Calm, RowsFit PROVE FibSpec => DrawnRowsExist
    OBVIOUS
  <1>0. FibInv => (RowsInList(fib) <=> fib.scrl >= 0)
    BY RowsAndPosition
  <1>1. (FibInv => (RowsInList(fib) <=> fib.scrl >= 0))'
    BY <1>0, PTL
  <1>2. FibInv /\ FibInv' /\ [FibNext]_fibVars =>
          [RowsInList(fib) => RowsInList(fib)' \/ (fib.drag /\ ~fib.bar)]_fibVars
    <2> SUFFICES ASSUME FibInv, FibInv', [FibNext]_fibVars
                 PROVE  RowsInList(fib) => RowsInList(fib)' \/ (fib.drag /\ ~fib.bar)
      OBVIOUS
    <2>1. ScrollsInList
      BY FibNextInv
    <2>2. RowsInList(fib) <=> fib.scrl >= 0
      BY <1>0
    <2>3. (RowsInList(fib) <=> fib.scrl >= 0)'
      BY <1>1
    <2> QED BY <2>1, <2>2, <2>3 DEF ScrollsInList, Stays
  <1> QED BY FibInitInv, FibNextInv, <1>2, PTL DEF FibSpec, DrawnRowsExist

\* The file that is returned is the marked one, although the lines of the
\* recent files are pointers into a list that opening a movie changes.
THEOREM MarkedIsReturned == Calm /\ RowsFit => (FibSpec => OpensWhatIsMarked)
  <1> SUFFICES ASSUME Calm, RowsFit PROVE FibSpec => OpensWhatIsMarked
    OBVIOUS
  <1>1. FibInv /\ [FibNext]_fibVars =>
          [fib.status = 0 /\ fib'.status = 1 =>
             \E i \in DOMAIN fib.list :
               /\ fib.list[i].on
               /\ \A j \in DOMAIN fib.list : fib.list[j].on => i = j
               /\ fib'.chosen = Append(fib.list[i].dir, fib.list[i].name)]_fibVars
    BY FibNextInv DEF ReturnsMarked, Returns
  <1> QED BY FibInitInv, FibNextInv, <1>1, PTL DEF FibSpec, OpensWhatIsMarked

\* Calm directories fire none of the dialog's assertions, in a window in which
\* one line fits.
THEOREM CalmHolds == Calm /\ RowsFit => (FibSpec => []AssertionsHold)
  <1> SUFFICES ASSUME Calm, RowsFit PROVE FibSpec => []AssertionsHold
    OBVIOUS
  <1>1. FibInv => AssertionsHold
    BY FibFacts DEF AssertionsHold
  <1> QED BY FibInitInv, FibNextInv, <1>1, PTL DEF FibSpec

\* The recent files are each there once, the latest first and no more than
\* MAX_RECENT_ENTRIES, after any additions, restarts and lost lines.
THEOREM RecentStaysInOrder == FibSpec => []RecentInOrder
  <1> DEFINE J == RecentList(recent) /\ clock \in 0..MaxTime
  <1>1. FibInit => J
    <2>1. RecentList(<<>>) /\ 0 \in 0..MaxTime
      BY BoundsAssumption DEF RecentList, OnceInOrder
    <2> QED BY <2>1 DEF FibInit
  <1>2. J /\ [FibNext]_fibVars => J'
    <2> SUFFICES ASSUME J, [FibNext]_fibVars PROVE J'
      OBVIOUS
    <2>1. CASE AddRecent
      BY <2>1, AddRecentInv DEF AddRecent
    <2>2. CASE Restart
      BY <2>2, RestartInv DEF Restart
    <2>3. CASE Tick
      BY <2>3, BoundsAssumption DEF Tick, RecentList, OnceInOrder, Uses
    <2>4. CASE Quiet
      BY <2>4 DEF Quiet, RecentList, OnceInOrder, Uses
    <2>5. CASE UNCHANGED fibVars
      BY <2>5 DEF fibVars, RecentList, OnceInOrder, Uses
    <2>6. Point \/ Key \/ Map \/ Unmap \/ Resize \/ Show \/ Close => Quiet
      <3>1. Point => Quiet
        BY DEF Point, ScrollBarDrag, ScrollBarPage, Motion, MouseUp, Wheel, ClickFile,
               ClickPath, ClickPlace, ClickSort, ClickFilter, ClickHidden, ClickOpenButton
      <3>2. Key => Quiet
        BY DEF Key, Cancel, KeyUp, KeyDown, KeyPageUp, KeyPageDown, KeyLeft, KeyRight, KeyReturn,
               KeyLetter
      <3> QED BY <3>1, <3>2 DEF Map, Unmap, Resize, Show, Close
    <2> QED BY <2>1, <2>2, <2>3, <2>4, <2>5, <2>6 DEF FibNext
  <1>3. J => RecentInOrder
    BY DEF RecentInOrder, RecentList, OnceInOrder
  <1> QED BY <1>1, <1>2, <1>3, PTL DEF FibSpec

=============================================================================
