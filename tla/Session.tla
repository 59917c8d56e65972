------------------------------- MODULE Session -------------------------------
(***************************************************************************)
(* The configuration file and the JACK session: what xjadeo reads when it  *)
(* starts (xjadeorc, switches, --rc), what its handlers change, what       *)
(* saveconfig writes from JACK's session callback, and what the next       *)
(* instance makes of that (configfile.c, main.c, common_jack.c).           *)
(*                                                                         *)
(* A text is the sequence of its words, since strtok stops at a blank or   *)
(* an equals sign; a word is a number, a string, or the set of OSD bits    *)
(* for which OSDMODE is the number.                                        *)
(***************************************************************************)
EXTENDS Integers, Sequences, FiniteSetsExt

CONSTANTS
  Compiled,      \* display modes that are compiled in (from 1 .. Modes)
  Movies,        \* texts that are names of movies which open
  Fonts,         \* texts that are names of font files which exist
  RcFiles,       \* what the xjadeorc files say, one after the other
  CommandLines,  \* of a start without a session: sequences of switches
  Values,        \* what the handlers set: from options to sets of values
  MidiPorts,     \* texts that "midi connect" is given
  Captions,      \* and "osd text"
  Numbers,       \* words that atoi does not read as 0; "-2" is those below -1
  NULL,          \* a text that is not there
  MaxStarts, MaxChanges

Modes == 5
VO_AUTO == 0
VO_X11 == 4              \* its windows tell nothing of their state
Displays == 0 .. Modes

OSD_FRAME == "frame"     \* the bits of OSD_mode that matter here
OSD_SMPTE == "smpte"
OSD_BOX == "box"
OSD_TEXT == "text"
Bits == {OSD_FRAME, OSD_SMPTE, OSD_BOX, OSD_TEXT}
OVR_JSESSION == 32
OVR_MENUSYNC == 128

JACK_MIDI == "JACK-MIDI"
Drivers == {JACK_MIDI, "ALSA-Sequencer"}

ASSUME SessionAssumption ==
  /\ Compiled \subseteq 1 .. Modes /\ Compiled # {}
  /\ MaxStarts \in Nat /\ MaxChanges \in Nat
\* Words that the program itself sets.
OwnWords == {"-2", "xjadeo!", "FONT_FILE", "0", "(null)"} \cup Drivers

ASSUME TextsAssumption ==
  /\ NULL \notin Seq(STRING) /\ OwnWords \subseteq STRING /\ "-2" \in Numbers
  /\ Movies \cup Fonts \cup MidiPorts \cup Captions \subseteq Seq(STRING)

VARIABLES
  etc,        \* the lines of the xjadeorc files, member of RcFiles
  works,      \* display modes that can open a window
  running,
  opt,        \* record of the options: the variables of main.c
  driver,     \* current MIDI driver
  tried,      \* the source that start-up opens
  source,     \* the source that is connected
  vout,       \* VOutput: the display in use, or VO_AUTO
  window,     \* its state, ontop and full
  file,       \* the lines of the saved session
  saved,      \* history: options, source, window, display when it was saved
  restored,   \* history: this is a restored session nobody touched yet
  starts, changes   \* bounds

world == <<etc, works>>
history == <<file, saved, restored>>
vars == <<world, running, opt, driver, tried, source, vout, window, history,
          starts, changes>>

\* main.c; delay is kept as the rate it stands for.
Defaults ==
  [current_file |-> NULL, want_letterbox |-> TRUE, videomode |-> 0, delay |-> -1,
   osc_port |-> 0, mq_en |-> FALSE, ipc_queue |-> NULL, remote_en |-> FALSE,
   want_nosplash |-> FALSE, want_verbose |-> FALSE, want_quiet |-> FALSE,
   interaction_override |-> 0, keyframe_interval_limit |-> 100,
   midi_clkconvert |-> 0, midi_driver |-> NULL, midiid |-> <<"-2">>,
   midi_clkadj |-> TRUE, userFrame |-> 0, smpte_offset |-> NULL,
   want_genpts |-> FALSE, want_ignstart |-> FALSE, want_dropframes |-> FALSE,
   want_autodrop |-> TRUE, OSD_mode |-> {OSD_BOX},
   OSD_sx |-> -2, OSD_sy |-> 2, OSD_fx |-> -2, OSD_fy |-> 98, OSD_tx |-> -2, OSD_ty |-> 50,
   OSD_text |-> <<"xjadeo!">>, OSD_fontfile |-> <<"FONT_FILE">>,
   start_ontop |-> FALSE, start_fullscreen |-> FALSE,
   use_jack |-> TRUE, use_ltc |-> FALSE, load_movie |-> NULL, load_rc |-> FALSE,
   jack_uuid |-> FALSE, no_initial_sync |-> FALSE, jack_session_restore |-> FALSE,
   js_winx |-> -1, js_winy |-> -1, js_winw |-> -1, js_winh |-> -1]

Options == DOMAIN Defaults

Nullable == {"ipc_queue", "midi_driver"}
Texts == {"current_file", "midiid", "smpte_offset", "OSD_text", "OSD_fontfile"}
Flags ==
  {"want_letterbox", "mq_en", "remote_en", "want_nosplash", "want_verbose", "want_quiet",
   "midi_clkadj", "want_genpts", "want_ignstart", "want_dropframes", "want_autodrop",
   "start_ontop", "start_fullscreen"}

Given == {"midiid", "OSD_text", "OSD_fontfile"}    \* texts that are always there
Absent == {"current_file", "smpte_offset", "load_movie", "ipc_queue", "midi_driver"}
Switches ==
  {"use_jack", "use_ltc", "load_rc", "jack_uuid", "no_initial_sync", "jack_session_restore"}
Amounts ==
  {"delay", "midi_clkconvert", "interaction_override", "keyframe_interval_limit",
   "userFrame", "osc_port", "OSD_sx", "OSD_sy", "OSD_fx", "OSD_fy", "OSD_tx", "OSD_ty",
   "js_winx", "js_winy", "js_winw", "js_winh"}

\* x is a value of option v; the video mode is one of the table, 0 for
\* autodetection, or one past it when no display opened.
HasType(v, x) ==
  /\ v \in Flags \cup Switches => x \in BOOLEAN
  /\ v \in Amounts => x \in Int
  /\ v \in Given => x \in Seq(STRING)
  /\ v \in Absent => x = NULL \/ x \in Seq(STRING)
  /\ v = "OSD_mode" => x \subseteq Bits
  /\ v = "videomode" => x \in 0 .. Modes + 1

Typed(o) == DOMAIN o = Options /\ \A v \in Options : HasType(v, o[v])

Line(item, words) == [item |-> item, words |-> words]

-----------------------------------------------------------------------------
(* parseoption.  The first key of the chain that the item begins with      *)
(* decides; YES_OK options can be switched on only.                        *)

Key(name, reader, var) == [name |-> name, reader |-> reader, var |-> var]

Chain ==
  <<Key("VIDEOMODE", "value", "videomode"), Key("FPS", "value", "delay"),
    Key("MIDICLK", "YES_NO", "midi_clkadj"), Key("MIDIID", "text", "midiid"),
    Key("MIDISMPTE", "value", "midi_clkconvert"),
    Key("MIDIDRIVER", "nullable", "midi_driver"),
    Key("SYNCSOURCE", "source", "use_jack"), Key("REMOTECTL", "YES_NO", "remote_en"),
    Key("MQ", "YES_NO", "mq_en"), Key("IPC", "nullable", "ipc_queue"),
    Key("QUIET", "YES_OK", "want_quiet"), Key("VERBOSE", "YES_OK", "want_verbose"),
    Key("NOSPLASH", "YES_OK", "want_nosplash"), Key("SEEK", "ignored", ""),
    Key("LETTERBOX", "YES_OK", "want_letterbox"), Key("LASH", "ignored", ""),
    Key("FONTFILE", "text", "OSD_fontfile"), Key("MOVIEFILE", "text", "load_movie"),
    Key("WINPOS", "both", "pos"), Key("WINPOSX", "window", "js_winx"),
    Key("WINPOSY", "window", "js_winy"), Key("WINSIZE", "both", "size"),
    Key("WINSIZEW", "window", "js_winw"), Key("WINSIZEH", "window", "js_winh"),
    Key("WINONTOP", "YES_OK", "start_ontop"),
    Key("WINFULLSCREEN", "YES_OK", "start_fullscreen"),
    Key("GENPTS", "YES_OK", "want_genpts"), Key("IGNORESTART", "YES_OK", "want_ignstart"),
    Key("DROPFRAMES", "YES_OK", "want_dropframes"),
    Key("AUTODF", "YES_OK", "want_autodrop"),
    Key("IAOVERRIDE", "value", "interaction_override"),
    Key("KEYFRAMELIMIT", "value", "keyframe_interval_limit"),
    Key("SMPTEOFFSET", "text", "smpte_offset"), Key("USERFRAME", "value", "userFrame"),
    Key("FILEFPS", "ignored", ""), Key("OSCPORT", "value", "osc_port"),
    Key("OSDMODE", "value", "OSD_mode"),
    Key("OSDSX", "value", "OSD_sx"), Key("OSDSY", "value", "OSD_sy"),
    Key("OSDFX", "value", "OSD_fx"), Key("OSDFY", "value", "OSD_fy"),
    Key("OSDTX", "value", "OSD_tx"), Key("OSDTY", "value", "OSD_ty"),
    Key("OSDTEXT", "text", "OSD_text")>>

\* strncasecmp with the length of the key.
IsKey(item, key) ==
  Len(item) >= Len(key) /\ SubSeq(item, 1, Len(key)) = key

Items ==
  {Chain[i].name : i \in DOMAIN Chain}
  \cup UNION {{lines[i].item : i \in DOMAIN lines} : lines \in RcFiles}

Branches == [item \in Items |-> {i \in DOMAIN Chain : IsKey(item, Chain[i].name)}]

YES_OK(old, word) == old \/ word = "yes"

YES_NO(old, word) == IF word = "yes" THEN TRUE ELSE IF word = "no" THEN FALSE ELSE old

\* The key that decides about an item, if there is one.
Reached(item) == Chain[Min(Branches[item])]

\* Mutant: the port is not forgotten.
syncsourceWithPort(o, n) == [o EXCEPT !.use_jack = (n # 0), !.use_ltc = (n = 3)]

\* SYNCSOURCE forgets the MIDI port, except for MTC.
syncsource(o, n) ==
  [o EXCEPT !.use_jack = (n # 0), !.use_ltc = (n = 3),
            !.midiid = IF n \in {0, 1, 3} THEN <<"-2">> ELSE @]

\* Two numbers of 16 bits in one.
High(n) == n \div 65536
Low(n) == n % 65536

windowBoth(o, which, n) ==
  IF which = "pos"
    THEN [o EXCEPT !.jack_session_restore = TRUE, !.js_winx = High(n), !.js_winy = Low(n)]
    ELSE [o EXCEPT !.jack_session_restore = TRUE, !.js_winw = High(n), !.js_winh = Low(n)]

parse(o, key, word) ==
  CASE key.reader = "value"    -> [o EXCEPT ![key.var] = word]
    [] key.reader = "text"     -> [o EXCEPT ![key.var] = <<word>>]
    [] key.reader = "nullable" ->
         [o EXCEPT ![key.var] = IF word = "(null)" THEN NULL ELSE <<word>>]
    [] key.reader = "YES_OK"   -> [o EXCEPT ![key.var] = YES_OK(@, word)]
    [] key.reader = "YES_NO"   -> [o EXCEPT ![key.var] = YES_NO(@, word)]
    [] key.reader = "source"   -> syncsource(o, word)
    [] key.reader = "both"     -> windowBoth(o, key.var, word)
    [] key.reader = "window"   ->
         [o EXCEPT ![key.var] = word, !.jack_session_restore = TRUE]
    [] OTHER                   -> o

\* A line without a value is skipped, and so is one with an unknown key.
parseoption(o, line) ==
  IF line.words = <<>> \/ Branches[line.item] = {} THEN o
  ELSE parse(o, Reached(line.item), Head(line.words))

readconfig(o, lines) ==
  LET upto[n \in 0 .. Len(lines)] ==
        IF n = 0 THEN o ELSE parseoption(upto[n - 1], lines[n])
  IN  upto[Len(lines)]

IsSeq(s) == Len(s) \in Nat /\ DOMAIN s = 1 .. Len(s)

\* What a line may say.
LineTyped(line) ==
  /\ line.item \in Items
  /\ line.words # <<>> /\ Branches[line.item] # {} =>
       LET key == Reached(line.item)
       IN  /\ key.reader = "value" => HasType(key.var, Head(line.words))
           /\ key.reader \in {"text", "nullable"} => Head(line.words) \in STRING
           /\ key.reader \in {"both", "window"} => Head(line.words) \in Int

ASSUME RcAssumption ==
  \A lines \in RcFiles : IsSeq(lines) /\ \A i \in DOMAIN lines : LineTyped(lines[i])

-----------------------------------------------------------------------------
(* saveconfig *)

BOOL(b) == IF b THEN "yes" ELSE "no"

\* A rate above one frame per second is a delay below one second.
SavedRate(rate) == IF rate > 1 THEN -1 ELSE rate

\* printf's %s of a null pointer, except for SMPTEOFFSET.
Printed(o, v) ==
  IF v \in Flags THEN <<BOOL(o[v])>>
  ELSE IF v \in Nullable \cup Texts
    THEN IF o[v] # NULL THEN o[v]
         ELSE IF v = "smpte_offset" THEN <<"0">> ELSE <<"(null)">>
  ELSE IF v = "delay" THEN <<SavedRate(o.delay)>> ELSE <<o[v]>>

psync(s) ==
  CASE s = "ltc" -> 3 [] s = "jack" -> 1 [] s = "none" -> 0 [] OTHER -> 2

Ontop == vout \notin {VO_AUTO, VO_X11} /\ window.ontop
Full == vout \notin {VO_AUTO, VO_X11} /\ window.full

\* What is saved.
Current == [opt |-> opt, source |-> source, ontop |-> Ontop, full |-> Full]

\* Of the window.
Place == [x |-> 100, y |-> 50, w |-> 640, h |-> 360]

\* The keys and their options in the order they are written.
SavedKeys ==
  <<<<"MOVIEFILE", "current_file">>, <<"LETTERBOX", "want_letterbox">>,
    <<"VIDEOMODE", "videomode">>, <<"FPS", "delay">>, <<"OSCPORT", "osc_port">>,
    <<"MQ", "mq_en">>, <<"IPC", "ipc_queue">>, <<"REMOTECTL", "remote_en">>,
    <<"NOSPLASH", "want_nosplash">>, <<"VERBOSE", "want_verbose">>,
    <<"QUIET", "want_quiet">>, <<"IAOVERRIDE", "interaction_override">>,
    <<"KEYFRAMELIMIT", "keyframe_interval_limit">>,
    <<"MIDISMPTE", "midi_clkconvert">>, <<"MIDIDRIVER", "midi_driver">>,
    <<"MIDIID", "midiid">>, <<"MIDICLK", "midi_clkadj">>, <<"USERFRAME", "userFrame">>,
    <<"SMPTEOFFSET", "smpte_offset">>, <<"SYNCSOURCE", "source">>,
    <<"GENPTS", "want_genpts">>, <<"IGNORESTART", "want_ignstart">>,
    <<"DROPFRAMES", "want_dropframes">>, <<"AUTODF", "want_autodrop">>,
    <<"OSDMODE", "OSD_mode">>, <<"OSDSX", "OSD_sx">>, <<"OSDSY", "OSD_sy">>,
    <<"OSDFX", "OSD_fx">>, <<"OSDFY", "OSD_fy">>, <<"OSDTX", "OSD_tx">>,
    <<"OSDTY", "OSD_ty">>, <<"OSDTEXT", "OSD_text">>, <<"FONTFILE", "OSD_fontfile">>,
    <<"WINPOSX", "x">>, <<"WINPOSY", "y">>, <<"WINSIZEW", "w">>, <<"WINSIZEH", "h">>,
    <<"WINONTOP", "start_ontop">>, <<"WINFULLSCREEN", "start_fullscreen">>>>

SavedOptions == {SavedKeys[i][2] : i \in DOMAIN SavedKeys} \cap Options

\* The words of the line for v in session s.
Words(s, v) ==
  CASE v = "source" -> <<psync(s.source)>>
    [] v \in DOMAIN Place -> <<Place[v]>>
    [] v = "start_ontop" -> <<BOOL(s.ontop)>>
    [] v = "start_fullscreen" -> <<BOOL(s.full)>>
    [] OTHER -> Printed(s.opt, v)

saveconfig(s) == [i \in DOMAIN SavedKeys |-> Line(SavedKeys[i][1], Words(s, SavedKeys[i][2]))]

\* How the line for an option is meant to be read.
ReaderOf(v) ==
  IF v \in Flags THEN IF v \in {"midi_clkadj", "mq_en", "remote_en"} THEN "YES_NO" ELSE "YES_OK"
  ELSE IF v \in Nullable THEN "nullable" ELSE IF v \in Texts THEN "text" ELSE "value"

\* Each line reaches, through the chain of prefixes, the option it was written
\* for; the place of the window reaches that of both coordinates.
ASSUME ChainAssumption ==
  \A i \in DOMAIN SavedKeys :
    LET item == SavedKeys[i][1]
        v == SavedKeys[i][2]
    IN  /\ item \in Items /\ Branches[item] # {}
        /\ CASE v = "source" -> Reached(item).reader = "source"
             [] v \in DOMAIN Place -> Reached(item).reader = "both"
             [] v = "current_file" -> Reached(item) = Key("MOVIEFILE", "text", "load_movie")
             [] OTHER -> Reached(item).reader = ReaderOf(v) /\ Reached(item).var = v

-----------------------------------------------------------------------------
(* decode_switches *)

\* Switches that set one option, whatever the others are.
Plain ==
  [a |-> "start_ontop", I |-> "want_ignstart", J |-> "no_initial_sync",
   l |-> "use_ltc", N |-> "want_dropframes", P |-> "want_genpts", Q |-> "mq_en",
   S |-> "want_nosplash", s |-> "start_fullscreen", C |-> "midi_clkadj",
   q |-> "want_quiet", r |-> "load_rc", U |-> "jack_uuid"]

Off == [b |-> "want_letterbox", n |-> "want_autodrop", c |-> "midi_clkadj"]

WithArgument ==
  [f |-> "delay", o |-> "smpte_offset",
   T |-> "OSD_fontfile", W |-> "ipc_queue", d |-> "midi_driver",
   M |-> "midi_clkconvert", m |-> "midiid", x |-> "videomode"]

Within(low, n, high) == IF n < low THEN low ELSE IF n > high THEN high ELSE n

quiet(o) == [o EXCEPT !.want_quiet = TRUE, !.want_verbose = FALSE]

switch(o, s) ==
  CASE s.c = "R" -> quiet([o EXCEPT !.remote_en = TRUE])
    [] s.c = "q" -> quiet(o)
    [] s.c = "v" -> [o EXCEPT !.want_verbose = ~o.remote_en]
    [] s.c = "K" -> [o EXCEPT !.keyframe_interval_limit = Within(10, s.arg, 5000)]
    [] s.c = "O" -> [o EXCEPT !.osc_port = Within(0, s.arg, 65535)]
    [] s.c = "i" -> [o EXCEPT !.OSD_mode = s.arg \cap {OSD_FRAME, OSD_SMPTE}]
    [] s.c \in DOMAIN Off -> [o EXCEPT ![Off[s.c]] = FALSE]
    [] s.c \in DOMAIN WithArgument -> [o EXCEPT ![WithArgument[s.c]] = s.arg]
    [] OTHER -> [o EXCEPT ![Plain[s.c]] = TRUE]

decode_switches(o, argv) ==
  LET upto[n \in 0 .. Len(argv)] ==
        IF n = 0 THEN o ELSE switch(upto[n - 1], argv[n])
  IN  upto[Len(argv)]

SwitchTyped(s) ==
  \/ s.c \in DOMAIN Off \cup DOMAIN Plain \cup {"R", "v"}
  \/ s.c \in DOMAIN WithArgument /\ HasType(WithArgument[s.c], s.arg)
  \/ s.c \in {"K", "O"} /\ s.arg \in Int
  \/ s.c = "i" /\ s.arg \subseteq Bits

ASSUME SwitchesAssumption ==
  \A argv \in CommandLines : IsSeq(argv) /\ \A i \in DOMAIN argv : SwitchTyped(argv[i])

-----------------------------------------------------------------------------
(* Start-up: main and xjadeo. *)

\* The font that is not there is replaced by the embedded one.
stat_osd_fontfile(o) ==
  IF o.OSD_fontfile \in Fonts THEN o ELSE [o EXCEPT !.OSD_fontfile = <<>>]

vidoutmode(request) == IF request \in Compiled THEN request ELSE Min(Compiled)

open_window(mode) == IF mode \in works THEN mode ELSE VO_AUTO

\* Mutant: the counter is left two past the table.
FallbackPastTheEnd(o) ==
  IF o.videomode # 0 \/ open_window(vidoutmode(0)) # VO_AUTO THEN o
  ELSE [o EXCEPT !.videomode = Min(works \cup {Modes + 2})]

\* Autodetection counts videomode up to the first display that opens.
Fallback(o) ==
  IF o.videomode # 0 \/ open_window(vidoutmode(0)) # VO_AUTO THEN o
  ELSE [o EXCEPT !.videomode = Min(works \cup {Modes + 1})]

Display(o) ==
  IF o.videomode # 0 THEN open_window(vidoutmode(o.videomode))
  ELSE Min(works \cup {Modes + 1}) % (Modes + 1)

\* midi_choose_driver: a name of none leaves the first, JACK-MIDI, which is
\* also the first of those compiled in.
Driver(o) ==
  IF \E d \in Drivers : o.midi_driver = <<d>> THEN o.midi_driver[1] ELSE JACK_MIDI

AtoiIsZero(text) == text = <<>> \/ Head(text) \notin Numbers

\* A restored session does not connect JACK-MIDI ports by itself.
Unconnected(o) ==
  IF o.jack_uuid /\ Driver(o) = JACK_MIDI /\ AtoiIsZero(o.midiid)
    THEN [o EXCEPT !.midiid = <<>>] ELSE o

\* atoi (midiid) >= -1
WantsMtc(text) == text = <<>> \/ Head(text) # "-2"

Tried(o) ==
  IF o.no_initial_sync /\ ~o.jack_uuid THEN "none"
  ELSE IF WantsMtc(o.midiid) THEN Driver(o)
  ELSE IF o.use_ltc THEN "ltc"
  ELSE IF o.use_jack THEN "jack" ELSE "none"

movie(o) == IF o.load_movie # NULL /\ o.load_rc THEN o.load_movie ELSE NULL

open_movie(o, name) ==
  [o EXCEPT !.current_file = IF name \in Movies THEN name ELSE NULL]

\* The options after xjadeorc, which is read first.
preset == readconfig(Defaults, etc)

Configured(argv) ==
  LET o == decode_switches(preset, argv)
      r == IF o.load_rc THEN readconfig(o, file) ELSE o
  IN  open_movie(stat_osd_fontfile(r), movie(r))

\* Without a window only a remote control keeps it alive.
main(argv) ==
  /\ ~running /\ starts < MaxStarts
  /\ starts' = starts + 1
  /\ \E o \in {Configured(argv)} :
       /\ opt' = Unconnected(Fallback(o))
       /\ vout' = Display(o)
  /\ running' = (vout' # VO_AUTO \/ opt'.remote_en)
  /\ window' = [ontop |-> opt'.start_ontop, full |-> opt'.start_fullscreen]
  /\ driver' = Driver(opt')
  /\ tried' = Tried(opt')
  /\ source' \in IF running' THEN {tried', "none"} ELSE {"none"}
  /\ UNCHANGED <<world, file, saved, changes>>

\* Once; a later start without --rc would only forget more.
Start ==
  /\ starts = 0
  /\ \E argv \in CommandLines : main(argv)
  /\ restored' = FALSE

Switch(c) == [c |-> c, arg |-> ""]

\* The command line that the session callback leaves with the manager.
Restore ==
  /\ file # <<>>
  /\ main(<<Switch("U"), Switch("r")>>)
  /\ restored' = TRUE

-----------------------------------------------------------------------------
(* What the handlers of menu, keys and remote control change. *)

Handler ==
  /\ running /\ changes < MaxChanges
  /\ changes' = changes + 1
  /\ restored' = FALSE
  /\ UNCHANGED <<world, running, tried, file, saved, starts>>

Overridden(bit) == (opt.interaction_override \div bit) % 2 = 1

sameSource == UNCHANGED <<driver, source>>
sameWindow == UNCHANGED <<vout, window>>

\* "seek", "set fps", "set override", "window letterbox", "midi clk",
\* "midi sync", "osd mode", "osd pos", the offset keys.
Settable ==
  {"userFrame", "delay", "interaction_override", "want_letterbox", "midi_clkadj",
   "midi_clkconvert", "OSD_mode", "OSD_sx", "OSD_sy", "OSD_fx", "OSD_fy", "OSD_tx", "OSD_ty",
   "smpte_offset"}

ASSUME ValuesAssumption ==
  DOMAIN Values \subseteq Settable /\ \A v \in DOMAIN Values : \A x \in Values[v] : HasType(v, x)

\* One option at a time: "osd smpte" and "osd frame" set a position and a mode,
\* which are two of these steps.  Values out of range are refused and change
\* nothing.
SetOption ==
  /\ Handler
  /\ \E v \in DOMAIN Values : \E x \in Values[v] : opt' = [opt EXCEPT ![v] = x]
  /\ sameSource /\ sameWindow

Load ==
  /\ Handler
  /\ \E name \in Movies \cup {NULL} : opt' = open_movie(opt, name)
  /\ sameSource /\ sameWindow

\* Both turn the text on.
OsdText ==
  /\ Handler
  /\ \E t \in Captions :
       opt' = [opt EXCEPT !.OSD_text = t, !.OSD_mode = @ \cup {OSD_TEXT}]
  /\ sameSource /\ sameWindow

OsdFont ==
  /\ Handler
  /\ \E f \in Fonts :
       opt' = [opt EXCEPT !.OSD_fontfile = f, !.OSD_mode = @ \cup {OSD_TEXT}]
  /\ sameSource /\ sameWindow

SyncTo ==
  /\ Handler
  /\ source' \in {"jack", "ltc", "none"}
  /\ UNCHANGED <<opt, driver>> /\ sameWindow

\* "midi driver" and "midi connect", which notes the port when it succeeds.
MidiConnect ==
  /\ Handler
  /\ \E d \in Drivers, port \in MidiPorts :
       /\ driver' = d
       /\ \/ source' = d /\ opt' = [opt EXCEPT !.midiid = port]
          \/ source' = "none" /\ UNCHANGED opt
  /\ sameWindow

\* The menu looks for a port and does not note it.
MidiMenu ==
  /\ Handler /\ ~Overridden(OVR_MENUSYNC)
  /\ driver' \in Drivers
  /\ source' \in {driver', "none"}
  /\ UNCHANGED opt /\ sameWindow

WindowClose ==
  /\ Handler /\ vout # VO_AUTO
  /\ vout' = VO_AUTO
  /\ UNCHANGED <<opt, window>> /\ sameSource

\* "window open" (0) and "window mode"; a new window starts like the first.
WindowMode ==
  /\ Handler /\ vout = VO_AUTO
  /\ \E m \in {0} \cup Compiled : vout' = open_window(vidoutmode(m))
  /\ window' = [ontop |-> opt.start_ontop, full |-> opt.start_fullscreen]
  /\ UNCHANGED opt /\ sameSource

WindowState ==
  /\ Handler /\ vout # VO_AUTO
  /\ \/ window' = [window EXCEPT !.ontop = ~@]
     \/ window' = [window EXCEPT !.full = ~@]
  /\ UNCHANGED <<opt, vout>> /\ sameSource

-----------------------------------------------------------------------------
(* JACK's session callback: there is one while a client of JACK is open.   *)
(* Writing the file may fail.                                              *)

jack_session_cb ==
  /\ running /\ source \in {"jack", "ltc", JACK_MIDI}
  /\ ~Overridden(OVR_JSESSION)
  /\ \/ saved' = Current /\ file' = saveconfig(saved')
     \/ UNCHANGED <<file, saved>>
  /\ running' \in BOOLEAN      \* JackSessionSaveAndQuit
  /\ restored' = FALSE
  /\ UNCHANGED <<world, opt, driver, tried, source, vout, window, starts,
                 changes>>

Quit ==
  /\ running /\ running' = FALSE
  /\ restored' = FALSE
  /\ UNCHANGED <<world, opt, driver, tried, source, vout, window, file, saved,
                 starts, changes>>

-----------------------------------------------------------------------------
Init ==
  /\ etc \in RcFiles
  /\ works \in SUBSET Compiled
  /\ running = FALSE
  /\ opt = Defaults
  /\ driver = JACK_MIDI /\ tried = "none" /\ source = "none"
  /\ vout = VO_AUTO /\ window = [ontop |-> FALSE, full |-> FALSE]
  /\ file = <<>>
  /\ saved = [opt |-> Defaults, source |-> "none", ontop |-> FALSE, full |-> FALSE]
  /\ restored = FALSE
  /\ starts = 0 /\ changes = 0

Next ==
  \/ Start \/ Restore \/ jack_session_cb \/ Quit
  \/ SetOption \/ Load \/ OsdText \/ OsdFont
  \/ SyncTo \/ MidiConnect \/ MidiMenu
  \/ WindowClose \/ WindowMode \/ WindowState

Spec == Init /\ [][Next]_vars

-----------------------------------------------------------------------------
(* Correctness. *)

Sources == {"none", "jack", "ltc"} \cup Drivers

\* The types of what start-up and the handlers set; without a window a program
\* that nobody has touched has a remote control.
TypeOK ==
  /\ Typed(opt)
  /\ {source, tried} \subseteq Sources
  /\ driver \in Drivers
  /\ vout \in Displays
  /\ running /\ vout = VO_AUTO => opt.remote_en \/ changes > 0

OnlyOn ==
  {"want_quiet", "want_verbose", "want_nosplash", "want_letterbox", "want_genpts",
   "want_ignstart", "want_dropframes", "want_autodrop"}

\* A restored session has the options of the one that was saved: each line of
\* the file reaches the option it was written for, through the chain of
\* prefixes, in the order of the file, after xjadeorc and the switches.
\* Excepted is what the file cannot say: "no" where xjadeorc or the default
\* said yes, a text that is not one word or is what a null pointer is printed
\* as, a rate above one frame per second.
SessionComesBack ==
  restored /\ running =>
    /\ \A v \in OnlyOn : opt[v] = (saved.opt[v] \/ preset[v])
    /\ opt.start_ontop = (saved.ontop \/ preset.start_ontop)
    /\ opt.start_fullscreen = (saved.full \/ preset.start_fullscreen)
    /\ \A v \in (Texts \cup Nullable) \ {"midiid"} :
         saved.opt[v] = NULL \/ Len(saved.opt[v]) = 1 =>
           \/ opt[v] = saved.opt[v]
           \/ v = "smpte_offset" /\ saved.opt[v] = NULL /\ opt[v] = <<"0">>
           \/ <<"(null)">> \in {opt[v], saved.opt[v]}
    /\ saved.opt.delay <= 1 => opt.delay = saved.opt.delay
    /\ \A v \in SavedOptions \ (OnlyOn \cup Texts \cup Nullable
                                \cup {"delay", "start_ontop", "start_fullscreen"}) :
         opt[v] = saved.opt[v]

\* It opens the source that was connected.  MTC needs a port in the file:
\* the menu does not note one, and after a restored session was saved again
\* its empty port is a line without a value (configfile.c, main.c).
SourceComesBack ==
  restored /\ running =>
    \/ tried = saved.source
    \/ /\ saved.source = JACK_MIDI
       /\ \/ saved.opt.midiid = <<>> \/ Head(saved.opt.midiid) = "-2"
          \/ saved.opt.midi_driver \notin {NULL, <<JACK_MIDI>>}

\* xjadeo.1:249 says that xjadeo saves its current state: the movie too.
MovieComesBack ==
  restored /\ running => opt.current_file = saved.opt.current_file
=============================================================================
