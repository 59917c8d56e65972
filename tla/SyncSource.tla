----------------------------- MODULE SyncSource -----------------------------
(***************************************************************************)
(* Which clock the movie follows: JACK transport, LTC on a JACK port, MTC  *)
(* through one of the MIDI drivers, or none (jack.c, ltc-jack.c, midi.c,   *)
(* common_jack.c, and who opens and closes them: common.c, remote.c,       *)
(* xjosc.c, main.c, configfile.c; event_loop in xjadeo.c).                 *)
(*                                                                         *)
(* A handler is a list of calls, todo, that the main thread carries out    *)
(* one by one; JACK's callbacks run in between.  A call is one step: what  *)
(* a callback can do within one is described in the README.                *)
(***************************************************************************)
EXTENDS Naturals, Sequences, FiniteSets

CONSTANTS
  Clients,      \* identities of JACK clients
  NULL,
  Supported,    \* the MIDI drivers that are compiled in
  Asked         \* those that options, menu and commands name

Drivers == {"JACK-MIDI", "ALSA-Sequencer", "PORTMIDI", "ALSA-RAW-MIDI"}

\* midiid: "-2" is no MTC; a port, or "-1" to look for one.
Ports == {"-2", "port"}

Sources == {"jack", "ltc", "midi"}

ASSUME SyncSourceAssumption ==
  /\ NULL \notin Clients
  /\ Supported \subseteq Drivers
  /\ Asked \subseteq Drivers

VARIABLES
  jack_client, j_client, jack_midi_client,   \* handles of the three sources
  xj_jack_client,        \* the handle they share (common_jack.c)
  role,                  \* of each client: what opened it, or "free"
  ltc_decoder,           \* LTC's decoder is allocated
  current_midi_driver,
  device,                \* the drivers besides JACK-MIDI that are open
  midiid,                \* option; "midi connect" sets it too
  syncnidx,              \* the source that the event loop polled last
  todo,                  \* rest of the handler that runs
  running,               \* main has not reached clean_up
  saved,                 \* the last configuration file
  chosen,                \* history: the source last switched to, or "mixed"
  orderly                \* history: no source was opened beside another,
                         \* none was closed that was not open

jackVars ==
  <<jack_client, j_client, jack_midi_client, xj_jack_client, role, ltc_decoder>>
midiVars == <<current_midi_driver, device>>
histVars == <<chosen, orderly>>

vars == <<jackVars, midiVars, midiid, syncnidx, todo, running, saved, histVars>>

Call(op, arg) == [op |-> op, arg |-> arg]
Do(op) == Call(op, "")

NoFile == [ss |-> 4, midiid |-> "-2"]

-----------------------------------------------------------------------------
(* What the handlers ask. *)

jack_connected == jack_client # NULL

ltcjack_connected == j_client # NULL

midi_connected ==
  /\ current_midi_driver \in Supported
  /\ IF current_midi_driver = "JACK-MIDI"
       THEN jack_midi_client # NULL ELSE current_midi_driver \in device

Connected(s) ==
  \/ s = "jack" /\ jack_connected
  \/ s = "ltc" /\ ltcjack_connected
  \/ s = "midi" /\ midi_connected

\* The remote control and the configuration file: 3 for LTC before 2 for MIDI
\* before 1 for JACK.
psync ==
  IF ltcjack_connected THEN 3
  ELSE IF midi_connected THEN 2
  ELSE IF jack_connected THEN 1 ELSE 0

\* The event loop, which counts otherwise: 3 for MIDI before 2 for LTC.
Polled ==
  IF midi_connected THEN 3
  ELSE IF ltcjack_connected THEN 2
  ELSE IF jack_connected THEN 1 ELSE 0

-----------------------------------------------------------------------------
(* The calls on a source.  The server may refuse a client, a port or the   *)
(* activation, and a device may be missing.                                *)

Released(c) == IF c = NULL THEN role ELSE [role EXCEPT ![c] = "free"]

\* xj_close_jack forgets the shared handle, whoever it belongs to.
close_jackOnly ==
  /\ role' = Released(jack_client)
  /\ jack_client' = NULL
  /\ UNCHANGED <<xj_jack_client, j_client, jack_midi_client, ltc_decoder, midiVars,
                 midiid>>

close_jack ==
  /\ xj_jack_client' = IF jack_connected THEN NULL ELSE xj_jack_client
  /\ role' = Released(jack_client)
  /\ jack_client' = NULL
  /\ UNCHANGED <<j_client, jack_midi_client, ltc_decoder, midiVars, midiid>>

close_ltcjack ==
  /\ xj_jack_client' = NULL
  /\ role' = Released(j_client)
  /\ j_client' = NULL
  /\ ltc_decoder' = FALSE
  /\ UNCHANGED <<jack_client, jack_midi_client, midiVars, midiid>>

jm_midi_close ==
  /\ xj_jack_client' = NULL
  /\ role' = Released(jack_midi_client)
  /\ jack_midi_client' = NULL
  /\ UNCHANGED <<jack_client, j_client, ltc_decoder, midiVars, midiid>>

\* The drivers with a device of their own.
dev_midi_close ==
  /\ device' = device \ {current_midi_driver}
  /\ UNCHANGED <<jackVars, current_midi_driver, midiid>>

no_call == UNCHANGED <<jackVars, midiVars, midiid>>

midi_close ==
  \/ current_midi_driver \notin Supported /\ no_call
  \/ current_midi_driver \in Supported \ {"JACK-MIDI"} /\ dev_midi_close
  \/ current_midi_driver \in Supported \cap {"JACK-MIDI"} /\ jm_midi_close

xj_init_jackUnshared(c, s) ==
  /\ c # NULL => role[c] = "free"
  /\ UNCHANGED xj_jack_client
  /\ role' = IF c = NULL THEN role ELSE [role EXCEPT ![c] = s]

\* xj_init_jack for a source s that gets c, or NULL when it is refused.
xj_init_jack(c, s) ==
  /\ c # NULL => role[c] = "free"
  /\ xj_jack_client' = c
  /\ role' = IF c = NULL THEN role ELSE [role EXCEPT ![c] = s]

open_jack ==
  IF jack_connected
    THEN no_call
    ELSE \E c \in Clients \cup {NULL} :
           /\ xj_init_jack(c, "jack")
           /\ jack_client' = c
           /\ UNCHANGED <<j_client, jack_midi_client, ltc_decoder, midiVars, midiid>>

\* There is no test for a client that is open.  Ports or activation may fail
\* (close_ltcjack).
open_ltcjack ==
  /\ \/ \E c \in Clients \cup {NULL} :
          /\ xj_init_jack(c, "ltc")
          /\ j_client' = c
          /\ ltc_decoder' = (ltc_decoder \/ c # NULL)
     \/ /\ \E c \in Clients : role[c] = "free"
        /\ xj_jack_client' = NULL
        /\ j_client' = NULL
        /\ ltc_decoder' = FALSE
        /\ UNCHANGED role
  /\ UNCHANGED <<jack_client, jack_midi_client, midiVars, midiid>>

\* Without a port or activation the client is closed again, as if refused.
\* After a failed activation the code still looks for ports, with a client that
\* is NULL: libjack is taken to find none.
jm_midi_open ==
  \E c \in Clients \cup {NULL} :
    /\ xj_init_jack(c, "midi")
    /\ jack_midi_client' = c
    /\ UNCHANGED <<jack_client, j_client, ltc_decoder, midiVars, midiid>>

dev_midi_open ==
  /\ device' \in {device, device \cup {current_midi_driver}}
  /\ UNCHANGED <<jackVars, current_midi_driver, midiid>>

midi_open ==
  \/ (current_midi_driver \notin Supported \/ midi_connected) /\ no_call
  \/ /\ ~midi_connected
     /\ \/ current_midi_driver \in Supported \ {"JACK-MIDI"} /\ dev_midi_open
        \/ current_midi_driver \in Supported \cap {"JACK-MIDI"} /\ jm_midi_open

\* No name: the first driver that is compiled in, in the order of MA.
FirstSupported ==
  LET MA == <<"JACK-MIDI", "ALSA-Sequencer", "PORTMIDI", "ALSA-RAW-MIDI">>
      first == {i \in 1 .. 4 : /\ MA[i] \in Supported
                              /\ \A j \in 1 .. i - 1 : MA[j] \notin Supported}
  IN  {MA[i] : i \in first}

\* A name that is not known, or no driver at all, keeps the driver.
Named(id) ==
  IF id \in Drivers THEN {id} ELSE IF id = "none" THEN FirstSupported ELSE {}

midi_choose_driverAnyTime(id) ==
  /\ current_midi_driver' \in
       IF Named(id) = {} THEN {current_midi_driver} ELSE Named(id)
  /\ UNCHANGED <<jackVars, device, midiid>>

midi_choose_driver(id) ==
  /\ current_midi_driver' \in
       IF midi_connected \/ Named(id) = {} THEN {current_midi_driver} ELSE Named(id)
  /\ UNCHANGED <<jackVars, device, midiid>>

\* xapi_open_midi and oscb_midiconnect note the port for "reconnect".
note_port(port) ==
  /\ midiid' = IF midi_connected THEN port ELSE midiid
  /\ UNCHANGED <<jackVars, midiVars>>

-----------------------------------------------------------------------------
(* The main thread. *)

\* One call of the handler that runs; the rest remains.
Step ==
  /\ todo # <<>>
  /\ todo' = Tail(todo)
  /\ LET op == Head(todo).op
         arg == Head(todo).arg
     IN  \/ op = "close_jack" /\ close_jack
         \/ op = "close_ltc" /\ close_ltcjack
         \/ op = "close_ltc_if" /\ ltcjack_connected /\ close_ltcjack
         \/ op = "close_ltc_if" /\ ~ltcjack_connected /\ no_call
         \/ op = "close_midi" /\ midi_close
         \/ op = "close_midi_if" /\ midi_connected /\ midi_close
         \/ op = "close_midi_if" /\ ~midi_connected /\ no_call
         \/ /\ op = "close_midi_unless" /\ current_midi_driver # arg
            /\ midi_connected /\ midi_close
         \/ /\ op = "close_midi_unless" /\ no_call
            /\ ~midi_connected \/ current_midi_driver = arg
         \/ op = "open_jack" /\ open_jack
         \/ op = "open_ltc" /\ open_ltcjack
         \/ op = "open_ltc_unless" /\ ~ltcjack_connected /\ open_ltcjack
         \/ op = "open_ltc_unless" /\ ltcjack_connected /\ no_call
         \/ op = "open_midi" /\ midi_open
         \/ op = "choose" /\ midi_choose_driver(arg)
         \/ op = "note_port" /\ note_port(arg)
  /\ UNCHANGED <<syncnidx, running, saved, histVars>>

\* A command whose calls are c; s is the source it is to leave.
Handler(c, s, o) ==
  /\ running /\ todo = <<>>
  /\ todo' = c /\ chosen' = s /\ orderly' = o
  /\ UNCHANGED <<jackVars, midiVars, midiid, syncnidx, running, saved>>

SyncToJackBeside ==
  Handler(<<Do("close_ltc_if"), Do("open_jack")>>, "jack", orderly)

\* INT_sync_to_jack, for the menu and the command "jack connect".
SyncToJack ==
  Handler(<<Do("close_midi_if"), Do("close_ltc_if"), Do("open_jack")>>, "jack", orderly)

SyncToLtcAgain ==
  Handler(<<Do("close_jack"), Do("close_midi_if"), Do("open_ltc")>>, "ltc", orderly)

SyncToLtc ==
  Handler(<<Do("close_jack"), Do("close_midi_if"), Do("open_ltc_unless")>>, "ltc", orderly)

\* ui_sync_to_mtc_*.  The menu offers the four drivers.
SyncToMtc(driver) ==
  Handler(<<Do("close_jack"), Do("close_ltc_if"), Call("close_midi_unless", driver),
            Call("choose", driver), Do("open_midi")>>, "midi", orderly)

SyncToNone ==
  Handler(<<Do("close_jack"), Do("close_midi_if"), Do("close_ltc_if")>>, "none", orderly)

\* The command "midi connect".
XapiOpenMidi(port) ==
  Handler(<<Do("close_jack"), Do("close_ltc_if"), Do("open_midi"),
            Call("note_port", port)>>, "midi", orderly)

XapiReopenMidi ==
  Handler(<<Do("close_midi"), Do("close_jack"), Do("close_ltc_if"),
            Do("open_midi"), Call("note_port", midiid)>>, "midi",
          orderly /\ midi_connected)

\* The disconnect commands, and OSC's, do not look whether it is connected.
XapiCloseJack == Handler(<<Do("close_jack")>>, chosen, orderly)

XapiCloseLtc == Handler(<<Do("close_ltc")>>, chosen, orderly /\ ltcjack_connected)

XapiCloseMidi == Handler(<<Do("close_midi")>>, chosen, orderly /\ midi_connected)

XapiMidiDriver(id) == Handler(<<Call("choose", id)>>, chosen, orderly)

\* OSC connects without closing what is open.
OscJackConnect == Handler(<<Do("open_jack")>>, "mixed", FALSE)

OscLtcConnect == Handler(<<Do("open_ltc")>>, "mixed", FALSE)

OscMidiConnect(port) ==
  Handler(<<Do("open_midi"), Call("note_port", port)>>, "mixed", FALSE)

Command ==
  \/ SyncToJack \/ SyncToLtc \/ SyncToNone
  \/ \E d \in Asked : SyncToMtc(d)
  \/ XapiOpenMidi("port") \/ OscMidiConnect("port")
  \/ XapiReopenMidi
  \/ XapiCloseJack \/ XapiCloseLtc \/ XapiCloseMidi
  \/ \E d \in Asked \cup {"none", "other"} : XapiMidiDriver(d)
  \/ OscJackConnect \/ OscLtcConnect

\* The part of an iteration of event_loop that asks for the position.
Poll ==
  /\ running /\ todo = <<>>
  /\ syncnidx' = Polled
  /\ UNCHANGED <<jackVars, midiVars, midiid, todo, running, saved, histVars>>

\* clean_up closes one source, then the process ends.
CleanUp ==
  /\ running /\ todo = <<>>
  /\ \/ midi_connected /\ midi_close
     \/ ~midi_connected /\ ltcjack_connected /\ close_ltcjack
     \/ ~midi_connected /\ ~ltcjack_connected /\ close_jack
  /\ running' = FALSE
  /\ UNCHANGED <<syncnidx, todo, saved, histVars>>

Opener(s) ==
  CASE s = "midi" -> "open_midi" [] s = "ltc" -> "open_ltc" [] OTHER -> "open_jack"

\* What main does with its options: it opens sync; s is what the user expects.
Main(port, driver, sync, s) ==
  /\ ~running /\ running' = TRUE
  /\ jack_client' = NULL /\ j_client' = NULL /\ jack_midi_client' = NULL
  /\ xj_jack_client' = NULL /\ role' = [c \in Clients |-> "free"]
  /\ ltc_decoder' = FALSE
  /\ current_midi_driver' = "JACK-MIDI" /\ device' = {}
  /\ midiid' = port
  /\ syncnidx' = 0
  /\ todo' = IF sync = "none" THEN <<Call("choose", driver)>>
             ELSE <<Call("choose", driver), Do(Opener(sync))>>
  /\ chosen' = s /\ orderly' = TRUE
  /\ UNCHANGED saved

\* MTC before LTC before JACK.
InitialSync(port, use_ltc, use_jack) ==
  IF port # "-2" THEN "midi"
  ELSE IF use_ltc THEN "ltc" ELSE IF use_jack THEN "jack" ELSE "none"

\* Started with options; -J is for no source.
Start ==
  \E port \in Ports, driver \in Asked \cup {"none"}, use_ltc, no_initial_sync \in BOOLEAN :
    LET s == IF no_initial_sync THEN "none" ELSE InitialSync(port, use_ltc, TRUE)
    IN  Main(port, driver, s, s)

\* SYNCSOURCE in a configuration file: the port stays only with MTC.
LoadedPort == IF saved.ss = 2 THEN saved.midiid ELSE "-2"

SavedSource ==
  CASE saved.ss = 3 -> "ltc" [] saved.ss = 2 -> "midi"
    [] saved.ss = 1 -> "jack" [] OTHER -> "none"

\* Restarted by the JACK session, with the driver option that the file has.
\* When the port is missing, which SavedMtcHasPort is about, the user expects
\* nothing in particular.
StartSession ==
  /\ saved # NoFile
  /\ \E driver \in Asked \cup {"none"} :
       Main(LoadedPort, driver,
            InitialSync(LoadedPort, saved.ss = 3, saved.ss # 0),
            IF saved.ss = 2 /\ saved.midiid = "-2" THEN "mixed" ELSE SavedSource)

-----------------------------------------------------------------------------
(* JACK's callbacks, on threads of its own. *)

\* The server ends or drops client c.
Shutdown(c) ==
  /\ role[c] # "free"
  /\ role' = [role EXCEPT ![c] = "free"]
  /\ xj_jack_client' = NULL
  /\ \/ /\ role[c] = "jack" /\ jack_client' = NULL
        /\ UNCHANGED <<j_client, jack_midi_client, ltc_decoder>>
     \/ /\ role[c] = "midi" /\ jack_midi_client' = NULL
        /\ UNCHANGED <<jack_client, j_client, ltc_decoder>>
     \/ /\ role[c] = "ltc" /\ j_client' = NULL /\ ltc_decoder' = FALSE
        /\ UNCHANGED <<jack_client, jack_midi_client>>
  /\ UNCHANGED <<midiVars, midiid, syncnidx, todo, running, saved, histVars>>

\* jack_session_cb: saveconfig, with the source that is connected and the
\* options for MIDI.
JackSession(c) ==
  /\ running /\ role[c] # "free"
  /\ saved' = [ss |-> psync, midiid |-> midiid]
  /\ UNCHANGED <<jackVars, midiVars, midiid, syncnidx, todo, running, histVars>>

-----------------------------------------------------------------------------
Init ==
  /\ jack_client = NULL /\ j_client = NULL /\ jack_midi_client = NULL
  /\ xj_jack_client = NULL /\ role = [c \in Clients |-> "free"]
  /\ ltc_decoder = FALSE
  /\ current_midi_driver = "JACK-MIDI" /\ device = {}
  /\ midiid = "-2"
  /\ syncnidx = 0 /\ todo = <<>> /\ running = FALSE /\ saved = NoFile
  /\ chosen = "none" /\ orderly = TRUE

Callback == \E c \in Clients : Shutdown(c) \/ JackSession(c)

Next == Step \/ Command \/ Poll \/ CleanUp \/ Start \/ StartSession \/ Callback

\* A handler goes on by itself; the commands of one iteration are finitely
\* many, so that the loop polls again.
Fairness == WF_vars(Step) /\ SF_vars(Poll)

Spec == Init /\ [][Next]_vars

FairSpec == Spec /\ Fairness

-----------------------------------------------------------------------------
(* Properties. *)

Ops == {"close_jack", "close_ltc", "close_ltc_if", "close_midi", "close_midi_if",
        "close_midi_unless", "open_jack", "open_ltc", "open_ltc_unless",
        "open_midi", "choose", "note_port"}

Args == {"", "none", "other"} \cup Drivers \cup Ports

\* The values of the variables; a handle is never that of another source.
TypeOK ==
  /\ {jack_client, j_client, jack_midi_client, xj_jack_client}
       \subseteq Clients \cup {NULL}
  /\ role \in [Clients -> Sources \cup {"free"}]
  /\ jack_client # NULL => role[jack_client] = "jack"
  /\ j_client # NULL => role[j_client] = "ltc"
  /\ jack_midi_client # NULL => role[jack_midi_client] = "midi"
  /\ current_midi_driver \in Drivers /\ device \subseteq Drivers
  /\ midiid \in Ports
  /\ syncnidx \in 0 .. 3
  /\ todo \in Seq([op : Ops, arg : Args])
  /\ {ltc_decoder, running, orderly} \subseteq BOOLEAN
  /\ saved \in [ss : 0 .. 4, midiid : Ports]
  /\ chosen \in Sources \cup {"none", "mixed"}

\* Only the current driver has a connection: with any other, nobody could
\* poll or close it (midi_choose_driver and the dispatch behind it).
OnlyChosenDriverOpen ==
  /\ device \subseteq {current_midi_driver}
  /\ jack_midi_client # NULL => current_midi_driver = "JACK-MIDI"

\* The shared handle, which the session callback and the status commands
\* use, is never that of a client that was closed.
SharedClientIsOpen == xj_jack_client # NULL => role[xj_jack_client] # "free"

\* When a switch by menu or remote control, or the start of the program or of
\* its session, is done, no source is connected but the one it was for,
\* however many there were before.
SwitchIsExclusive ==
  todo = <<>> /\ chosen # "mixed" => \A s \in Sources : Connected(s) => s = chosen

\* clean_up closes one source; that leaves none.
CleanUpIsEnough ==
  ~running /\ chosen # "mixed" => \A s \in Sources : ~Connected(s)

\* As long as commands are orderly, the session callback answers with the
\* client that was asked, and no client is left that no handle has.
SessionReplyReachesCaller ==
  orderly => \A c \in Clients : role[c] # "free" => xj_jack_client = c

\* As long as commands are orderly, the process callback of an LTC client
\* finds a decoder.
ProcessHasDecoder ==
  orderly => \A c \in Clients : role[c] = "ltc" => ltc_decoder

\* Assertion of configfile.c:174: a file that says MTC names a port.
SavedMtcHasPort == saved.ss = 2 => saved.midiid # "-2"

Index(s) == CASE s = "jack" -> 1 [] s = "ltc" -> 2 [] s = "midi" -> 3 [] OTHER -> 0

\* The movie follows the source of the last switch, or the user's frame when
\* it could not be connected.
SwitchIsFollowed ==
  \A s \in Sources \cup {"none"} :
    running /\ chosen = s ~> syncnidx \in {Index(s), 0} \/ chosen # s \/ ~running
=============================================================================
