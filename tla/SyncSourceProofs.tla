-------------------------- MODULE SyncSourceProofs --------------------------
(***************************************************************************)
(* Proofs about SyncSource, for any JACK clients, any MIDI drivers that    *)
(* are compiled in, and any that commands ask for.                         *)
(***************************************************************************)
EXTENDS SyncSource, SequenceTheorems, TLAPS

-----------------------------------------------------------------------------
(* What each call on a source keeps and does.                              *)

Handles ==
  /\ jack_client \in Clients \cup {NULL} /\ j_client \in Clients \cup {NULL}
  /\ jack_midi_client \in Clients \cup {NULL}
  /\ xj_jack_client \in Clients \cup {NULL}
  /\ role \in [Clients -> Sources \cup {"free"}]
  /\ jack_client # NULL => role[jack_client] = "jack"
  /\ j_client # NULL => role[j_client] = "ltc"
  /\ jack_midi_client # NULL => role[jack_midi_client] = "midi"
  /\ SharedClientIsOpen
  /\ ltc_decoder \in BOOLEAN

\* A driver that is not compiled in has no connection, which is why the test
\* in midi_choose_driver is enough.
DriverInv ==
  /\ current_midi_driver \in Drivers
  /\ device \subseteq Supported \ {"JACK-MIDI"}
  /\ device \subseteq {current_midi_driver}
  /\ jack_midi_client # NULL =>
       current_midi_driver = "JACK-MIDI" /\ "JACK-MIDI" \in Supported
  /\ midiid \in Ports

SourceInv == Handles /\ DriverInv

\* No source is connected after the step that was not before, but s.
OnlyMayOpen(s) ==
  /\ s # "jack" => (jack_connected' => jack_connected)
  /\ s # "ltc" => (ltcjack_connected' => ltcjack_connected)
  /\ s # "midi" => (midi_connected' => midi_connected)

LEMMA NoCall ==
  ASSUME SourceInv, no_call PROVE SourceInv' /\ OnlyMayOpen("none")
BY DEF SourceInv, no_call, jackVars, midiVars, Handles, DriverInv,
       SharedClientIsOpen, OnlyMayOpen, jack_connected, ltcjack_connected,
       midi_connected

LEMMA CloseJack ==
  ASSUME SourceInv, close_jack
  PROVE  SourceInv' /\ OnlyMayOpen("none") /\ ~jack_connected'
  <1> USE SyncSourceAssumption
  <1>1. Handles' /\ ~jack_connected'
    BY DEF SourceInv, close_jack, Handles, SharedClientIsOpen, jack_connected,
           Released, Sources
  <1>2. DriverInv'
    BY DEF SourceInv, close_jack, DriverInv, midiVars
  <1>3. OnlyMayOpen("none")
    BY DEF close_jack, OnlyMayOpen, jack_connected, ltcjack_connected,
           midi_connected, midiVars
  <1> QED BY <1>1, <1>2, <1>3 DEF SourceInv

LEMMA CloseLtc ==
  ASSUME SourceInv, close_ltcjack
  PROVE  SourceInv' /\ OnlyMayOpen("none") /\ ~ltcjack_connected'
  <1> USE SyncSourceAssumption
  <1>1. Handles' /\ ~ltcjack_connected'
    BY DEF SourceInv, close_ltcjack, Handles, SharedClientIsOpen,
           ltcjack_connected, Released, Sources
  <1>2. DriverInv'
    BY DEF SourceInv, close_ltcjack, DriverInv, midiVars
  <1>3. OnlyMayOpen("none")
    BY DEF close_ltcjack, OnlyMayOpen, jack_connected, ltcjack_connected,
           midi_connected, midiVars
  <1> QED BY <1>1, <1>2, <1>3 DEF SourceInv

LEMMA CloseMidi ==
  ASSUME SourceInv, midi_close
  PROVE  SourceInv' /\ OnlyMayOpen("none") /\ ~midi_connected'
  <1> USE SyncSourceAssumption
  <1>1. CASE current_midi_driver \notin Supported /\ no_call
    <2>1. ~midi_connected'
      BY <1>1 DEF no_call, midiVars, midi_connected
    <2> QED BY <1>1, <2>1, NoCall
  <1>2. CASE current_midi_driver \in Supported \ {"JACK-MIDI"} /\ dev_midi_close
    <2>1. Handles'
      BY <1>2 DEF SourceInv, Handles, SharedClientIsOpen, dev_midi_close, jackVars
    <2>2. DriverInv' /\ ~midi_connected'
      BY <1>2 DEF SourceInv, DriverInv, dev_midi_close, jackVars, midi_connected
    <2>3. OnlyMayOpen("none")
      BY <1>2, <2>2 DEF OnlyMayOpen, dev_midi_close, jackVars, jack_connected,
                       ltcjack_connected
    <2> QED BY <2>1, <2>2, <2>3 DEF SourceInv
  <1>3. CASE current_midi_driver \in Supported \cap {"JACK-MIDI"} /\ jm_midi_close
    <2>1. Handles'
      BY <1>3 DEF SourceInv, Handles, SharedClientIsOpen, jm_midi_close, Released,
                  Sources
    <2>2. DriverInv' /\ ~midi_connected'
      BY <1>3 DEF SourceInv, DriverInv, jm_midi_close, midiVars, midi_connected
    <2>3. OnlyMayOpen("none")
      BY <1>3, <2>2 DEF OnlyMayOpen, jm_midi_close, jack_connected,
                       ltcjack_connected
    <2> QED BY <2>1, <2>2, <2>3 DEF SourceInv
  <1> QED BY <1>1, <1>2, <1>3 DEF midi_close

LEMMA OpenJack ==
  ASSUME SourceInv, open_jack PROVE SourceInv' /\ OnlyMayOpen("jack")
  <1> USE SyncSourceAssumption
  <1>1. CASE jack_connected
    <2>1. no_call
      BY <1>1 DEF open_jack
    <2> QED BY <2>1, NoCall DEF OnlyMayOpen
  <1>2. CASE ~jack_connected
    <2>1. PICK c \in Clients \cup {NULL} :
            /\ xj_init_jack(c, "jack") /\ jack_client' = c
            /\ UNCHANGED <<j_client, jack_midi_client, ltc_decoder, midiVars, midiid>>
      BY <1>2 DEF open_jack
    <2>2. Handles'
      BY <2>1 DEF SourceInv, Handles, SharedClientIsOpen, xj_init_jack, Sources
    <2>3. DriverInv'
      BY <2>1 DEF SourceInv, DriverInv, midiVars
    <2>4. OnlyMayOpen("jack")
      BY <2>1 DEF OnlyMayOpen, ltcjack_connected, midi_connected, midiVars
    <2> QED BY <2>2, <2>3, <2>4 DEF SourceInv
  <1> QED BY <1>1, <1>2

LEMMA OpenLtc ==
  ASSUME SourceInv, open_ltcjack PROVE SourceInv' /\ OnlyMayOpen("ltc")
  <1> USE SyncSourceAssumption
  <1>1. Handles'
    <2>1. CASE \E c \in Clients \cup {NULL} :
                 /\ xj_init_jack(c, "ltc") /\ j_client' = c
                 /\ ltc_decoder' = (ltc_decoder \/ c # NULL)
      BY <2>1 DEF SourceInv, Handles, SharedClientIsOpen, xj_init_jack, Sources,
                  open_ltcjack
    <2>2. CASE /\ xj_jack_client' = NULL /\ j_client' = NULL
               /\ ltc_decoder' = FALSE /\ UNCHANGED role
      BY <2>2 DEF SourceInv, Handles, SharedClientIsOpen, open_ltcjack
    <2> QED BY <2>1, <2>2 DEF open_ltcjack
  <1>2. DriverInv'
    BY DEF SourceInv, DriverInv, open_ltcjack, midiVars
  <1>3. OnlyMayOpen("ltc")
    BY DEF OnlyMayOpen, open_ltcjack, jack_connected, midi_connected, midiVars
  <1> QED BY <1>1, <1>2, <1>3 DEF SourceInv

LEMMA OpenMidi ==
  ASSUME SourceInv, midi_open PROVE SourceInv' /\ OnlyMayOpen("midi")
  <1> USE SyncSourceAssumption
  <1>1. CASE no_call
    BY <1>1, NoCall DEF OnlyMayOpen
  <1>2. CASE /\ ~midi_connected /\ dev_midi_open
             /\ current_midi_driver \in Supported \ {"JACK-MIDI"}
    <2>1. Handles'
      BY <1>2 DEF SourceInv, Handles, SharedClientIsOpen, dev_midi_open, jackVars
    <2>2. DriverInv'
      BY <1>2 DEF SourceInv, DriverInv, dev_midi_open, jackVars
    <2>3. OnlyMayOpen("midi")
      BY <1>2 DEF OnlyMayOpen, dev_midi_open, jackVars, jack_connected,
                  ltcjack_connected
    <2> QED BY <2>1, <2>2, <2>3 DEF SourceInv
  <1>3. CASE /\ ~midi_connected /\ jm_midi_open
             /\ current_midi_driver \in Supported \cap {"JACK-MIDI"}
    <2>1. PICK c \in Clients \cup {NULL} :
            /\ xj_init_jack(c, "midi") /\ jack_midi_client' = c
            /\ UNCHANGED <<jack_client, j_client, ltc_decoder, midiVars, midiid>>
      BY <1>3 DEF jm_midi_open
    <2>2. Handles'
      BY <2>1 DEF SourceInv, Handles, SharedClientIsOpen, xj_init_jack, Sources
    <2>3. DriverInv'
      BY <1>3, <2>1 DEF SourceInv, DriverInv, midiVars
    <2>4. OnlyMayOpen("midi")
      BY <2>1 DEF OnlyMayOpen, jack_connected, ltcjack_connected
    <2> QED BY <2>2, <2>3, <2>4 DEF SourceInv
  <1> QED BY <1>1, <1>2, <1>3 DEF midi_open

LEMMA FirstSupportedIsOne ==
  FirstSupported \subseteq Drivers
BY DEF FirstSupported, Drivers

LEMMA ChooseDriver ==
  ASSUME SourceInv, NEW id, midi_choose_driver(id)
  PROVE  SourceInv' /\ OnlyMayOpen("none")
  <1> USE SyncSourceAssumption
  <1>1. CASE current_midi_driver' = current_midi_driver
    <2>1. no_call
      BY <1>1 DEF midi_choose_driver, no_call, midiVars
    <2> QED BY <2>1, NoCall
  <1>2. CASE ~midi_connected /\ current_midi_driver' \in Drivers
    <2>1. device = {} /\ jack_midi_client = NULL
      BY <1>2 DEF SourceInv, DriverInv, midi_connected
    <2>2. device' = {} /\ jack_midi_client' = NULL /\ midiid' = midiid
      BY <2>1 DEF midi_choose_driver, jackVars
    <2>3. Handles'
      BY DEF SourceInv, Handles, SharedClientIsOpen, midi_choose_driver, jackVars
    <2>4. DriverInv' /\ ~midi_connected'
      BY <1>2, <2>2 DEF SourceInv, DriverInv, midi_connected
    <2>5. OnlyMayOpen("none")
      BY <2>4 DEF OnlyMayOpen, midi_choose_driver, jackVars, jack_connected,
                  ltcjack_connected
    <2> QED BY <2>3, <2>4, <2>5 DEF SourceInv
  <1>3. Named(id) \subseteq Drivers
    BY FirstSupportedIsOne DEF Named
  <1> QED BY <1>1, <1>2, <1>3 DEF midi_choose_driver

LEMMA NotePort ==
  ASSUME SourceInv, NEW port \in Ports, note_port(port)
  PROVE  SourceInv' /\ OnlyMayOpen("none")
  <1>1. Handles'
    BY DEF SourceInv, Handles, SharedClientIsOpen, note_port, jackVars
  <1>2. DriverInv'
    BY DEF SourceInv, DriverInv, note_port, jackVars, midiVars
  <1>3. OnlyMayOpen("none")
    BY DEF OnlyMayOpen, note_port, jackVars, midiVars, jack_connected,
           ltcjack_connected, midi_connected
  <1> QED BY <1>1, <1>2, <1>3 DEF SourceInv

-----------------------------------------------------------------------------
(* The handler that runs.                                                  *)

Calls == [op : Ops, arg : Args]

OpsOf(c) == {c[i].op : i \in 1 .. Len(c)}

NotesPort(x) == x.op = "note_port" => x.arg \in Ports

IsHandler(c) ==
  /\ c \in Seq(Calls)
  /\ \A i \in 1 .. Len(c) : NotesPort(c[i])

CallInv == IsHandler(todo)

\* The first call and the rest of a handler.
LEMMA FirstCall ==
  ASSUME CallInv, todo # <<>>
  PROVE  /\ Head(todo) \in Calls /\ NotesPort(Head(todo))
         /\ Head(todo).op \in OpsOf(todo)
  <1>1. Len(todo) \in Nat \ {0}
    BY EmptySeq DEF CallInv, IsHandler
  <1>2. Head(todo) = todo[1] /\ todo[1] \in Calls
    BY <1>1 DEF CallInv, IsHandler
  <1> QED BY <1>1, <1>2 DEF CallInv, IsHandler, OpsOf

LEMMA Rest ==
  ASSUME CallInv, todo # <<>>, todo' = Tail(todo)
  PROVE  /\ CallInv'
         /\ \A o \in OpsOf(todo) : o = Head(todo).op \/ o \in OpsOf(todo')
         /\ OpsOf(todo') \subseteq OpsOf(todo)
  <1>1. /\ Tail(todo) \in Seq(Calls) /\ Len(Tail(todo)) = Len(todo) - 1
        /\ \A i \in 1 .. Len(Tail(todo)) : Tail(todo)[i] = todo[i + 1]
    BY HeadTailProperties DEF CallInv, IsHandler
  <1>2. Len(todo) \in Nat \ {0} /\ Head(todo) = todo[1]
    BY EmptySeq DEF CallInv, IsHandler
  <1>3. \A i \in 1 .. Len(todo) : i = 1 \/ i - 1 \in 1 .. Len(Tail(todo))
    BY <1>1, <1>2
  <1>4. \A i \in 1 .. Len(Tail(todo)) : i + 1 \in 1 .. Len(todo)
    BY <1>1, <1>2
  <1>5. \A i \in 2 .. Len(todo) : todo[i] = Tail(todo)[i - 1]
    BY <1>1, <1>2
  <1>6. CallInv'
    BY <1>1, <1>4 DEF CallInv, IsHandler
  <1>7. OpsOf(todo') \subseteq OpsOf(todo)
    BY <1>1, <1>4 DEF OpsOf
  <1>8. \A o \in OpsOf(todo) : o = Head(todo).op \/ o \in OpsOf(todo')
    BY <1>1, <1>2, <1>3, <1>5 DEF OpsOf
  <1> QED BY <1>6, <1>7, <1>8

\* The calls of a handler that is written as a list.
LEMMA CallFields ==
  ASSUME NEW op \in Ops, NEW arg \in Args
  PROVE  /\ Call(op, arg) \in Calls /\ Call(op, arg).op = op
         /\ op # "note_port" \/ arg \in Ports => NotesPort(Call(op, arg))
         /\ Do(op) \in Calls /\ Do(op).op = op
         /\ op # "note_port" => NotesPort(Do(op))
BY DEF Call, Do, Calls, Args, NotesPort

Listed(c, e) ==
  (\A x \in e : x \in Calls /\ NotesPort(x)) =>
    IsHandler(c) /\ OpsOf(c) = {x.op : x \in e}

LEMMA ListedElements ==
  ASSUME NEW c, NEW e, e \subseteq Calls => c \in Seq(Calls),
         \A i \in 1 .. Len(c) : c[i] \in e,
         \A x \in e : \E i \in 1 .. Len(c) : x = c[i]
  PROVE  Listed(c, e)
  <1>1. OpsOf(c) = {x.op : x \in e}
    BY DEF OpsOf
  <1> QED BY <1>1 DEF Listed, IsHandler

LEMMA ListOf1 == ASSUME NEW p PROVE Listed(<<p>>, {p})
  <1> DEFINE c == <<p>>
             e == {p}
  <1>1. Len(c) = 1 /\ c[1] = p /\ (e \subseteq Calls => c \in Seq(Calls))
    OBVIOUS
  <1> HIDE DEF c
  <1>2. \A i \in 1 .. Len(c) : c[i] \in e
    BY <1>1
  <1>3. \A x \in e : \E i \in 1 .. Len(c) : x = c[i]
    BY <1>1
  <1> HIDE DEF e
  <1>4. Listed(c, e)
    BY <1>1, <1>2, <1>3, ListedElements
  <1> QED BY <1>4 DEF c, e

LEMMA ListOf2 == ASSUME NEW p, NEW q PROVE Listed(<<p, q>>, {p, q})
  <1> DEFINE c == <<p, q>>
             e == {p, q}
  <1>1. /\ Len(c) = 2 /\ c[1] = p /\ c[2] = q
        /\ e \subseteq Calls => c \in Seq(Calls)
    OBVIOUS
  <1> HIDE DEF c
  <1>2. \A i \in 1 .. Len(c) : c[i] \in e
    BY <1>1
  <1>3. \A x \in e : \E i \in 1 .. Len(c) : x = c[i]
    BY <1>1
  <1> HIDE DEF e
  <1>4. Listed(c, e)
    BY <1>1, <1>2, <1>3, ListedElements
  <1> QED BY <1>4 DEF c, e

LEMMA ListOf3 == ASSUME NEW p, NEW q, NEW r PROVE Listed(<<p, q, r>>, {p, q, r})
  <1> DEFINE c == <<p, q, r>>
             e == {p, q, r}
  <1>1. /\ Len(c) = 3 /\ c[1] = p /\ c[2] = q /\ c[3] = r
        /\ e \subseteq Calls => c \in Seq(Calls)
    OBVIOUS
  <1> HIDE DEF c
  <1>2. \A i \in 1 .. Len(c) : c[i] \in e
    BY <1>1
  <1>3. \A x \in e : \E i \in 1 .. Len(c) : x = c[i]
    BY <1>1
  <1> HIDE DEF e
  <1>4. Listed(c, e)
    BY <1>1, <1>2, <1>3, ListedElements
  <1> QED BY <1>4 DEF c, e

LEMMA ListOf4 ==
  ASSUME NEW p, NEW q, NEW r, NEW s
  PROVE  Listed(<<p, q, r, s>>, {p, q, r, s})
  <1> DEFINE c == <<p, q, r, s>>
             e == {p, q, r, s}
  <1>1. /\ Len(c) = 4 /\ c[1] = p /\ c[2] = q /\ c[3] = r /\ c[4] = s
        /\ e \subseteq Calls => c \in Seq(Calls)
    OBVIOUS
  <1> HIDE DEF c
  <1>2. \A i \in 1 .. Len(c) : c[i] \in e
    BY <1>1
  <1>3. \A x \in e : \E i \in 1 .. Len(c) : x = c[i]
    BY <1>1
  <1> HIDE DEF e
  <1>4. Listed(c, e)
    BY <1>1, <1>2, <1>3, ListedElements
  <1> QED BY <1>4 DEF c, e

LEMMA ListOf5 ==
  ASSUME NEW p, NEW q, NEW r, NEW s, NEW t
  PROVE  Listed(<<p, q, r, s, t>>, {p, q, r, s, t})
  <1> DEFINE c == <<p, q, r, s, t>>
             e == {p, q, r, s, t}
  <1>1. /\ Len(c) = 5 /\ c[1] = p /\ c[2] = q /\ c[3] = r /\ c[4] = s /\ c[5] = t
        /\ e \subseteq Calls => c \in Seq(Calls)
    OBVIOUS
  <1> HIDE DEF c
  <1>2. \A i \in 1 .. Len(c) : c[i] \in e
    BY <1>1
  <1>3. \A x \in e : \E i \in 1 .. Len(c) : x = c[i]
    BY <1>1
  <1> HIDE DEF e
  <1>4. Listed(c, e)
    BY <1>1, <1>2, <1>3, ListedElements
  <1> QED BY <1>4 DEF c, e

Openers(s) ==
  CASE s = "jack" -> {"open_jack"}
    [] s = "ltc" -> {"open_ltc", "open_ltc_unless"}
    [] OTHER -> {"open_midi"}

Closers(s) ==
  CASE s = "jack" -> {"close_jack"}
    [] s = "ltc" -> {"close_ltc", "close_ltc_if"}
    [] OTHER -> {"close_midi", "close_midi_if"}

\* What a call op may and must do to the source s.
Does(op, s) ==
  /\ op \notin Openers(s) => (Connected(s)' => Connected(s))
  /\ op \in Closers(s) => ~Connected(s)'

LEMMA StepDoes ==
  ASSUME SourceInv, CallInv, Step
  PROVE  SourceInv' /\ \A s \in Sources : Does(Head(todo).op, s)
  <1> DEFINE op == Head(todo).op
             arg == Head(todo).arg
  <1>1. op = "note_port" => arg \in Ports
    BY FirstCall DEF Step, NotesPort
  <1> USE DEF Does, Openers, Closers, Connected, OnlyMayOpen, Sources
  <1>2. CASE op = "close_jack" /\ close_jack
    BY <1>2, CloseJack
  <1>3. CASE op = "close_ltc" /\ close_ltcjack
    BY <1>3, CloseLtc
  <1>4. CASE op = "close_ltc_if" /\ close_ltcjack
    BY <1>4, CloseLtc
  <1>5. CASE op = "close_ltc_if" /\ ~ltcjack_connected /\ no_call
    BY <1>5, NoCall
  <1>6. CASE op \in {"close_midi", "close_midi_if", "close_midi_unless"} /\ midi_close
    BY <1>6, CloseMidi
  <1>7. CASE op = "close_midi_if" /\ ~midi_connected /\ no_call
    BY <1>7, NoCall
  <1>8. CASE op \in {"close_midi_unless", "open_ltc_unless"} /\ no_call
    BY <1>8, NoCall
  <1>9. CASE op = "open_jack" /\ open_jack
    BY <1>9, OpenJack
  <1>10. CASE op \in {"open_ltc", "open_ltc_unless"} /\ open_ltcjack
    BY <1>10, OpenLtc
  <1>11. CASE op = "open_midi" /\ midi_open
    BY <1>11, OpenMidi
  <1>12. CASE op = "choose" /\ midi_choose_driver(arg)
    BY <1>12, ChooseDriver
  <1>13. CASE op = "note_port" /\ note_port(arg)
    BY <1>1, <1>13, NotePort
  <1> QED
    BY <1>2, <1>3, <1>4, <1>5, <1>6, <1>7, <1>8, <1>9, <1>10, <1>11, <1>12, <1>13
    DEF Step

-----------------------------------------------------------------------------
(* The inductive invariant.                                                *)

\* No call opens another source than the one that was chosen, and there is
\* one to come that closes each other source that is connected.
Exclusive ==
  chosen # "mixed" =>
    \A s \in Sources \ {chosen} :
      /\ OpsOf(todo) \cap Openers(s) = {}
      /\ Connected(s) => OpsOf(todo) \cap Closers(s) # {}

Rests ==
  /\ ~running => todo = <<>>
  /\ ~running /\ chosen # "mixed" => \A s \in Sources : ~Connected(s)

OtherTypes ==
  /\ syncnidx \in 0 .. 3
  /\ running \in BOOLEAN /\ orderly \in BOOLEAN
  /\ saved \in [ss : 0 .. 4, midiid : Ports]
  /\ saved.ss = 4 => saved = NoFile
  /\ chosen \in Sources \cup {"none", "mixed"}

IInv == SourceInv /\ CallInv /\ OtherTypes /\ Exclusive /\ Rests

\* Calls that keep Exclusive in a handler for source s.
Fits(ops, s) ==
  s # "mixed" =>
    \A x \in Sources \ {s} :
      /\ ops \cap Openers(x) = {}
      /\ s = chosen \/ ops \cap Closers(x) # {}

\* A step that leaves the sources alone.
LEMMA SourcesUnchanged ==
  ASSUME SourceInv, UNCHANGED <<jackVars, midiVars, midiid>>
  PROVE  SourceInv' /\ \A s \in Sources : Connected(s)' <=> Connected(s)
  <1>1. SourceInv'
    BY NoCall DEF no_call
  <1>2. \A s \in Sources : Connected(s)' <=> Connected(s)
    BY DEF jackVars, midiVars, Connected, jack_connected, ltcjack_connected,
           midi_connected
  <1> QED BY <1>1, <1>2

LEMMA HandlerKeeps ==
  ASSUME IInv, NEW c, NEW s \in Sources \cup {"none", "mixed"},
         NEW o \in BOOLEAN, Handler(c, s, o), IsHandler(c),
         Fits(OpsOf(c), s)
  PROVE  IInv'
  <1>1. SourceInv' /\ \A x \in Sources : Connected(x)' <=> Connected(x)
    BY SourcesUnchanged DEF IInv, Handler
  <1>2. CallInv'
    BY DEF Handler, CallInv
  <1>3. OtherTypes'
    BY DEF IInv, OtherTypes, Handler
  <1>4. Rests'
    BY DEF Rests, Handler
  <1>5. Exclusive'
    <2> SUFFICES ASSUME s # "mixed", NEW x \in Sources \ {s}
                 PROVE  /\ OpsOf(c) \cap Openers(x) = {}
                        /\ Connected(x) => OpsOf(c) \cap Closers(x) # {}
      BY <1>1 DEF Handler, Exclusive
    <2>1. OpsOf(c) \cap Openers(x) = {}
      BY DEF Fits
    <2>2. CASE s = chosen
      <3>1. OpsOf(todo) = {}
        BY EmptySeq DEF Handler, OpsOf
      <3>2. ~Connected(x)
        BY <2>2, <3>1 DEF IInv, Exclusive
      <3> QED BY <2>1, <3>2
    <2>3. CASE s # chosen
      BY <2>1, <2>3 DEF Fits
    <2> QED BY <2>2, <2>3
  <1> QED BY <1>1, <1>2, <1>3, <1>4, <1>5 DEF IInv

\* Each command's calls fit the source that it is for.
LEMMA SyncToJackKeeps ==
  ASSUME IInv, SyncToJack PROVE IInv'
  <1> DEFINE c == <<Do("close_midi_if"), Do("close_ltc_if"), Do("open_jack")>>
  <1>1. /\ Do("close_midi_if") \in Calls /\ Do("close_midi_if").op = "close_midi_if" /\ NotesPort(Do("close_midi_if"))
        /\ Do("close_ltc_if") \in Calls /\ Do("close_ltc_if").op = "close_ltc_if" /\ NotesPort(Do("close_ltc_if"))
        /\ Do("open_jack") \in Calls /\ Do("open_jack").op = "open_jack" /\ NotesPort(Do("open_jack"))
    BY CallFields DEF Ops, Args
  <1>2. IsHandler(c) /\ OpsOf(c) = {"close_midi_if", "close_ltc_if", "open_jack"}
    BY <1>1, ListOf3 DEF Listed
  <1> HIDE DEF c
  <1>3. Fits(OpsOf(c), "jack")
    BY <1>2 DEF Fits, Sources, Openers, Closers, IInv, OtherTypes
  <1>4. Handler(c, "jack", orderly)
    BY DEF c, SyncToJack
  <1>5. "jack" \in Sources \cup {"none", "mixed"}
    BY DEF Sources, IInv, OtherTypes
  <1>6. (orderly) \in BOOLEAN
    BY DEF IInv, OtherTypes
  <1> QED BY <1>2, <1>3, <1>4, <1>5, <1>6, HandlerKeeps

LEMMA SyncToLtcKeeps ==
  ASSUME IInv, SyncToLtc PROVE IInv'
  <1> DEFINE c == <<Do("close_jack"), Do("close_midi_if"), Do("open_ltc_unless")>>
  <1>1. /\ Do("close_jack") \in Calls /\ Do("close_jack").op = "close_jack" /\ NotesPort(Do("close_jack"))
        /\ Do("close_midi_if") \in Calls /\ Do("close_midi_if").op = "close_midi_if" /\ NotesPort(Do("close_midi_if"))
        /\ Do("open_ltc_unless") \in Calls /\ Do("open_ltc_unless").op = "open_ltc_unless" /\ NotesPort(Do("open_ltc_unless"))
    BY CallFields DEF Ops, Args
  <1>2. IsHandler(c) /\ OpsOf(c) = {"close_jack", "close_midi_if", "open_ltc_unless"}
    BY <1>1, ListOf3 DEF Listed
  <1> HIDE DEF c
  <1>3. Fits(OpsOf(c), "ltc")
    BY <1>2 DEF Fits, Sources, Openers, Closers, IInv, OtherTypes
  <1>4. Handler(c, "ltc", orderly)
    BY DEF c, SyncToLtc
  <1>5. "ltc" \in Sources \cup {"none", "mixed"}
    BY DEF Sources, IInv, OtherTypes
  <1>6. (orderly) \in BOOLEAN
    BY DEF IInv, OtherTypes
  <1> QED BY <1>2, <1>3, <1>4, <1>5, <1>6, HandlerKeeps

LEMMA SyncToNoneKeeps ==
  ASSUME IInv, SyncToNone PROVE IInv'
  <1> DEFINE c == <<Do("close_jack"), Do("close_midi_if"), Do("close_ltc_if")>>
  <1>1. /\ Do("close_jack") \in Calls /\ Do("close_jack").op = "close_jack" /\ NotesPort(Do("close_jack"))
        /\ Do("close_midi_if") \in Calls /\ Do("close_midi_if").op = "close_midi_if" /\ NotesPort(Do("close_midi_if"))
        /\ Do("close_ltc_if") \in Calls /\ Do("close_ltc_if").op = "close_ltc_if" /\ NotesPort(Do("close_ltc_if"))
    BY CallFields DEF Ops, Args
  <1>2. IsHandler(c) /\ OpsOf(c) = {"close_jack", "close_midi_if", "close_ltc_if"}
    BY <1>1, ListOf3 DEF Listed
  <1> HIDE DEF c
  <1>3. Fits(OpsOf(c), "none")
    BY <1>2 DEF Fits, Sources, Openers, Closers, IInv, OtherTypes
  <1>4. Handler(c, "none", orderly)
    BY DEF c, SyncToNone
  <1>5. "none" \in Sources \cup {"none", "mixed"}
    BY DEF Sources, IInv, OtherTypes
  <1>6. (orderly) \in BOOLEAN
    BY DEF IInv, OtherTypes
  <1> QED BY <1>2, <1>3, <1>4, <1>5, <1>6, HandlerKeeps

LEMMA SyncToMtcKeeps ==
  ASSUME IInv, NEW d \in Asked, SyncToMtc(d) PROVE IInv'
  <1> DEFINE c == <<Do("close_jack"), Do("close_ltc_if"),
                   Call("close_midi_unless", d), Call("choose",
                   d), Do("open_midi")>>
  <1>1. /\ Do("close_jack") \in Calls /\ Do("close_jack").op = "close_jack" /\ NotesPort(Do("close_jack"))
        /\ Do("close_ltc_if") \in Calls /\ Do("close_ltc_if").op = "close_ltc_if" /\ NotesPort(Do("close_ltc_if"))
        /\ Call("close_midi_unless", d) \in Calls /\ Call("close_midi_unless", d).op = "close_midi_unless" /\ NotesPort(Call("close_midi_unless", d))
        /\ Call("choose", d) \in Calls /\ Call("choose", d).op = "choose" /\ NotesPort(Call("choose", d))
        /\ Do("open_midi") \in Calls /\ Do("open_midi").op = "open_midi" /\ NotesPort(Do("open_midi"))
    BY CallFields, SyncSourceAssumption DEF Ops, Args
  <1>2. IsHandler(c) /\ OpsOf(c) = {"close_jack", "close_ltc_if", "close_midi_unless", "choose", "open_midi"}
    BY <1>1, ListOf5 DEF Listed
  <1> HIDE DEF c
  <1>3. Fits(OpsOf(c), "midi")
    BY <1>2 DEF Fits, Sources, Openers, Closers, IInv, OtherTypes
  <1>4. Handler(c, "midi", orderly)
    BY DEF c, SyncToMtc
  <1>5. "midi" \in Sources \cup {"none", "mixed"}
    BY DEF Sources, IInv, OtherTypes
  <1>6. (orderly) \in BOOLEAN
    BY DEF IInv, OtherTypes
  <1> QED BY <1>2, <1>3, <1>4, <1>5, <1>6, HandlerKeeps

LEMMA XapiOpenMidiKeeps ==
  ASSUME IInv, NEW p \in Ports, XapiOpenMidi(p) PROVE IInv'
  <1> DEFINE c == <<Do("close_jack"), Do("close_ltc_if"), Do("open_midi"),
                   Call("note_port", p)>>
  <1>1. /\ Do("close_jack") \in Calls /\ Do("close_jack").op = "close_jack" /\ NotesPort(Do("close_jack"))
        /\ Do("close_ltc_if") \in Calls /\ Do("close_ltc_if").op = "close_ltc_if" /\ NotesPort(Do("close_ltc_if"))
        /\ Do("open_midi") \in Calls /\ Do("open_midi").op = "open_midi" /\ NotesPort(Do("open_midi"))
        /\ Call("note_port", p) \in Calls /\ Call("note_port", p).op = "note_port" /\ NotesPort(Call("note_port", p))
    BY CallFields DEF Ops, Args
  <1>2. IsHandler(c) /\ OpsOf(c) = {"close_jack", "close_ltc_if", "open_midi", "note_port"}
    BY <1>1, ListOf4 DEF Listed
  <1> HIDE DEF c
  <1>3. Fits(OpsOf(c), "midi")
    BY <1>2 DEF Fits, Sources, Openers, Closers, IInv, OtherTypes
  <1>4. Handler(c, "midi", orderly)
    BY DEF c, XapiOpenMidi
  <1>5. "midi" \in Sources \cup {"none", "mixed"}
    BY DEF Sources, IInv, OtherTypes
  <1>6. (orderly) \in BOOLEAN
    BY DEF IInv, OtherTypes
  <1> QED BY <1>2, <1>3, <1>4, <1>5, <1>6, HandlerKeeps

LEMMA XapiReopenMidiKeeps ==
  ASSUME IInv, XapiReopenMidi PROVE IInv'
  <1> DEFINE c == <<Do("close_midi"), Do("close_jack"), Do("close_ltc_if"),
                   Do("open_midi"), Call("note_port", midiid)>>
  <1>1. /\ Do("close_midi") \in Calls /\ Do("close_midi").op = "close_midi" /\ NotesPort(Do("close_midi"))
        /\ Do("close_jack") \in Calls /\ Do("close_jack").op = "close_jack" /\ NotesPort(Do("close_jack"))
        /\ Do("close_ltc_if") \in Calls /\ Do("close_ltc_if").op = "close_ltc_if" /\ NotesPort(Do("close_ltc_if"))
        /\ Do("open_midi") \in Calls /\ Do("open_midi").op = "open_midi" /\ NotesPort(Do("open_midi"))
        /\ Call("note_port", midiid) \in Calls /\ Call("note_port", midiid).op = "note_port" /\ NotesPort(Call("note_port", midiid))
    BY CallFields DEF Ops, Args, IInv, SourceInv, DriverInv
  <1>2. IsHandler(c) /\ OpsOf(c) = {"close_midi", "close_jack", "close_ltc_if", "open_midi", "note_port"}
    BY <1>1, ListOf5 DEF Listed
  <1> HIDE DEF c
  <1>3. Fits(OpsOf(c), "midi")
    BY <1>2 DEF Fits, Sources, Openers, Closers, IInv, OtherTypes
  <1>4. Handler(c, "midi", orderly /\ midi_connected)
    BY DEF c, XapiReopenMidi
  <1>5. "midi" \in Sources \cup {"none", "mixed"}
    BY DEF Sources, IInv, OtherTypes
  <1>6. (orderly /\ midi_connected) \in BOOLEAN
    BY DEF IInv, OtherTypes
  <1> QED BY <1>2, <1>3, <1>4, <1>5, <1>6, HandlerKeeps

LEMMA XapiCloseJackKeeps ==
  ASSUME IInv, XapiCloseJack PROVE IInv'
  <1> DEFINE c == <<Do("close_jack")>>
  <1>1. /\ Do("close_jack") \in Calls /\ Do("close_jack").op = "close_jack" /\ NotesPort(Do("close_jack"))
    BY CallFields DEF Ops, Args
  <1>2. IsHandler(c) /\ OpsOf(c) = {"close_jack"}
    BY <1>1, ListOf1 DEF Listed
  <1> HIDE DEF c
  <1>3. Fits(OpsOf(c), chosen)
    BY <1>2 DEF Fits, Sources, Openers, Closers, IInv, OtherTypes
  <1>4. Handler(c, chosen, orderly)
    BY DEF c, XapiCloseJack
  <1>5. chosen \in Sources \cup {"none", "mixed"}
    BY DEF Sources, IInv, OtherTypes
  <1>6. (orderly) \in BOOLEAN
    BY DEF IInv, OtherTypes
  <1> QED BY <1>2, <1>3, <1>4, <1>5, <1>6, HandlerKeeps

LEMMA XapiCloseLtcKeeps ==
  ASSUME IInv, XapiCloseLtc PROVE IInv'
  <1> DEFINE c == <<Do("close_ltc")>>
  <1>1. /\ Do("close_ltc") \in Calls /\ Do("close_ltc").op = "close_ltc" /\ NotesPort(Do("close_ltc"))
    BY CallFields DEF Ops, Args
  <1>2. IsHandler(c) /\ OpsOf(c) = {"close_ltc"}
    BY <1>1, ListOf1 DEF Listed
  <1> HIDE DEF c
  <1>3. Fits(OpsOf(c), chosen)
    BY <1>2 DEF Fits, Sources, Openers, Closers, IInv, OtherTypes
  <1>4. Handler(c, chosen, orderly /\ ltcjack_connected)
    BY DEF c, XapiCloseLtc
  <1>5. chosen \in Sources \cup {"none", "mixed"}
    BY DEF Sources, IInv, OtherTypes
  <1>6. (orderly /\ ltcjack_connected) \in BOOLEAN
    BY DEF IInv, OtherTypes
  <1> QED BY <1>2, <1>3, <1>4, <1>5, <1>6, HandlerKeeps

LEMMA XapiCloseMidiKeeps ==
  ASSUME IInv, XapiCloseMidi PROVE IInv'
  <1> DEFINE c == <<Do("close_midi")>>
  <1>1. /\ Do("close_midi") \in Calls /\ Do("close_midi").op = "close_midi" /\ NotesPort(Do("close_midi"))
    BY CallFields DEF Ops, Args
  <1>2. IsHandler(c) /\ OpsOf(c) = {"close_midi"}
    BY <1>1, ListOf1 DEF Listed
  <1> HIDE DEF c
  <1>3. Fits(OpsOf(c), chosen)
    BY <1>2 DEF Fits, Sources, Openers, Closers, IInv, OtherTypes
  <1>4. Handler(c, chosen, orderly /\ midi_connected)
    BY DEF c, XapiCloseMidi
  <1>5. chosen \in Sources \cup {"none", "mixed"}
    BY DEF Sources, IInv, OtherTypes
  <1>6. (orderly /\ midi_connected) \in BOOLEAN
    BY DEF IInv, OtherTypes
  <1> QED BY <1>2, <1>3, <1>4, <1>5, <1>6, HandlerKeeps

LEMMA XapiMidiDriverKeeps ==
  ASSUME IInv, NEW d \in Asked \cup {"none", "other"}, XapiMidiDriver(d) PROVE IInv'
  <1> DEFINE c == <<Call("choose", d)>>
  <1>1. /\ Call("choose", d) \in Calls /\ Call("choose", d).op = "choose" /\ NotesPort(Call("choose", d))
    BY CallFields, SyncSourceAssumption DEF Ops, Args
  <1>2. IsHandler(c) /\ OpsOf(c) = {"choose"}
    BY <1>1, ListOf1 DEF Listed
  <1> HIDE DEF c
  <1>3. Fits(OpsOf(c), chosen)
    BY <1>2 DEF Fits, Sources, Openers, Closers, IInv, OtherTypes
  <1>4. Handler(c, chosen, orderly)
    BY DEF c, XapiMidiDriver
  <1>5. chosen \in Sources \cup {"none", "mixed"}
    BY DEF Sources, IInv, OtherTypes
  <1>6. (orderly) \in BOOLEAN
    BY DEF IInv, OtherTypes
  <1> QED BY <1>2, <1>3, <1>4, <1>5, <1>6, HandlerKeeps

LEMMA OscJackConnectKeeps ==
  ASSUME IInv, OscJackConnect PROVE IInv'
  <1> DEFINE c == <<Do("open_jack")>>
  <1>1. /\ Do("open_jack") \in Calls /\ Do("open_jack").op = "open_jack" /\ NotesPort(Do("open_jack"))
    BY CallFields DEF Ops, Args
  <1>2. IsHandler(c) /\ OpsOf(c) = {"open_jack"}
    BY <1>1, ListOf1 DEF Listed
  <1> HIDE DEF c
  <1>3. Fits(OpsOf(c), "mixed")
    BY <1>2 DEF Fits, Sources, Openers, Closers, IInv, OtherTypes
  <1>4. Handler(c, "mixed", FALSE)
    BY DEF c, OscJackConnect
  <1>5. "mixed" \in Sources \cup {"none", "mixed"}
    BY DEF Sources, IInv, OtherTypes
  <1>6. (FALSE) \in BOOLEAN
    BY DEF IInv, OtherTypes
  <1> QED BY <1>2, <1>3, <1>4, <1>5, <1>6, HandlerKeeps

LEMMA OscLtcConnectKeeps ==
  ASSUME IInv, OscLtcConnect PROVE IInv'
  <1> DEFINE c == <<Do("open_ltc")>>
  <1>1. /\ Do("open_ltc") \in Calls /\ Do("open_ltc").op = "open_ltc" /\ NotesPort(Do("open_ltc"))
    BY CallFields DEF Ops, Args
  <1>2. IsHandler(c) /\ OpsOf(c) = {"open_ltc"}
    BY <1>1, ListOf1 DEF Listed
  <1> HIDE DEF c
  <1>3. Fits(OpsOf(c), "mixed")
    BY <1>2 DEF Fits, Sources, Openers, Closers, IInv, OtherTypes
  <1>4. Handler(c, "mixed", FALSE)
    BY DEF c, OscLtcConnect
  <1>5. "mixed" \in Sources \cup {"none", "mixed"}
    BY DEF Sources, IInv, OtherTypes
  <1>6. (FALSE) \in BOOLEAN
    BY DEF IInv, OtherTypes
  <1> QED BY <1>2, <1>3, <1>4, <1>5, <1>6, HandlerKeeps

LEMMA OscMidiConnectKeeps ==
  ASSUME IInv, NEW p \in Ports, OscMidiConnect(p) PROVE IInv'
  <1> DEFINE c == <<Do("open_midi"), Call("note_port", p)>>
  <1>1. /\ Do("open_midi") \in Calls /\ Do("open_midi").op = "open_midi" /\ NotesPort(Do("open_midi"))
        /\ Call("note_port", p) \in Calls /\ Call("note_port", p).op = "note_port" /\ NotesPort(Call("note_port", p))
    BY CallFields DEF Ops, Args
  <1>2. IsHandler(c) /\ OpsOf(c) = {"open_midi", "note_port"}
    BY <1>1, ListOf2 DEF Listed
  <1> HIDE DEF c
  <1>3. Fits(OpsOf(c), "mixed")
    BY <1>2 DEF Fits, Sources, Openers, Closers, IInv, OtherTypes
  <1>4. Handler(c, "mixed", FALSE)
    BY DEF c, OscMidiConnect
  <1>5. "mixed" \in Sources \cup {"none", "mixed"}
    BY DEF Sources, IInv, OtherTypes
  <1>6. (FALSE) \in BOOLEAN
    BY DEF IInv, OtherTypes
  <1> QED BY <1>2, <1>3, <1>4, <1>5, <1>6, HandlerKeeps

LEMMA CommandKeeps == ASSUME IInv, Command PROVE IInv'
BY SyncToJackKeeps,
   SyncToLtcKeeps,
   SyncToNoneKeeps,
   SyncToMtcKeeps,
   XapiOpenMidiKeeps,
   XapiReopenMidiKeeps,
   XapiCloseJackKeeps,
   XapiCloseLtcKeeps,
   XapiCloseMidiKeeps,
   XapiMidiDriverKeeps,
   OscJackConnectKeeps,
   OscLtcConnectKeeps,
   OscMidiConnectKeeps
   DEF Command, Ports

-----------------------------------------------------------------------------
(* The other steps.                                                        *)

LEMMA StepKeeps == ASSUME IInv, Step PROVE IInv'
  <1>1. SourceInv' /\ \A s \in Sources : Does(Head(todo).op, s)
    BY StepDoes DEF IInv
  <1>2. todo # <<>> /\ todo' = Tail(todo)
    BY DEF Step
  <1>3. /\ CallInv'
        /\ \A o \in OpsOf(todo) : o = Head(todo).op \/ o \in OpsOf(todo')
        /\ OpsOf(todo') \subseteq OpsOf(todo)
    BY <1>2, Rest DEF IInv
  <1>4. OtherTypes' /\ chosen' = chosen /\ running' = running
    BY DEF IInv, OtherTypes, Step, histVars
  <1>5. Rests'
    BY <1>2, <1>4 DEF IInv, Rests
  <1>6. Exclusive'
    <2> SUFFICES ASSUME chosen # "mixed", NEW s \in Sources \ {chosen}
                 PROVE  /\ OpsOf(todo') \cap Openers(s) = {}
                        /\ Connected(s)' => OpsOf(todo') \cap Closers(s) # {}
      BY <1>4 DEF Exclusive
    <2>1. /\ OpsOf(todo) \cap Openers(s) = {}
          /\ Connected(s) => OpsOf(todo) \cap Closers(s) # {}
      BY DEF IInv, Exclusive
    <2>2. Head(todo).op \in OpsOf(todo)
      BY <1>2, FirstCall DEF IInv
    <2>3. /\ Connected(s)' => Connected(s)
          /\ Head(todo).op \in Closers(s) => ~Connected(s)'
      BY <1>1, <2>1, <2>2 DEF Does
    <2> QED BY <1>3, <2>1, <2>3
  <1> QED BY <1>1, <1>3, <1>4, <1>5, <1>6 DEF IInv

\* Between two handlers nothing but the chosen source is connected.
LEMMA AtRest ==
  ASSUME IInv, todo = <<>>, chosen # "mixed", NEW s \in Sources, Connected(s)
  PROVE  s = chosen
  <1>1. OpsOf(todo) = {}
    BY EmptySeq DEF OpsOf
  <1> QED BY <1>1 DEF IInv, Exclusive

\* Steps that change neither the sources nor the handler.
LEMMA QuietKeeps ==
  ASSUME IInv, UNCHANGED <<jackVars, midiVars, midiid, todo, running, histVars>>,
         OtherTypes'
  PROVE  IInv'
  <1>1. SourceInv' /\ \A s \in Sources : Connected(s)' <=> Connected(s)
    BY SourcesUnchanged DEF IInv
  <1>2. CallInv'
    BY DEF IInv, CallInv
  <1>3. Rests' /\ Exclusive'
    BY <1>1 DEF IInv, Rests, Exclusive, histVars
  <1> QED BY <1>1, <1>2, <1>3 DEF IInv

LEMMA PollKeeps == ASSUME IInv, Poll PROVE IInv'
  <1>1. OtherTypes'
    BY DEF IInv, OtherTypes, Poll, Polled, histVars
  <1> QED BY <1>1, QuietKeeps DEF Poll

LEMMA SessionKeeps ==
  ASSUME IInv, NEW c \in Clients, JackSession(c) PROVE IInv'
  <1>1. midiid \in Ports
    BY DEF IInv, SourceInv, DriverInv
  <1>2. OtherTypes'
    BY <1>1 DEF IInv, OtherTypes, JackSession, psync, histVars
  <1> QED BY <1>2, QuietKeeps DEF JackSession

LEMMA StutterKeeps == ASSUME IInv, UNCHANGED vars PROVE IInv'
  <1>1. OtherTypes'
    BY DEF IInv, OtherTypes, vars, histVars
  <1> QED BY <1>1, QuietKeeps DEF vars

\* Fewer connections and the same handler.
LEMMA FewerKeeps ==
  ASSUME IInv, SourceInv', UNCHANGED <<syncnidx, todo, running, saved, histVars>>,
         \A s \in Sources : Connected(s)' => Connected(s)
  PROVE  IInv'
  <1>1. CallInv' /\ OtherTypes'
    BY DEF IInv, CallInv, OtherTypes, histVars
  <1>2. Rests' /\ Exclusive'
    BY DEF IInv, Rests, Exclusive, histVars
  <1> QED BY <1>1, <1>2 DEF IInv

LEMMA ShutdownKeeps == ASSUME IInv, NEW c \in Clients, Shutdown(c) PROVE IInv'
  <1> USE SyncSourceAssumption
  <1>1. Handles'
    <2>1. CASE role[c] = "jack" /\ jack_client' = NULL
               /\ UNCHANGED <<j_client, jack_midi_client, ltc_decoder>>
      BY <2>1 DEF IInv, SourceInv, Handles, SharedClientIsOpen, Shutdown, Sources
    <2>2. CASE role[c] = "midi" /\ jack_midi_client' = NULL
               /\ UNCHANGED <<jack_client, j_client, ltc_decoder>>
      BY <2>2 DEF IInv, SourceInv, Handles, SharedClientIsOpen, Shutdown, Sources
    <2>3. CASE role[c] = "ltc" /\ j_client' = NULL /\ ltc_decoder' = FALSE
               /\ UNCHANGED <<jack_client, jack_midi_client>>
      BY <2>3 DEF IInv, SourceInv, Handles, SharedClientIsOpen, Shutdown, Sources
    <2> QED BY <2>1, <2>2, <2>3 DEF Shutdown
  <1>2. DriverInv'
    BY DEF IInv, SourceInv, DriverInv, Shutdown, midiVars
  <1>3. \A s \in Sources : Connected(s)' => Connected(s)
    BY DEF Shutdown, midiVars, Connected, jack_connected, ltcjack_connected,
           midi_connected
  <1> QED BY <1>1, <1>2, <1>3, FewerKeeps DEF SourceInv, Shutdown

\* The order in which clean_up looks at the sources does not matter: at most
\* one is connected.
LEMMA CleanUpKeeps == ASSUME IInv, CleanUp PROVE IInv'
  <1>1. SourceInv
    BY DEF IInv
  <1>2. /\ SourceInv'
        /\ \A s \in Sources : Connected(s)' => Connected(s)
        /\ chosen # "mixed" => \A s \in Sources : ~Connected(s)'
    <2> USE DEF Connected, OnlyMayOpen, Sources
    <2>1. CASE midi_connected /\ midi_close
      BY <1>1, <2>1, CloseMidi, AtRest DEF CleanUp
    <2>2. CASE ~midi_connected /\ ltcjack_connected /\ close_ltcjack
      BY <1>1, <2>2, CloseLtc, AtRest DEF CleanUp
    <2>3. CASE ~midi_connected /\ ~ltcjack_connected /\ close_jack
      BY <1>1, <2>3, CloseJack DEF CleanUp
    <2> QED BY <2>1, <2>2, <2>3 DEF CleanUp
  <1>3. CallInv' /\ OtherTypes'
    BY DEF IInv, CallInv, OtherTypes, CleanUp, histVars
  <1>4. Rests' /\ Exclusive'
    BY <1>2 DEF IInv, Rests, Exclusive, CleanUp, histVars
  <1> QED BY <1>2, <1>3, <1>4 DEF IInv

LEMMA MainKeeps ==
  ASSUME IInv, NEW port \in Ports, NEW driver \in Asked \cup {"none"},
         NEW sync \in Sources \cup {"none"},
         NEW s \in {sync, "mixed"}, Main(port, driver, sync, s)
  PROVE  IInv'
  <1> USE SyncSourceAssumption
  <1>1. SourceInv'
    BY DEF Main, SourceInv, Handles, DriverInv, SharedClientIsOpen, Drivers, Sources
  <1>2. \A x \in Sources : ~Connected(x)'
    BY DEF Main, Connected, jack_connected, ltcjack_connected, midi_connected
  <1>3. OtherTypes'
    BY DEF IInv, OtherTypes, Main
  <1>4. Rests'
    BY DEF Rests, Main
  <1> DEFINE choose == Call("choose", driver)
             open == Do(Opener(sync))
  <1>5. /\ choose \in Calls /\ choose.op = "choose" /\ NotesPort(choose)
        /\ open \in Calls /\ open.op = Opener(sync) /\ NotesPort(open)
    <2>1. "choose" \in Ops /\ driver \in Args
      BY DEF Ops, Args
    <2>2. Opener(sync) \in Ops \ {"note_port"}
      BY DEF Ops, Opener
    <2> QED BY <2>1, <2>2, CallFields
  <1>6. IsHandler(todo') /\ OpsOf(todo') \subseteq {"choose", Opener(sync)}
        /\ (sync = "none" => OpsOf(todo') = {"choose"})
    <2> HIDE DEF choose, open
    <2>1. CASE sync = "none"
      <3>1. todo' = <<choose>>
        BY <2>1 DEF Main, choose
      <3> QED BY <1>5, <2>1, <3>1, ListOf1 DEF Listed
    <2>2. CASE sync # "none"
      <3>1. todo' = <<choose, open>>
        BY <2>2 DEF Main, choose, open
      <3> QED BY <1>5, <2>2, <3>1, ListOf2 DEF Listed
    <2> QED BY <2>1, <2>2
  <1>7. Exclusive'
    <2>1. chosen' = s
      BY DEF Main
    <2>2. \A x \in Sources \ {s} : s # "mixed" => OpsOf(todo') \cap Openers(x) = {}
      BY <1>6 DEF Openers, Opener, Sources
    <2> QED BY <1>2, <2>1, <2>2 DEF Exclusive
  <1> QED BY <1>1, <1>3, <1>4, <1>6, <1>7 DEF IInv, CallInv

LEMMA StartKeeps == ASSUME IInv, Start PROVE IInv'
  <1>1. PICK port \in Ports, driver \in Asked \cup {"none"},
             use_ltc \in BOOLEAN, no_initial_sync \in BOOLEAN :
          LET s == IF no_initial_sync THEN "none" ELSE InitialSync(port, use_ltc, TRUE)
          IN  Main(port, driver, s, s)
    BY DEF Start
  <1> DEFINE s == IF no_initial_sync THEN "none" ELSE InitialSync(port, use_ltc, TRUE)
  <1>2. s \in Sources \cup {"none"}
    BY DEF InitialSync, Sources
  <1>3. Main(port, driver, s, s)
    BY <1>1
  <1> HIDE DEF s
  <1> QED BY <1>2, <1>3, MainKeeps

LEMMA StartSessionKeeps == ASSUME IInv, StartSession PROVE IInv'
  <1> DEFINE sync == InitialSync(LoadedPort, saved.ss = 3, saved.ss # 0)
             s == IF saved.ss = 2 /\ saved.midiid = "-2" THEN "mixed" ELSE SavedSource
  <1>1. PICK driver \in Asked \cup {"none"} : Main(LoadedPort, driver, sync, s)
    BY DEF StartSession
  <1>2. saved \in [ss : 0 .. 4, midiid : Ports] /\ saved.ss # 4
    BY DEF IInv, OtherTypes, StartSession
  <1>3. LoadedPort \in Ports
    BY <1>2 DEF LoadedPort, Ports
  <1>4. sync \in Sources \cup {"none"}
    BY DEF InitialSync, Sources
  <1>5. s \in {sync, "mixed"}
    BY <1>2 DEF InitialSync, LoadedPort, SavedSource
  <1> HIDE DEF sync, s
  <1> QED BY <1>1, <1>3, <1>4, <1>5, MainKeeps

LEMMA InitInv == ASSUME Init PROVE IInv
  <1>1. SourceInv
    BY SyncSourceAssumption DEF Init, SourceInv, Handles, DriverInv,
       SharedClientIsOpen, Drivers, Sources, Ports
  <1>2. CallInv /\ OpsOf(todo) = {}
    BY EmptySeq DEF Init, CallInv, IsHandler, OpsOf
  <1>3. OtherTypes
    <2>1. running \in BOOLEAN /\ orderly \in BOOLEAN
      BY DEF Init
    <2>2. syncnidx \in 0 .. 3 /\ chosen \in Sources \cup {"none", "mixed"}
      BY DEF Init
    <2>3. saved = NoFile /\ NoFile \in [ss : 0 .. 4, midiid : Ports]
      BY DEF Init, NoFile, Ports
    <2> QED BY <2>1, <2>2, <2>3 DEF OtherTypes
  <1>4. \A s \in Sources : ~Connected(s)
    BY DEF Init, Connected, jack_connected, ltcjack_connected, midi_connected
  <1>5. Rests /\ Exclusive
    BY <1>2, <1>4 DEF Init, Rests, Exclusive
  <1> QED BY <1>1, <1>2, <1>3, <1>5 DEF IInv

LEMMA NextKeeps == ASSUME IInv, [Next]_vars PROVE IInv'
BY StepKeeps, CommandKeeps, PollKeeps, CleanUpKeeps, StartKeeps,
   StartSessionKeeps, ShutdownKeeps, SessionKeeps, StutterKeeps
   DEF Next, Callback

THEOREM Invariance == Spec => []IInv
  <1>1. Init => IInv
    BY InitInv
  <1>2. IInv /\ [Next]_vars => IInv'
    BY NextKeeps
  <1> QED BY <1>1, <1>2, PTL DEF Spec

-----------------------------------------------------------------------------
(* The properties.                                                         *)

\* The variables keep their types, and no handle is that of another source.
THEOREM TypeCorrect == Spec => []TypeOK
  <1>1. IInv => TypeOK
    BY DEF IInv, SourceInv, Handles, DriverInv, CallInv, IsHandler, Calls,
           OtherTypes, TypeOK, Drivers
  <1> QED BY <1>1, Invariance, PTL

\* A driver is never chosen while another is connected.
THEOREM OneDriver == Spec => []OnlyChosenDriverOpen
  <1>1. IInv => OnlyChosenDriverOpen
    BY DEF IInv, SourceInv, DriverInv, OnlyChosenDriverOpen
  <1> QED BY <1>1, Invariance, PTL

\* Whatever opens and closes sources in any order, JACK's callbacks between,
\* the shared handle is that of an open client.
THEOREM SharedClient == Spec => []SharedClientIsOpen
  <1>1. IInv => SharedClientIsOpen
    BY DEF IInv, SourceInv, Handles
  <1> QED BY <1>1, Invariance, PTL

\* A switch, wherever it started from, leaves the chosen source alone.
THEOREM SwitchExclusive == Spec => []SwitchIsExclusive
  <1>1. IInv => SwitchIsExclusive
    BY AtRest DEF SwitchIsExclusive
  <1> QED BY <1>1, Invariance, PTL

\* Closing one source at the end is enough.
THEOREM CleanUpEnough == Spec => []CleanUpIsEnough
  <1>1. IInv => CleanUpIsEnough
    BY DEF IInv, Rests, CleanUpIsEnough
  <1> QED BY <1>1, Invariance, PTL
-----------------------------------------------------------------------------

-----------------------------------------------------------------------------
(* Orderly commands.  What opens a source has closed the others before it,  *)
(* so that there is one JACK client at most, and the shared handle is its.  *)

OpenOps == {"open_jack", "open_ltc", "open_ltc_unless", "open_midi"}

\* The handle that a client was opened for, and the shared one, are its own,
\* and an LTC client has a decoder.
Sole ==
  \A c \in Clients : role[c] # "free" =>
    /\ xj_jack_client = c
    /\ role[c] = "jack" => jack_client = c
    /\ role[c] = "ltc" => j_client = c /\ ltc_decoder
    /\ role[c] = "midi" => jack_midi_client = c

\* A handler opens one source and begins with what closes without a test.
Planned(c) ==
  \A i \in 1 .. Len(c) :
    /\ c[i].op \in OpenOps => \A j \in 1 .. Len(c) : c[j].op \in OpenOps => i = j
    /\ c[i].op \in {"close_ltc", "close_midi"} => i = 1

\* Before it opens a source it closes the others; what closes without a test
\* finds no client of another source.
Ready(c) ==
  \A i \in 1 .. Len(c) :
    /\ \A s \in Sources : c[i].op \in Openers(s) =>
         \A x \in Sources \ {s} :
           Connected(x) => \E j \in 1 .. Len(c) : j < i /\ c[j].op \in Closers(x)
    /\ c[i].op = "open_ltc" => ~ltcjack_connected
    /\ c[i].op = "close_ltc" => jack_client = NULL /\ jack_midi_client = NULL
    /\ c[i].op = "close_midi" =>
         \/ jack_client = NULL /\ j_client = NULL
         \/ current_midi_driver # "JACK-MIDI"

OrderInv == orderly => Sole /\ Planned(todo) /\ Ready(todo)

LEMMA AllFree ==
  ASSUME SourceInv, Sole, jack_client = NULL, j_client = NULL, jack_midi_client = NULL
  PROVE  \A c \in Clients : role[c] = "free"
BY SyncSourceAssumption DEF SourceInv, Handles, Sole, Sources

\* A client that a handle has is the only one.
LEMMA OnlyOne ==
  ASSUME SourceInv, Sole, NEW h \in {jack_client, j_client, jack_midi_client}, h # NULL
  PROVE  h \in Clients /\ \A c \in Clients \ {h} : role[c] = "free"
  <1>1. h \in Clients /\ role[h] # "free"
    BY DEF SourceInv, Handles
  <1> QED BY <1>1 DEF Sole

LEMMA NoneOpen ==
  ASSUME \A c \in Clients : role'[c] = "free"
  PROVE  Sole'
BY DEF Sole

LEMMA OneOpen ==
  ASSUME NEW d \in Clients, \A c \in Clients \ {d} : role'[c] = "free", xj_jack_client' = d,
         \/ role'[d] = "jack" /\ jack_client' = d
         \/ role'[d] = "ltc" /\ j_client' = d /\ ltc_decoder'
         \/ role'[d] = "midi" /\ jack_midi_client' = d
  PROVE  Sole'
BY DEF Sole

LEMMA SameClients ==
  ASSUME Sole, UNCHANGED jackVars
  PROVE  Sole'
BY DEF Sole, jackVars

LEMMA CloseJackSole ==
  ASSUME SourceInv, Sole, close_jack
  PROVE  Sole'
  <1>1. CASE jack_client = NULL
    BY <1>1 DEF close_jack, Released, jack_connected, Sole
  <1>2. CASE jack_client # NULL
    <2>1. jack_client \in Clients /\ \A c \in Clients \ {jack_client} : role[c] = "free"
      BY <1>2, OnlyOne
    <2>2. \A c \in Clients : role'[c] = "free"
      BY <1>2, <2>1 DEF close_jack, Released, SourceInv, Handles
    <2> QED BY <2>2, NoneOpen
  <1> QED BY <1>1, <1>2

LEMMA CloseLtcSole ==
  ASSUME SourceInv, Sole, close_ltcjack,
         ltcjack_connected \/ (jack_client = NULL /\ jack_midi_client = NULL)
  PROVE  Sole'
  <1>1. CASE j_client = NULL
    <2>1. \A c \in Clients : role[c] = "free"
      BY <1>1, AllFree DEF ltcjack_connected
    <2> QED BY <1>1, <2>1, NoneOpen DEF close_ltcjack, Released
  <1>2. CASE j_client # NULL
    <2>1. j_client \in Clients /\ \A c \in Clients \ {j_client} : role[c] = "free"
      BY <1>2, OnlyOne
    <2>2. \A c \in Clients : role'[c] = "free"
      BY <1>2, <2>1 DEF close_ltcjack, Released, SourceInv, Handles
    <2> QED BY <2>2, NoneOpen
  <1> QED BY <1>1, <1>2

LEMMA CloseMidiSole ==
  ASSUME SourceInv, Sole, midi_close,
         \/ midi_connected
         \/ jack_client = NULL /\ j_client = NULL
         \/ current_midi_driver # "JACK-MIDI"
  PROVE  Sole'
  <1>1. CASE UNCHANGED jackVars
    BY <1>1, SameClients
  <1>2. CASE current_midi_driver = "JACK-MIDI" /\ jm_midi_close
    <2>1. CASE jack_midi_client = NULL
      <3>1. \A c \in Clients : role[c] = "free"
        BY <1>2, <2>1, AllFree DEF midi_connected
      <3> QED BY <1>2, <2>1, <3>1, NoneOpen DEF jm_midi_close, Released
    <2>2. CASE jack_midi_client # NULL
      <3>1. jack_midi_client \in Clients /\ \A c \in Clients \ {jack_midi_client} : role[c] = "free"
        BY <2>2, OnlyOne
      <3>2. \A c \in Clients : role'[c] = "free"
        BY <1>2, <2>2, <3>1 DEF jm_midi_close, Released, SourceInv, Handles
      <3> QED BY <3>2, NoneOpen
    <2> QED BY <2>1, <2>2
  <1> QED BY <1>1, <1>2 DEF midi_close, no_call, dev_midi_close

\* A client for a source is opened where there is none.
LEMMA OpenSole ==
  ASSUME SourceInv, \A c \in Clients : role[c] = "free", NEW s \in {"jack", "ltc", "midi"},
         NEW c \in Clients \cup {NULL}, xj_init_jack(c, s),
         s = "jack" => jack_client' = c,
         s = "ltc" => j_client' = c /\ (c # NULL => ltc_decoder'),
         s = "midi" => jack_midi_client' = c
  PROVE  Sole'
  <1>1. CASE c = NULL
    BY <1>1, NoneOpen DEF xj_init_jack
  <1>2. CASE c # NULL
    <2>1. c \in Clients /\ role'[c] = s /\ \A d \in Clients \ {c} : role'[d] = "free"
      BY <1>2 DEF xj_init_jack, SourceInv, Handles
    <2> QED BY <1>2, <2>1, OneOpen DEF xj_init_jack
  <1> QED BY <1>1, <1>2

LEMMA HandlesClosed ==
  ASSUME SourceInv
  PROVE  /\ ~Connected("jack") => jack_client = NULL
         /\ ~Connected("ltc") => j_client = NULL
         /\ ~Connected("midi") => jack_midi_client = NULL
BY DEF SourceInv, DriverInv, Connected, jack_connected, ltcjack_connected, midi_connected

LEMMA OpenJackSole ==
  ASSUME SourceInv, Sole, open_jack, ~Connected("ltc"), ~Connected("midi")
  PROVE  Sole'
  <1>1. CASE jack_connected
    BY <1>1, SameClients DEF open_jack, no_call
  <1>2. CASE ~jack_connected
    <2>1. \A c \in Clients : role[c] = "free"
      BY <1>2, AllFree, HandlesClosed DEF jack_connected
    <2>2. PICK c \in Clients \cup {NULL} : xj_init_jack(c, "jack") /\ jack_client' = c
      BY <1>2 DEF open_jack
    <2> QED BY <2>1, <2>2, OpenSole
  <1> QED BY <1>1, <1>2

LEMMA OpenLtcSole ==
  ASSUME SourceInv, Sole, open_ltcjack, \A s \in Sources : ~Connected(s)
  PROVE  Sole'
  <1>1. \A c \in Clients : role[c] = "free"
    BY AllFree, HandlesClosed DEF Sources
  <1>2. CASE UNCHANGED role
    BY <1>1, <1>2, NoneOpen
  <1>3. ASSUME NEW c \in Clients \cup {NULL}, xj_init_jack(c, "ltc"), j_client' = c,
               ltc_decoder' = (ltc_decoder \/ c # NULL)
        PROVE  Sole'
    BY <1>1, <1>3, OpenSole
  <1> QED BY <1>2, <1>3 DEF open_ltcjack

LEMMA OpenMidiSole ==
  ASSUME SourceInv, Sole, midi_open, ~Connected("jack"), ~Connected("ltc")
  PROVE  Sole'
  <1>1. CASE UNCHANGED jackVars
    BY <1>1, SameClients
  <1>2. CASE ~midi_connected /\ jm_midi_open
    <2>1. \A c \in Clients : role[c] = "free"
      BY <1>2, AllFree, HandlesClosed DEF Connected
    <2>2. PICK c \in Clients \cup {NULL} : xj_init_jack(c, "midi") /\ jack_midi_client' = c
      BY <1>2 DEF jm_midi_open
    <2> QED BY <2>1, <2>2, OpenSole
  <1> QED BY <1>1, <1>2 DEF midi_open, no_call, dev_midi_open

\* The handler goes on.
LEMMA StepOrder ==
  ASSUME IInv, OrderInv, Step
  PROVE  OrderInv'
  <1> SUFFICES ASSUME orderly
               PROVE  Sole' /\ Planned(todo)' /\ Ready(todo)'
    BY DEF OrderInv, Step, histVars
  <1> DEFINE op == Head(todo).op
             n == Len(todo)
  <1>0. PICK rest : rest = Tail(todo)
    OBVIOUS
  <1>1. /\ SourceInv /\ SourceInv' /\ Sole /\ Planned(todo) /\ Ready(todo)
        /\ \A s \in Sources : Does(op, s)
    BY StepDoes DEF IInv, OrderInv
  <1>2. /\ todo' = rest /\ n \in Nat \ {0} /\ op = todo[1].op
        /\ Len(rest) = n - 1 /\ \A i \in 1 .. Len(rest) : rest[i] = todo[i + 1]
    BY <1>0, EmptySeq, HeadTailProperties DEF Step, IInv, CallInv, IsHandler
  <1>3. /\ \A s \in Sources : op \in Openers(s) => \A x \in Sources \ {s} : ~Connected(x)
        /\ op = "open_ltc" => ~ltcjack_connected
        /\ op = "close_ltc" => jack_client = NULL /\ jack_midi_client = NULL
        /\ op = "close_midi" => \/ jack_client = NULL /\ j_client = NULL
                                \/ current_midi_driver # "JACK-MIDI"
    <2> HIDE DEF op, n
    <2>1. 1 \in 1 .. n /\ \A j \in 1 .. n : ~(j < 1)
      BY <1>2
    <2> QED BY <1>1, <1>2, <2>1 DEF Ready, n
  <1>4. Sole'
    <2> DEFINE arg == Head(todo).arg
    <2>1. CASE op = "close_jack" /\ close_jack
      BY <1>1, <2>1, CloseJackSole
    <2>2. CASE op = "close_ltc" /\ close_ltcjack
      BY <1>1, <1>3, <2>2, CloseLtcSole
    <2>3. CASE op = "close_ltc_if" /\ ltcjack_connected /\ close_ltcjack
      BY <1>1, <2>3, CloseLtcSole
    <2>4. CASE op = "close_midi" /\ midi_close
      BY <1>1, <1>3, <2>4, CloseMidiSole
    <2>5. CASE op \in {"close_midi_if", "close_midi_unless"} /\ midi_connected /\ midi_close
      BY <1>1, <2>5, CloseMidiSole
    <2>6. CASE no_call \/ midi_choose_driver(arg) \/ note_port(arg)
      BY <1>1, <2>6, SameClients DEF no_call, midi_choose_driver, note_port
    <2>7. CASE op = "open_jack" /\ open_jack
      <3>1. ~Connected("ltc") /\ ~Connected("midi")
        BY <1>3, <2>7 DEF Sources, Openers
      <3> QED BY <1>1, <2>7, <3>1, OpenJackSole
    <2>8. CASE op \in {"open_ltc", "open_ltc_unless"} /\ ~ltcjack_connected /\ open_ltcjack
      <3>1. \A s \in Sources : ~Connected(s)
        BY <1>3, <2>8 DEF Sources, Openers, Connected
      <3> QED BY <1>1, <2>8, <3>1, OpenLtcSole
    <2>9. CASE op = "open_midi" /\ midi_open
      <3>1. ~Connected("jack") /\ ~Connected("ltc")
        BY <1>3, <2>9 DEF Sources, Openers
      <3> QED BY <1>1, <2>9, <3>1, OpenMidiSole
    <2> HIDE DEF op, arg
    <2> QED
      BY <1>3, <2>1, <2>2, <2>3, <2>4, <2>5, <2>6, <2>7, <2>8, <2>9 DEF Step, op, arg
  <1> HIDE DEF op, n
  <1>5. Planned(rest)
    <2>1. \A i \in 1 .. Len(rest) : i + 1 \in 1 .. n /\ i + 1 # 1
      BY <1>2
    <2>2. \A i \in 1 .. Len(rest) : rest[i].op \notin {"close_ltc", "close_midi"}
      BY <1>1, <1>2, <2>1 DEF Planned, n
    <2>3. ASSUME NEW i \in 1 .. Len(rest), NEW j \in 1 .. Len(rest),
                 rest[i].op \in OpenOps, rest[j].op \in OpenOps
          PROVE  i = j
      <3>1. i + 1 = j + 1
        BY <1>1, <1>2, <2>1, <2>3 DEF Planned, n
      <3> QED BY <3>1
    <2> QED BY <2>2, <2>3 DEF Planned
  <1>6. Ready(rest)'
    <2> SUFFICES ASSUME NEW i \in 1 .. Len(rest)
                 PROVE  /\ \A s \in Sources : rest[i].op \in Openers(s) =>
                             \A x \in Sources \ {s} : Connected(x)' =>
                               \E j \in 1 .. Len(rest) : j < i /\ rest[j].op \in Closers(x)
                        /\ rest[i].op = "open_ltc" => ~ltcjack_connected'
                        /\ rest[i].op \notin {"close_ltc", "close_midi"}
      BY <1>2 DEF Ready
    <2>2. i + 1 \in 1 .. n /\ i + 1 # 1 /\ rest[i] = todo[i + 1] /\ 1 \in 1 .. n
      BY <1>2
    <2>3. rest[i].op \notin {"close_ltc", "close_midi"}
      BY <1>1, <2>2 DEF Planned, n
    <2>4. rest[i].op \in OpenOps => op \notin OpenOps
      BY <1>1, <1>2, <2>2 DEF Planned, n
    <2>5. \A s \in Sources : Openers(s) \subseteq OpenOps
      BY DEF Openers, OpenOps, Sources
    <2>6. ASSUME NEW s \in Sources, rest[i].op \in Openers(s), NEW x \in Sources \ {s}, Connected(x)'
          PROVE  \E j \in 1 .. Len(rest) : j < i /\ rest[j].op \in Closers(x)
      <3>1. Connected(x) /\ op \notin Closers(x)
        BY <1>1, <2>4, <2>5, <2>6 DEF Does
      <3>2. PICK j \in 1 .. n : j < i + 1 /\ todo[j].op \in Closers(x)
        BY <1>1, <2>2, <2>6, <3>1 DEF Ready, n
      <3>3. j # 1 /\ j - 1 \in 1 .. Len(rest) /\ j - 1 < i /\ rest[j - 1] = todo[j]
        BY <1>2, <3>1, <3>2
      <3> QED BY <3>2, <3>3
    <2>7. rest[i].op = "open_ltc" => ~ltcjack_connected'
      <3>1. rest[i].op = "open_ltc" => ~ltcjack_connected
        BY <1>1, <2>2 DEF Ready, n
      <3>2. "ltc" \in Sources /\ Does(op, "ltc")
        BY <1>1 DEF Sources
      <3> QED BY <2>4, <2>5, <3>1, <3>2 DEF Does, Connected, OpenOps
    <2> QED BY <2>3, <2>6, <2>7
  <1>7. Planned(todo)' /\ Ready(todo)'
    BY <1>2, <1>5, <1>6 DEF Planned, Ready
  <1> QED BY <1>4, <1>7

\* A handler starts.
LEMMA HandlerOrder ==
  ASSUME IInv, OrderInv, NEW c, NEW s, NEW o, Handler(c, s, o),
         o => orderly /\ Planned(c) /\ (Sole => Ready(c))
  PROVE  OrderInv'
  <1> SUFFICES ASSUME o
               PROVE  Sole' /\ Planned(c) /\ Ready(c)'
    BY DEF OrderInv, Handler, Planned, Ready
  <1>1. Sole /\ Planned(c) /\ Ready(c) /\ SourceInv
    BY DEF OrderInv, IInv
  <1>2. Sole'
    BY <1>1, SameClients DEF Handler
  <1>3. \A x \in Sources : Connected(x)' <=> Connected(x)
    BY <1>1, SourcesUnchanged DEF Handler
  <1>4. UNCHANGED <<jack_client, j_client, jack_midi_client, current_midi_driver, ltcjack_connected>>
    BY DEF Handler, jackVars, midiVars, ltcjack_connected
  <1>5. Ready(c)'
    BY <1>1, <1>3, <1>4 DEF Ready
  <1> QED BY <1>1, <1>2, <1>5

\* Handlers of the commands, by the operations that they are made of.
Ops1(c, x) == Len(c) = 1 /\ c[1].op = x
Ops3(c, x, y, z) == Len(c) = 3 /\ c[1].op = x /\ c[2].op = y /\ c[3].op = z
Ops4(c, x, y, z, u) ==
  Len(c) = 4 /\ c[1].op = x /\ c[2].op = y /\ c[3].op = z /\ c[4].op = u
Ops5(c, x, y, z, u, v) ==
  Len(c) = 5 /\ c[1].op = x /\ c[2].op = y /\ c[3].op = z /\ c[4].op = u /\ c[5].op = v

LEMMA SwitchPlans ==
  ASSUME NEW c,
         \/ Ops3(c, "close_midi_if", "close_ltc_if", "open_jack")
         \/ Ops3(c, "close_jack", "close_midi_if", "open_ltc_unless")
         \/ Ops3(c, "close_jack", "close_midi_if", "close_ltc_if")
         \/ Ops5(c, "close_jack", "close_ltc_if", "close_midi_unless", "choose", "open_midi")
         \/ Ops4(c, "close_jack", "close_ltc_if", "open_midi", "note_port")
         \/ Ops1(c, "close_jack") \/ Ops1(c, "choose")
  PROVE  Planned(c) /\ Ready(c)
  <1> USE DEF OpenOps, Planned, Ready, Sources, Openers, Closers, Ops1, Ops3, Ops4, Ops5
  <1>1. CASE Ops3(c, "close_midi_if", "close_ltc_if", "open_jack")
    BY <1>1
  <1>2. CASE Ops3(c, "close_jack", "close_midi_if", "open_ltc_unless")
    BY <1>2
  <1>3. CASE Ops3(c, "close_jack", "close_midi_if", "close_ltc_if")
    BY <1>3
  <1>4. CASE Ops5(c, "close_jack", "close_ltc_if", "close_midi_unless", "choose", "open_midi")
    BY <1>4
  <1>5. CASE Ops4(c, "close_jack", "close_ltc_if", "open_midi", "note_port")
    BY <1>5
  <1>6. CASE Ops1(c, "close_jack") \/ Ops1(c, "choose")
    BY <1>6
  <1> QED BY <1>1, <1>2, <1>3, <1>4, <1>5, <1>6

\* What closes without a test starts while its source is connected, and then
\* no other one has a client.
LEMMA ClosePlans ==
  ASSUME IInv, Sole, NEW c,
         \/ Ops1(c, "close_ltc") /\ ltcjack_connected
         \/ /\ \/ Ops1(c, "close_midi")
               \/ Ops5(c, "close_midi", "close_jack", "close_ltc_if", "open_midi", "note_port")
            /\ midi_connected
  PROVE  Planned(c) /\ Ready(c)
  <1>1. SourceInv
    BY DEF IInv
  <1>2. ltcjack_connected => jack_client = NULL /\ jack_midi_client = NULL
    BY <1>1, OnlyOne DEF ltcjack_connected, SourceInv, Handles, Sources
  <1>3. midi_connected => \/ jack_client = NULL /\ j_client = NULL
                          \/ current_midi_driver # "JACK-MIDI"
    BY <1>1, OnlyOne DEF midi_connected, SourceInv, Handles, Sources
  <1> USE DEF OpenOps, Planned, Ready, Sources, Openers, Closers, Ops1, Ops3, Ops4, Ops5
  <1>4. CASE Ops1(c, "close_ltc") /\ ltcjack_connected
    BY <1>2, <1>4
  <1>5. CASE Ops1(c, "close_midi") /\ midi_connected
    BY <1>3, <1>5
  <1>6. CASE /\ Ops5(c, "close_midi", "close_jack", "close_ltc_if", "open_midi", "note_port")
             /\ midi_connected
    BY <1>3, <1>6
  <1> QED BY <1>4, <1>5, <1>6

LEMMA CommandOrder ==
  ASSUME IInv, OrderInv, Command
  PROVE  OrderInv'
  <1>1. CASE SyncToJack
    <2> DEFINE c == <<Do("close_midi_if"), Do("close_ltc_if"), Do("open_jack")>>
    <2>1. Ops3(c, "close_midi_if", "close_ltc_if", "open_jack")
      BY DEF Ops1, Ops3, Ops4, Ops5, Do, Call
    <2>2. Handler(c, "jack", orderly)
      BY <1>1 DEF SyncToJack
    <2> HIDE DEF c
    <2> QED BY <2>1, <2>2, SwitchPlans, HandlerOrder
  <1>2. CASE SyncToLtc
    <2> DEFINE c == <<Do("close_jack"), Do("close_midi_if"), Do("open_ltc_unless")>>
    <2>1. Ops3(c, "close_jack", "close_midi_if", "open_ltc_unless")
      BY DEF Ops1, Ops3, Ops4, Ops5, Do, Call
    <2>2. Handler(c, "ltc", orderly)
      BY <1>2 DEF SyncToLtc
    <2> HIDE DEF c
    <2> QED BY <2>1, <2>2, SwitchPlans, HandlerOrder
  <1>3. CASE SyncToNone
    <2> DEFINE c == <<Do("close_jack"), Do("close_midi_if"), Do("close_ltc_if")>>
    <2>1. Ops3(c, "close_jack", "close_midi_if", "close_ltc_if")
      BY DEF Ops1, Ops3, Ops4, Ops5, Do, Call
    <2>2. Handler(c, "none", orderly)
      BY <1>3 DEF SyncToNone
    <2> HIDE DEF c
    <2> QED BY <2>1, <2>2, SwitchPlans, HandlerOrder
  <1>4. ASSUME NEW d \in Asked, SyncToMtc(d)
        PROVE  OrderInv'
    <2> DEFINE c == <<Do("close_jack"), Do("close_ltc_if"), Call("close_midi_unless", d),
                      Call("choose", d), Do("open_midi")>>
    <2>1. Ops5(c, "close_jack", "close_ltc_if", "close_midi_unless", "choose", "open_midi")
      BY DEF Ops1, Ops3, Ops4, Ops5, Do, Call
    <2>2. Handler(c, "midi", orderly)
      BY <1>4 DEF SyncToMtc
    <2> HIDE DEF c
    <2> QED BY <2>1, <2>2, SwitchPlans, HandlerOrder
  <1>5. CASE XapiOpenMidi("port")
    <2> DEFINE c == <<Do("close_jack"), Do("close_ltc_if"), Do("open_midi"), Call("note_port", "port")>>
    <2>1. Ops4(c, "close_jack", "close_ltc_if", "open_midi", "note_port")
      BY DEF Ops1, Ops3, Ops4, Ops5, Do, Call
    <2>2. Handler(c, "midi", orderly)
      BY <1>5 DEF XapiOpenMidi
    <2> HIDE DEF c
    <2> QED BY <2>1, <2>2, SwitchPlans, HandlerOrder
  <1>6. CASE XapiReopenMidi
    <2> DEFINE c == <<Do("close_midi"), Do("close_jack"), Do("close_ltc_if"),
                      Do("open_midi"), Call("note_port", midiid)>>
    <2>1. Ops5(c, "close_midi", "close_jack", "close_ltc_if", "open_midi", "note_port")
      BY DEF Ops1, Ops3, Ops4, Ops5, Do, Call
    <2>2. Handler(c, "midi", orderly /\ midi_connected)
      BY <1>6 DEF XapiReopenMidi
    <2>3. PICK d : d = c
      OBVIOUS
    <2> HIDE DEF c
    <2> QED BY <2>1, <2>2, <2>3, ClosePlans, HandlerOrder DEF OrderInv
  <1>7. CASE XapiCloseJack
    <2> DEFINE c == <<Do("close_jack")>>
    <2>1. Ops1(c, "close_jack")
      BY DEF Ops1, Ops3, Ops4, Ops5, Do, Call
    <2>2. Handler(c, chosen, orderly)
      BY <1>7 DEF XapiCloseJack
    <2> HIDE DEF c
    <2> QED BY <2>1, <2>2, SwitchPlans, HandlerOrder
  <1>8. CASE XapiCloseLtc
    <2> DEFINE c == <<Do("close_ltc")>>
    <2>1. Ops1(c, "close_ltc")
      BY DEF Ops1, Ops3, Ops4, Ops5, Do, Call
    <2>2. Handler(c, chosen, orderly /\ ltcjack_connected)
      BY <1>8 DEF XapiCloseLtc
    <2> HIDE DEF c
    <2> QED BY <2>1, <2>2, ClosePlans, HandlerOrder DEF OrderInv
  <1>9. CASE XapiCloseMidi
    <2> DEFINE c == <<Do("close_midi")>>
    <2>1. Ops1(c, "close_midi")
      BY DEF Ops1, Ops3, Ops4, Ops5, Do, Call
    <2>2. Handler(c, chosen, orderly /\ midi_connected)
      BY <1>9 DEF XapiCloseMidi
    <2> HIDE DEF c
    <2> QED BY <2>1, <2>2, ClosePlans, HandlerOrder DEF OrderInv
  <1>10. ASSUME NEW d \in Asked \cup {"none", "other"}, XapiMidiDriver(d)
         PROVE  OrderInv'
    <2> DEFINE c == <<Call("choose", d)>>
    <2>1. Ops1(c, "choose")
      BY DEF Ops1, Ops3, Ops4, Ops5, Do, Call
    <2>2. Handler(c, chosen, orderly)
      BY <1>10 DEF XapiMidiDriver
    <2> HIDE DEF c
    <2> QED BY <2>1, <2>2, SwitchPlans, HandlerOrder
  <1>11. CASE OscJackConnect \/ OscLtcConnect \/ OscMidiConnect("port")
    BY <1>11 DEF OscJackConnect, OscLtcConnect, OscMidiConnect, Handler, OrderInv
  <1> QED BY <1>1, <1>2, <1>3, <1>4, <1>5, <1>6, <1>7, <1>8, <1>9, <1>10, <1>11 DEF Command

\* A step that runs no handler and opens nothing.
LEMMA ClosingOrder ==
  ASSUME OrderInv, Sole => Sole', UNCHANGED <<todo, orderly, current_midi_driver>>,
         \A s \in Sources : Connected(s)' => Connected(s),
         \/ UNCHANGED <<jack_client, j_client, jack_midi_client>>
         \/ todo = << >>
         \/ /\ jack_client' \in {jack_client, NULL} /\ j_client' \in {j_client, NULL}
            /\ jack_midi_client' \in {jack_midi_client, NULL}
  PROVE  OrderInv'
  <1> SUFFICES ASSUME orderly
               PROVE  Planned(todo)' /\ Ready(todo)'
    BY DEF OrderInv
  <1>1. Planned(todo) /\ Ready(todo)
    BY DEF OrderInv
  <1>2. Planned(todo)'
    BY <1>1 DEF Planned
  <1>3. CASE todo = << >>
    BY <1>3 DEF Planned, Ready
  <1>4. CASE /\ jack_client' \in {jack_client, NULL} /\ j_client' \in {j_client, NULL}
             /\ jack_midi_client' \in {jack_midi_client, NULL}
    <2>1. /\ ~ltcjack_connected => ~ltcjack_connected'
          /\ jack_client = NULL => jack_client' = NULL
          /\ j_client = NULL => j_client' = NULL
          /\ jack_midi_client = NULL => jack_midi_client' = NULL
      BY <1>4 DEF ltcjack_connected
    <2> SUFFICES ASSUME NEW i \in 1 .. Len(todo)
                 PROVE  /\ \A s \in Sources : todo[i].op \in Openers(s) =>
                             \A x \in Sources \ {s} : Connected(x)' =>
                               \E j \in 1 .. Len(todo) : j < i /\ todo[j].op \in Closers(x)
                        /\ todo[i].op = "open_ltc" => ~ltcjack_connected'
                        /\ todo[i].op = "close_ltc" => jack_client' = NULL /\ jack_midi_client' = NULL
                        /\ todo[i].op = "close_midi" =>
                             \/ jack_client' = NULL /\ j_client' = NULL
                             \/ current_midi_driver # "JACK-MIDI"
      BY <1>2 DEF Ready
    <2>2. \A s \in Sources : todo[i].op \in Openers(s) =>
            \A x \in Sources \ {s} : Connected(x)' =>
              \E j \in 1 .. Len(todo) : j < i /\ todo[j].op \in Closers(x)
      BY <1>1 DEF Ready
    <2>3. /\ todo[i].op = "open_ltc" => ~ltcjack_connected
          /\ todo[i].op = "close_ltc" => jack_client = NULL /\ jack_midi_client = NULL
          /\ todo[i].op = "close_midi" =>
               \/ jack_client = NULL /\ j_client = NULL
               \/ current_midi_driver # "JACK-MIDI"
      BY <1>1 DEF Ready
    <2> QED BY <2>1, <2>2, <2>3
  <1> QED BY <1>2, <1>3, <1>4

LEMMA ShutdownOrder ==
  ASSUME IInv, OrderInv, NEW c \in Clients, Shutdown(c)
  PROVE  OrderInv'
  <1>1. Sole => Sole'
    <2>1. Sole => \A d \in Clients : role'[d] = "free"
      BY DEF Sole, Shutdown, IInv, SourceInv, Handles
    <2> QED BY <2>1, NoneOpen
  <1>2. \A s \in Sources : Connected(s)' => Connected(s)
    BY DEF Shutdown, midiVars, Connected, jack_connected, ltcjack_connected,
           midi_connected
  <1>3. /\ jack_client' \in {jack_client, NULL} /\ j_client' \in {j_client, NULL}
        /\ jack_midi_client' \in {jack_midi_client, NULL}
        /\ UNCHANGED <<todo, orderly, current_midi_driver>>
    BY DEF Shutdown, midiVars, histVars
  <1> QED BY <1>1, <1>2, <1>3, ClosingOrder

LEMMA CleanUpOrder ==
  ASSUME IInv, OrderInv, CleanUp
  PROVE  OrderInv'
  <1>1. SourceInv
    BY DEF IInv
  <1>2. Sole => Sole'
    BY <1>1, CloseJackSole, CloseLtcSole, CloseMidiSole DEF CleanUp
  <1>3. \A s \in Sources : Connected(s)' => Connected(s)
    <2> USE DEF Connected, OnlyMayOpen, Sources
    <2> QED BY <1>1, CloseJack, CloseLtc, CloseMidi DEF CleanUp
  <1>4. UNCHANGED <<todo, orderly, current_midi_driver>> /\ todo = << >>
    BY DEF CleanUp, histVars, midi_close, no_call, dev_midi_close, jm_midi_close,
           close_ltcjack, close_jack, midiVars
  <1> QED BY <1>2, <1>3, <1>4, ClosingOrder

\* The program starts: nothing is open yet.
LEMMA MainOrder ==
  ASSUME IInv, NEW port, NEW driver, NEW sync \in Sources \cup {"none"}, NEW s,
         Main(port, driver, sync, s)
  PROVE  OrderInv'
  <1>1. Sole' /\ jack_client' = NULL /\ j_client' = NULL /\ jack_midi_client' = NULL
    BY NoneOpen DEF Main
  <1>2. ~ltcjack_connected' /\ \A x \in Sources : ~Connected(x)'
    BY DEF Main, Connected, jack_connected, ltcjack_connected, midi_connected
  <1>3. PICK c : c = todo'
    OBVIOUS
  <1>4. /\ Len(c) \in {1, 2} /\ c[1].op = "choose"
        /\ Len(c) = 2 => c[2].op = Opener(sync)
    <2>1. CASE sync = "none"
      <3>1. c = <<Call("choose", driver)>>
        BY <1>3, <2>1 DEF Main
      <3> QED BY <3>1 DEF Call
    <2>2. CASE sync # "none"
      <3>1. c = <<Call("choose", driver), Do(Opener(sync))>>
        BY <1>3, <2>2 DEF Main
      <3>2. Len(c) = 2 /\ c[1] = Call("choose", driver) /\ c[2] = Do(Opener(sync))
        BY <3>1
      <3>3. Call("choose", driver).op = "choose" /\ Do(Opener(sync)).op = Opener(sync)
        BY DEF Call, Do
      <3> QED BY <3>2, <3>3
    <2> QED BY <2>1, <2>2
  <1>5. Opener(sync) \notin {"close_ltc", "close_midi"}
    BY DEF Opener
  <1>6. Planned(c)
    BY <1>4, <1>5 DEF Planned, OpenOps
  <1>7. Ready(c)'
    BY <1>1, <1>2, <1>4, <1>5 DEF Ready
  <1>8. Planned(todo)' /\ Ready(todo)'
    BY <1>3, <1>6, <1>7 DEF Planned, Ready
  <1> QED BY <1>1, <1>8 DEF OrderInv

LEMMA OrderNext ==
  ASSUME IInv, OrderInv, [Next]_vars
  PROVE  OrderInv'
  <1>1. CASE Start
    <2>1. PICK port \in Ports, driver \in Asked \cup {"none"},
               use_ltc \in BOOLEAN, no_initial_sync \in BOOLEAN :
            LET s == IF no_initial_sync THEN "none" ELSE InitialSync(port, use_ltc, TRUE)
            IN  Main(port, driver, s, s)
      BY <1>1 DEF Start
    <2> DEFINE s == IF no_initial_sync THEN "none" ELSE InitialSync(port, use_ltc, TRUE)
    <2>2. s \in Sources \cup {"none"} /\ Main(port, driver, s, s)
      BY <2>1 DEF InitialSync, Sources
    <2> HIDE DEF s
    <2> QED BY <2>2, MainOrder
  <1>2. CASE StartSession
    <2> DEFINE sync == InitialSync(LoadedPort, saved.ss = 3, saved.ss # 0)
               s == IF saved.ss = 2 /\ saved.midiid = "-2" THEN "mixed" ELSE SavedSource
    <2>1. PICK driver \in Asked \cup {"none"} : Main(LoadedPort, driver, sync, s)
      BY <1>2 DEF StartSession
    <2>2. sync \in Sources \cup {"none"}
      BY DEF InitialSync, Sources
    <2>3. PICK x, y, p : x = sync /\ y = s /\ p = LoadedPort
      OBVIOUS
    <2> HIDE DEF sync, s
    <2> QED BY <2>1, <2>2, <2>3, MainOrder
  <1>3. CASE Poll \/ (\E c \in Clients : JackSession(c)) \/ UNCHANGED vars
    <2>1. UNCHANGED <<jackVars, midiVars, midiid, todo, histVars>>
      BY <1>3 DEF Poll, JackSession, vars
    <2>2. \A s \in Sources : Connected(s)' <=> Connected(s)
      BY <2>1, SourcesUnchanged DEF IInv
    <2>3. UNCHANGED <<todo, orderly, current_midi_driver, jack_client, j_client, jack_midi_client>>
          /\ UNCHANGED jackVars
      BY <2>1 DEF jackVars, midiVars, histVars
    <2> QED BY <2>2, <2>3, SameClients, ClosingOrder
  <1> QED
    BY <1>1, <1>2, <1>3, StepOrder, CommandOrder, CleanUpOrder, ShutdownOrder DEF Next, Callback

\* The second invariant: as long as commands are orderly, at most one JACK
\* client is open, its handle and the shared one are its own, and every handler
\* closes the other sources before it opens one.
THEOREM OrderInvariance == Spec => []OrderInv
  <1>1. Init => OrderInv
    BY DEF Init, OrderInv, Sole, Planned, Ready
  <1>2. IInv /\ OrderInv /\ [Next]_vars => OrderInv'
    BY OrderNext
  <1> QED BY <1>1, <1>2, Invariance, PTL DEF Spec

\* The session callback answers with the client that was asked
\* (jack_session_cb), and every open client has a handle.
THEOREM SessionReply == Spec => []SessionReplyReachesCaller
  <1>1. OrderInv => SessionReplyReachesCaller
    BY DEF OrderInv, Sole, SessionReplyReachesCaller
  <1> QED BY <1>1, OrderInvariance, PTL

\* The process callback of an LTC client finds its decoder (ltcjack's process).
THEOREM DecoderThere == Spec => []ProcessHasDecoder
  <1>1. OrderInv => ProcessHasDecoder
    BY DEF OrderInv, Sole, ProcessHasDecoder
  <1> QED BY <1>1, OrderInvariance, PTL
=============================================================================
