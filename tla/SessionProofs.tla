---------------------------- MODULE SessionProofs ----------------------------
(***************************************************************************)
(* Proofs about Session, for any files, switches, ports and displays, any  *)
(* number of starts and of changes between them.                           *)
(***************************************************************************)
EXTENDS Session, WellFoundedInduction, TLAPS

-----------------------------------------------------------------------------
(* Options and their types.                                                *)

LEMMA OptionNames ==
  Options =
    {"current_file", "want_letterbox", "videomode", "delay", "osc_port", "mq_en",
     "ipc_queue", "remote_en", "want_nosplash", "want_verbose", "want_quiet",
     "interaction_override", "keyframe_interval_limit", "midi_clkconvert",
     "midi_driver", "midiid", "midi_clkadj", "userFrame", "smpte_offset", "want_genpts",
     "want_ignstart", "want_dropframes", "want_autodrop", "OSD_mode", "OSD_sx", "OSD_sy",
     "OSD_fx", "OSD_fy", "OSD_tx", "OSD_ty", "OSD_text", "OSD_fontfile", "start_ontop",
     "start_fullscreen", "use_jack", "use_ltc", "load_movie", "load_rc", "jack_uuid",
     "no_initial_sync", "jack_session_restore", "js_winx", "js_winy", "js_winw", "js_winh"}
  BY DEF Options, Defaults

LEMMA Kinds ==
  Options = Flags \cup Switches \cup Given \cup Absent \cup Amounts \cup {"OSD_mode", "videomode"}
  BY OptionNames DEF Flags, Switches, Given, Absent, Amounts

LEMMA Types ==
  /\ \A x : HasType("OSD_mode", x) <=> x \subseteq Bits
  /\ \A x : HasType("videomode", x) <=> x \in 0 .. Modes + 1
  /\ \A x : \A v \in Flags \cup Switches : HasType(v, x) <=> x \in BOOLEAN
  /\ \A x : \A v \in Given : HasType(v, x) <=> x \in Seq(STRING)
  /\ \A x : \A v \in Absent : HasType(v, x) <=> x = NULL \/ x \in Seq(STRING)
  /\ \A x : \A v \in Amounts : HasType(v, x) <=> x \in Int
  BY DEF HasType, Flags, Switches, Given, Absent, Amounts

LEMMA TypedStep ==
  ASSUME NEW o, Typed(o), NEW p, DOMAIN p = Options,
         \A w \in Options : p[w] = o[w] \/ HasType(w, p[w])
  PROVE  Typed(p)
  BY DEF Typed

LEMMA WordText ==
  ASSUME NEW S, NEW w \in S
  PROVE  <<w>> \in Seq(S)
  OBVIOUS

LEMMA NoText == <<>> \in Seq(STRING)
  OBVIOUS

LEMMA FirstWord ==
  ASSUME NEW S, NEW s \in Seq(S), s # <<>>
  PROVE  Head(s) \in S /\ Len(s) # 0
  OBVIOUS

LEMMA DefaultsTyped == Typed(Defaults)
  <1>1. DOMAIN Defaults = Options
    BY DEF Options
  <1>2. /\ \A v \in Flags : Defaults[v] \in BOOLEAN
        /\ \A v \in Switches : Defaults[v] \in BOOLEAN
        /\ \A v \in Absent : Defaults[v] = NULL
        /\ \A v \in Amounts : Defaults[v] \in Int
        /\ Defaults["OSD_mode"] = {OSD_BOX} /\ Defaults["videomode"] = 0
    BY DEF Defaults, Flags, Switches, Absent, Amounts
  <1>3. \A v \in Given : HasType(v, Defaults[v])
    <2>1. /\ Defaults["midiid"] = <<"-2">>
          /\ Defaults["OSD_text"] = <<"xjadeo!">>
          /\ Defaults["OSD_fontfile"] = <<"FONT_FILE">>
      BY DEF Defaults
    <2>2. \A w \in OwnWords : <<w>> \in Seq(STRING)
      BY WordText, TextsAssumption
    <2> QED BY <2>1, <2>2, Types DEF Given, OwnWords
  <1>4. \A v \in Options \ Given : HasType(v, Defaults[v])
    BY <1>2, Kinds, Types DEF Bits, Modes
  <1> QED BY <1>1, <1>3, <1>4 DEF Typed

-----------------------------------------------------------------------------
(* The readers of parseoption.                                             *)

Readers ==
  {"value", "text", "nullable", "YES_OK", "YES_NO", "source", "both", "window", "ignored"}

\* What a reader stores in its option.
KeyRight(k) ==
  /\ k.reader \in Readers
  /\ k.reader = "value" => k.var \in Amounts \cup {"OSD_mode", "videomode"}
  /\ k.reader = "text" => k.var \in Given \cup {"load_movie", "smpte_offset"}
  /\ k.reader = "nullable" => k.var \in Nullable
  /\ k.reader \in {"YES_OK", "YES_NO"} => k.var \in Flags
  /\ k.reader = "window" => k.var \in {"js_winx", "js_winy", "js_winw", "js_winh"}

LEMMA KeysRight == DOMAIN Chain = 1 .. 44 /\ \A j \in 1 .. 44 : KeyRight(Chain[j])
  <1>1. /\ KeyRight(Chain[1]) /\ KeyRight(Chain[2])
        /\ KeyRight(Chain[3]) /\ KeyRight(Chain[4])
    BY SMTT(30) DEF Chain, Key, KeyRight, Readers, Flags, Amounts, Given, Nullable
  <1>2. /\ KeyRight(Chain[5]) /\ KeyRight(Chain[6])
        /\ KeyRight(Chain[7]) /\ KeyRight(Chain[8])
    BY DEF Chain, Key, KeyRight, Readers, Flags, Amounts, Given, Nullable
  <1>3. /\ KeyRight(Chain[9]) /\ KeyRight(Chain[10])
        /\ KeyRight(Chain[11]) /\ KeyRight(Chain[12])
    BY DEF Chain, Key, KeyRight, Readers, Flags, Amounts, Given, Nullable
  <1>4. /\ KeyRight(Chain[13]) /\ KeyRight(Chain[14])
        /\ KeyRight(Chain[15]) /\ KeyRight(Chain[16])
    BY DEF Chain, Key, KeyRight, Readers, Flags, Amounts, Given, Nullable
  <1>5. /\ KeyRight(Chain[17]) /\ KeyRight(Chain[18])
        /\ KeyRight(Chain[19]) /\ KeyRight(Chain[20])
    BY DEF Chain, Key, KeyRight, Readers, Flags, Amounts, Given, Nullable
  <1>6. /\ KeyRight(Chain[21]) /\ KeyRight(Chain[22])
        /\ KeyRight(Chain[23]) /\ KeyRight(Chain[24])
    BY DEF Chain, Key, KeyRight, Readers, Flags, Amounts, Given, Nullable
  <1>7. /\ KeyRight(Chain[25]) /\ KeyRight(Chain[26])
        /\ KeyRight(Chain[27]) /\ KeyRight(Chain[28])
    BY DEF Chain, Key, KeyRight, Readers, Flags, Amounts, Given, Nullable
  <1>8. /\ KeyRight(Chain[29]) /\ KeyRight(Chain[30])
        /\ KeyRight(Chain[31]) /\ KeyRight(Chain[32])
    BY DEF Chain, Key, KeyRight, Readers, Flags, Amounts, Given, Nullable
  <1>9. /\ KeyRight(Chain[33]) /\ KeyRight(Chain[34])
        /\ KeyRight(Chain[35]) /\ KeyRight(Chain[36])
    BY DEF Chain, Key, KeyRight, Readers, Flags, Amounts, Given, Nullable
  <1>10. /\ KeyRight(Chain[37]) /\ KeyRight(Chain[38])
        /\ KeyRight(Chain[39]) /\ KeyRight(Chain[40])
    BY DEF Chain, Key, KeyRight, Readers, Flags, Amounts, Given, Nullable
  <1>11. /\ KeyRight(Chain[41]) /\ KeyRight(Chain[42])
        /\ KeyRight(Chain[43]) /\ KeyRight(Chain[44])
    BY DEF Chain, Key, KeyRight, Readers, Flags, Amounts, Given, Nullable
  <1>12. DOMAIN Chain = 1 .. 44
    BY DEF Chain
  <1> QED BY <1>1, <1>2, <1>3, <1>4, <1>5, <1>6, <1>7, <1>8, <1>9, <1>10, <1>11, <1>12

\* The readers that change more than one option.
LEMMA SyncsourceFacts ==
  ASSUME NEW o, DOMAIN o = Options, NEW n
  PROVE  /\ DOMAIN syncsource(o, n) = Options
         /\ syncsource(o, n)["use_jack"] = (n # 0)
         /\ syncsource(o, n)["use_ltc"] = (n = 3)
         /\ syncsource(o, n)["midiid"] = IF n \in {0, 1, 3} THEN <<"-2">> ELSE o["midiid"]
         /\ \A w \in Options \ {"use_jack", "use_ltc", "midiid"} : syncsource(o, n)[w] = o[w]
  <1>1. {"use_jack", "use_ltc", "midiid"} \subseteq Options
    BY OptionNames
  <1>2. DOMAIN syncsource(o, n) = Options
    BY DEF syncsource
  <1>3. syncsource(o, n)["use_jack"] = (n # 0)
    BY <1>1 DEF syncsource
  <1>4. syncsource(o, n)["use_ltc"] = (n = 3)
    BY <1>1 DEF syncsource
  <1>5. syncsource(o, n)["midiid"] = IF n \in {0, 1, 3} THEN <<"-2">> ELSE o["midiid"]
    BY <1>1 DEF syncsource
  <1>6. ASSUME NEW w \in Options \ {"use_jack", "use_ltc", "midiid"}
        PROVE  syncsource(o, n)[w] = o[w]
    BY <1>1 DEF syncsource
  <1> QED BY <1>2, <1>3, <1>4, <1>5, <1>6, Zenon

WindowOptions == {"js_winx", "js_winy", "js_winw", "js_winh", "jack_session_restore"}

\* What is stored by a reader that changes one option.
Stored(reader, old, word) ==
  IF reader = "value" THEN word
  ELSE IF reader = "text" THEN <<word>>
  ELSE IF reader = "nullable" THEN IF word = "(null)" THEN NULL ELSE <<word>>
  ELSE IF reader = "YES_OK" THEN YES_OK(old, word) ELSE YES_NO(old, word)

Single == {"value", "text", "nullable", "YES_OK", "YES_NO"}

LEMMA ParseSingle ==
  ASSUME NEW o, NEW k, KeyRight(k), k.reader \in Single, NEW word
  PROVE  /\ k.var \in Options
         /\ parse(o, k, word) = [o EXCEPT ![k.var] = Stored(k.reader, o[k.var], word)]
  <1>1. k.var \in Options
    BY Kinds DEF Single, KeyRight, Nullable, Absent
  <1>2. CASE k.reader = "value"
    <2>1. parse(o, k, word) = [o EXCEPT ![k.var] = word]
      BY <1>2 DEF parse
    <2>2. Stored(k.reader, o[k.var], word) = word
      BY <1>2 DEF Stored
    <2> QED BY <1>1, <2>1, <2>2, Zenon
  <1>3. CASE k.reader = "text"
    <2>1. parse(o, k, word) = [o EXCEPT ![k.var] = <<word>>]
      BY <1>3 DEF parse
    <2>2. Stored(k.reader, o[k.var], word) = <<word>>
      BY <1>3 DEF Stored
    <2> QED BY <1>1, <2>1, <2>2, Zenon
  <1>4. CASE k.reader = "nullable"
    <2>1. parse(o, k, word) = [o EXCEPT ![k.var] = IF word = "(null)" THEN NULL ELSE <<word>>]
      BY <1>4 DEF parse
    <2>2. Stored(k.reader, o[k.var], word) = IF word = "(null)" THEN NULL ELSE <<word>>
      BY <1>4 DEF Stored
    <2> QED BY <1>1, <2>1, <2>2, Zenon
  <1>5. CASE k.reader = "YES_OK"
    <2>1. parse(o, k, word) = [o EXCEPT ![k.var] = YES_OK(o[k.var], word)]
      BY <1>5 DEF parse
    <2>2. Stored(k.reader, o[k.var], word) = YES_OK(o[k.var], word)
      BY <1>5 DEF Stored
    <2> QED BY <1>1, <2>1, <2>2, Zenon
  <1>6. CASE k.reader = "YES_NO"
    <2>1. parse(o, k, word) = [o EXCEPT ![k.var] = YES_NO(o[k.var], word)]
      BY <1>6 DEF parse
    <2>2. Stored(k.reader, o[k.var], word) = YES_NO(o[k.var], word)
      BY <1>6 DEF Stored
    <2> QED BY <1>1, <2>1, <2>2, Zenon
  <1> QED BY <1>1, <1>2, <1>3, <1>4, <1>5, <1>6 DEF Single

\* The keys of the place of the window change nothing else.
LEMMA ParseWindow ==
  ASSUME NEW o, DOMAIN o = Options, NEW k, KeyRight(k), k.reader \in {"both", "window"}, NEW word
  PROVE  /\ DOMAIN parse(o, k, word) = Options
         /\ parse(o, k, word)["jack_session_restore"] \in BOOLEAN
         /\ \A w \in Options \ WindowOptions : parse(o, k, word)[w] = o[w]
         /\ word \in Int =>
              \A w \in WindowOptions \ {"jack_session_restore"} :
                parse(o, k, word)[w] = o[w] \/ parse(o, k, word)[w] \in Int
  <1>1. WindowOptions \subseteq Options
    BY OptionNames DEF WindowOptions
  <1>2. CASE k.reader = "both"
    <2>1. parse(o, k, word) = windowBoth(o, k.var, word)
      BY <1>2 DEF parse
    <2>2. DOMAIN windowBoth(o, k.var, word) = Options
      BY <1>1 DEF windowBoth, WindowOptions
    <2>3. windowBoth(o, k.var, word)["jack_session_restore"] = TRUE
      BY <1>1 DEF windowBoth, WindowOptions
    <2>4. ASSUME NEW w \in Options \ WindowOptions
          PROVE  windowBoth(o, k.var, word)[w] = o[w]
      BY <1>1 DEF windowBoth, WindowOptions
    <2>5. ASSUME word \in Int, NEW w \in WindowOptions \ {"jack_session_restore"}
          PROVE  windowBoth(o, k.var, word)[w] = o[w] \/ windowBoth(o, k.var, word)[w] \in Int
      <3>1. High(word) \in Int /\ Low(word) \in Int
        BY <2>5 DEF High, Low
      <3> QED BY <1>1, <3>1 DEF windowBoth, WindowOptions
    <2> QED BY <2>1, <2>2, <2>3, <2>4, <2>5
  <1>3. CASE k.reader = "window"
    <2> DEFINE v == k.var
    <2>1. parse(o, k, word) = [o EXCEPT ![v] = word, !.jack_session_restore = TRUE]
      BY <1>3 DEF parse
    <2>2. /\ v \in Options /\ v \in WindowOptions /\ v # "jack_session_restore"
          /\ "jack_session_restore" \in Options /\ "jack_session_restore" \in WindowOptions
      BY <1>1, <1>3 DEF KeyRight, WindowOptions
    <2>3. parse(o, k, word) = [o EXCEPT ![v] = word, !["jack_session_restore"] = TRUE]
      BY <2>1, Zenon
    <2> HIDE DEF v
    <2>4. DOMAIN parse(o, k, word) = Options
      BY <2>2, <2>3
    <2>5. parse(o, k, word)["jack_session_restore"] = TRUE
      BY <2>2, <2>3
    <2>6. ASSUME NEW w \in Options \ WindowOptions
          PROVE  parse(o, k, word)[w] = o[w]
      BY <2>2, <2>3
    <2>7. ASSUME NEW w \in WindowOptions \ {"jack_session_restore"}
          PROVE  parse(o, k, word)[w] = o[w] \/ parse(o, k, word)[w] = word
      BY <1>1, <2>2, <2>3
    <2> QED BY <2>4, <2>5, <2>6, <2>7
  <1> QED BY <1>2, <1>3

\* What a word must be for its key.
WordTyped(k, word) ==
  /\ k.reader = "value" => HasType(k.var, word)
  /\ k.reader \in {"text", "nullable"} => word \in STRING
  /\ k.reader \in {"both", "window"} => word \in Int

LEMMA StoredTyped ==
  ASSUME NEW k, KeyRight(k), k.reader \in Single, NEW old, HasType(k.var, old),
         NEW word, WordTyped(k, word)
  PROVE  HasType(k.var, Stored(k.reader, old, word))
  <1>1. CASE k.reader = "value"
    BY <1>1 DEF Stored, WordTyped
  <1>2. CASE k.reader = "text"
    <2>1. Stored(k.reader, old, word) = <<word>> /\ word \in STRING
      BY <1>2 DEF Stored, WordTyped
    <2>2. <<word>> \in Seq(STRING)
      BY <2>1
    <2>3. k.var \in Given \cup Absent
      BY <1>2 DEF KeyRight, Absent
    <2> QED BY <2>1, <2>2, <2>3, Types
  <1>3. CASE k.reader = "nullable"
    <2>1. /\ Stored(k.reader, old, word) = IF word = "(null)" THEN NULL ELSE <<word>>
          /\ word \in STRING
      BY <1>3 DEF Stored, WordTyped
    <2>2. <<word>> \in Seq(STRING)
      BY <2>1
    <2>3. k.var \in Absent
      BY <1>3 DEF KeyRight, Absent, Nullable
    <2>4. Stored(k.reader, old, word) = NULL \/ Stored(k.reader, old, word) = <<word>>
      BY <2>1
    <2> QED BY <2>2, <2>3, <2>4, Types
  <1>4. CASE k.reader \in {"YES_OK", "YES_NO"}
    <2>1. k.var \in Flags
      BY <1>4 DEF KeyRight
    <2>2. old \in BOOLEAN
      BY <2>1, Types
    <2>3. Stored(k.reader, old, word) \in BOOLEAN
      BY <1>4, <2>2 DEF Stored, YES_OK, YES_NO
    <2> QED BY <2>1, <2>3, Types
  <1> QED BY <1>1, <1>2, <1>3, <1>4 DEF Single

LEMMA ParseTyped ==
  ASSUME NEW o, Typed(o), NEW k, KeyRight(k), NEW word, WordTyped(k, word)
  PROVE  Typed(parse(o, k, word))
  <1>1. DOMAIN o = Options /\ \A w \in Options : HasType(w, o[w])
    BY DEF Typed
  <1>2. CASE k.reader \in Single
    <2>1. /\ k.var \in Options
          /\ parse(o, k, word) = [o EXCEPT ![k.var] = Stored(k.reader, o[k.var], word)]
      BY <1>2, ParseSingle
    <2>2. HasType(k.var, Stored(k.reader, o[k.var], word))
      BY <1>1, <1>2, <2>1, StoredTyped
    <2> QED BY <1>1, <2>1, <2>2 DEF Typed
  <1>3. CASE k.reader = "source"
    <2>1. parse(o, k, word) = syncsource(o, word)
      BY <1>3 DEF parse
    <2>2. /\ DOMAIN syncsource(o, word) = Options
          /\ syncsource(o, word)["use_jack"] = (word # 0)
          /\ syncsource(o, word)["use_ltc"] = (word = 3)
          /\ syncsource(o, word)["midiid"] = IF word \in {0, 1, 3} THEN <<"-2">> ELSE o["midiid"]
          /\ \A w \in Options \ {"use_jack", "use_ltc", "midiid"} : syncsource(o, word)[w] = o[w]
      BY <1>1, SyncsourceFacts
    <2>3. "-2" \in STRING
      BY TextsAssumption DEF OwnWords
    <2>4. HasType("midiid", <<"-2">>)
      BY <2>3, WordText, Types DEF Given
    <2>5. HasType("use_jack", (word # 0)) /\ HasType("use_ltc", (word = 3))
      BY Types DEF Switches
    <2> QED BY <1>1, <2>1, <2>2, <2>4, <2>5 DEF Typed
  <1>4. CASE k.reader \in {"both", "window"}
    <2>1. /\ DOMAIN parse(o, k, word) = Options
          /\ parse(o, k, word)["jack_session_restore"] \in BOOLEAN
          /\ \A w \in Options \ WindowOptions : parse(o, k, word)[w] = o[w]
          /\ \A w \in WindowOptions \ {"jack_session_restore"} :
               parse(o, k, word)[w] = o[w] \/ parse(o, k, word)[w] \in Int
      BY <1>1, <1>4, ParseWindow DEF WordTyped
    <2>2. \A w \in WindowOptions \ {"jack_session_restore"} : w \in Amounts
      BY DEF WindowOptions, Amounts
    <2>3. HasType("jack_session_restore", parse(o, k, word)["jack_session_restore"])
      BY <2>1, Types DEF Switches
    <2> QED BY <1>1, <2>1, <2>2, <2>3, Types DEF Typed
  <1>5. CASE k.reader = "ignored"
    BY <1>5 DEF parse
  <1> QED BY <1>2, <1>3, <1>4, <1>5 DEF KeyRight, Readers, Single
-----------------------------------------------------------------------------
(* The key that decides about an item.                                     *)

\* Every set of natural numbers that is not empty has a least element.
LEMMA LeastElement ==
  ASSUME NEW T, T \subseteq Nat, T # {}
  PROVE  \E x \in T : \A y \in T : x <= y
  <1> DEFINE Less == OpToRel(<, Nat)
  <1>1. IsWellFoundedOn(Less, Nat)
    BY NatLessThanWellFounded
  <1>2. \A x, y \in Nat : x < y => <<x, y>> \in Less
    BY DEF OpToRel
  <1> HIDE DEF Less
  <1>3. PICK x \in T : \A y \in T : ~ (<<y, x>> \in Less)
    BY <1>1, WFMin
  <1>4. \A y \in T : ~ (y < x)
    BY <1>2, <1>3
  <1>5. \A y \in T : x <= y
    BY <1>4, <1>3
  <1> QED BY <1>3, <1>5

LEMMA MinIsMember ==
  ASSUME NEW T, T \subseteq Nat, T # {}
  PROVE  Min(T) \in T /\ \A y \in T : Min(T) <= y
  BY LeastElement DEF Min

LEMMA Induction ==
  ASSUME NEW S, 0 \in S, \A n \in Nat : n \in S => n + 1 \in S
  PROVE  Nat \subseteq S
  <1> SUFFICES ASSUME Nat \ S # {} PROVE FALSE
    OBVIOUS
  <1>1. PICK x \in Nat \ S : \A y \in Nat \ S : x <= y
    BY LeastElement
  <1> QED BY <1>1

LEMMA ReachedRight ==
  ASSUME NEW item \in Items, Branches[item] # {}
  PROVE  \E j \in 1 .. 44 : Reached(item) = Chain[j] /\ KeyRight(Reached(item))
  <1>1. Branches[item] \subseteq DOMAIN Chain
    BY DEF Branches
  <1>2. Min(Branches[item]) \in Branches[item]
    BY <1>1, KeysRight, MinIsMember
  <1> QED BY <1>1, <1>2, KeysRight DEF Reached

LEMMA LineRead ==
  ASSUME NEW o, Typed(o), NEW line, LineTyped(line)
  PROVE  Typed(parseoption(o, line))
  <1>1. CASE line.words = <<>> \/ Branches[line.item] = {}
    BY <1>1 DEF parseoption
  <1>2. CASE line.words # <<>> /\ Branches[line.item] # {}
    <2> DEFINE k == Reached(line.item)
               word == Head(line.words)
    <2>1. KeyRight(k)
      BY <1>2, ReachedRight DEF LineTyped
    <2>2. WordTyped(k, word)
      BY <1>2 DEF LineTyped, WordTyped
    <2>3. parseoption(o, line) = parse(o, k, word)
      BY <1>2 DEF parseoption
    <2> HIDE DEF k, word
    <2> QED BY <2>1, <2>2, <2>3, ParseTyped
  <1> QED BY <1>1, <1>2

-----------------------------------------------------------------------------
(* readconfig and decode_switches go through their lines and switches.     *)

IsReading(g, o, lines, m) ==
  g = [n \in 0 .. m |-> IF n = 0 THEN o ELSE parseoption(g[n - 1], lines[n])]

LEMMA ReadingExists ==
  ASSUME NEW o, NEW lines
  PROVE  \A m \in Nat : \E g : IsReading(g, o, lines, m)
  <1> DEFINE S == {m \in Nat : \E g : IsReading(g, o, lines, m)}
  <1>1. 0 \in S
    <2> DEFINE g == [n \in 0 .. 0 |-> o]
    <2>1. g = [n \in 0 .. 0 |-> IF n = 0 THEN o ELSE parseoption(g[n - 1], lines[n])]
      OBVIOUS
    <2> QED BY <2>1 DEF IsReading
  <1>2. ASSUME NEW m \in Nat, m \in S PROVE m + 1 \in S
    <2>1. PICK g : IsReading(g, o, lines, m)
      BY <1>2
    <2> DEFINE h == [n \in 0 .. m + 1 |-> IF n <= m THEN g[n] ELSE parseoption(g[m], lines[m + 1])]
               k == [n \in 0 .. m + 1 |-> IF n = 0 THEN o ELSE parseoption(h[n - 1], lines[n])]
    <2>2. \A n \in 0 .. m : g[n] = IF n = 0 THEN o ELSE parseoption(g[n - 1], lines[n])
      BY <2>1 DEF IsReading
    <2>3. \A n \in 0 .. m + 1 : h[n] = k[n]
      <3> TAKE n \in 0 .. m + 1
      <3>1. CASE n = 0
        BY <2>2, <3>1
      <3>2. CASE n # 0 /\ n <= m
        <4>1. h[n - 1] = g[n - 1] /\ h[n] = g[n]
          BY <3>2
        <4> QED BY <4>1, <2>2, <3>2
      <3>3. CASE n = m + 1
        <4>1. h[n - 1] = g[m] /\ lines[n] = lines[m + 1] /\ h[n] = parseoption(g[m], lines[m + 1])
          BY <3>3
        <4> QED BY <4>1, <3>3
      <3> QED BY <3>1, <3>2, <3>3
    <2>4. h = k
      BY <2>3
    <2>5. IsReading(h, o, lines, m + 1)
      BY <2>4 DEF IsReading
    <2> QED BY <2>5
  <1> HIDE DEF S
  <1>3. Nat \subseteq S
    BY <1>1, <1>2, Induction
  <1> QED BY <1>3 DEF S

\* g is the sequence of options that readconfig goes through.
Reads(g, o, lines) ==
  /\ g[0] = o /\ readconfig(o, lines) = g[Len(lines)]
  /\ \A n \in 1 .. Len(lines) : g[n] = parseoption(g[n - 1], lines[n])

LEMMA ReadingSteps ==
  ASSUME NEW o, NEW lines, IsSeq(lines)
  PROVE  \E g : Reads(g, o, lines)
  <1>1. Len(lines) \in Nat
    BY DEF IsSeq
  <1> DEFINE g == CHOOSE g : IsReading(g, o, lines, Len(lines))
  <1>2. IsReading(g, o, lines, Len(lines))
    <2>1. \E h : IsReading(h, o, lines, Len(lines))
      BY <1>1, ReadingExists
    <2> QED BY <2>1, Zenon
  <1>3. readconfig(o, lines) = g[Len(lines)]
    BY DEF readconfig, IsReading
  <1> HIDE DEF g
  <1>4. \A n \in 0 .. Len(lines) : g[n] = IF n = 0 THEN o ELSE parseoption(g[n - 1], lines[n])
    BY <1>2 DEF IsReading
  <1>5. g[0] = o
    BY <1>1, <1>4
  <1>6. \A n \in 1 .. Len(lines) : g[n] = parseoption(g[n - 1], lines[n])
    BY <1>1, <1>4
  <1> QED BY <1>3, <1>5, <1>6 DEF Reads

LEMMA ReadsTyped ==
  ASSUME NEW o, Typed(o), NEW lines, IsSeq(lines), \A i \in DOMAIN lines : LineTyped(lines[i]),
         NEW g, Reads(g, o, lines)
  PROVE  \A n \in 0 .. Len(lines) : Typed(g[n])
  <1>1. /\ g[0] = o /\ readconfig(o, lines) = g[Len(lines)]
        /\ \A n \in 1 .. Len(lines) : g[n] = parseoption(g[n - 1], lines[n])
    BY DEF Reads
  <1> DEFINE S == {n \in Nat : n <= Len(lines) => Typed(g[n])}
  <1>2. Len(lines) \in Nat /\ DOMAIN lines = 1 .. Len(lines)
    BY DEF IsSeq
  <1>3. 0 \in S
    BY <1>1
  <1>4. ASSUME NEW n \in Nat, n \in S PROVE n + 1 \in S
    <2> SUFFICES ASSUME n + 1 <= Len(lines) PROVE Typed(g[n + 1])
      OBVIOUS
    <2>1. n + 1 \in 1 .. Len(lines) /\ (n + 1) - 1 = n
      BY <1>2
    <2>2. g[n + 1] = parseoption(g[n], lines[n + 1])
      BY <1>1, <2>1
    <2>3. Typed(g[n]) /\ LineTyped(lines[n + 1])
      BY <1>2, <1>4, <2>1
    <2> QED BY <2>2, <2>3, LineRead
  <1> HIDE DEF S
  <1>5. Nat \subseteq S
    BY <1>3, <1>4, Induction
  <1> QED BY <1>2, <1>5 DEF S

LEMMA ReadTyped ==
  ASSUME NEW o, Typed(o), NEW lines, IsSeq(lines), \A i \in DOMAIN lines : LineTyped(lines[i])
  PROVE  Typed(readconfig(o, lines))
  <1>1. PICK g : Reads(g, o, lines)
    BY ReadingSteps, Zenon
  <1>2. readconfig(o, lines) = g[Len(lines)] /\ Len(lines) \in Nat
    BY <1>1 DEF Reads, IsSeq
  <1> QED BY <1>1, <1>2, ReadsTyped

IsDecoding(g, o, argv, m) ==
  g = [n \in 0 .. m |-> IF n = 0 THEN o ELSE switch(g[n - 1], argv[n])]
LEMMA DecodingExists ==
  ASSUME NEW o, NEW argv
  PROVE  \A m \in Nat : \E g : IsDecoding(g, o, argv, m)
  <1> DEFINE S == {m \in Nat : \E g : IsDecoding(g, o, argv, m)}
  <1>1. 0 \in S
    <2> DEFINE g == [n \in 0 .. 0 |-> o]
    <2>1. g = [n \in 0 .. 0 |-> IF n = 0 THEN o ELSE switch(g[n - 1], argv[n])]
      OBVIOUS
    <2> QED BY <2>1 DEF IsDecoding
  <1>2. ASSUME NEW m \in Nat, m \in S PROVE m + 1 \in S
    <2>1. PICK g : IsDecoding(g, o, argv, m)
      BY <1>2
    <2> DEFINE h == [n \in 0 .. m + 1 |-> IF n <= m THEN g[n] ELSE switch(g[m], argv[m + 1])]
               k == [n \in 0 .. m + 1 |-> IF n = 0 THEN o ELSE switch(h[n - 1], argv[n])]
    <2>2. \A n \in 0 .. m : g[n] = IF n = 0 THEN o ELSE switch(g[n - 1], argv[n])
      BY <2>1 DEF IsDecoding
    <2>3. \A n \in 0 .. m + 1 : h[n] = k[n]
      <3> TAKE n \in 0 .. m + 1
      <3>1. CASE n = 0
        BY <2>2, <3>1
      <3>2. CASE n # 0 /\ n <= m
        <4>1. h[n - 1] = g[n - 1] /\ h[n] = g[n]
          BY <3>2
        <4> QED BY <4>1, <2>2, <3>2
      <3>3. CASE n = m + 1
        <4>1. h[n - 1] = g[m] /\ argv[n] = argv[m + 1] /\ h[n] = switch(g[m], argv[m + 1])
          BY <3>3
        <4> QED BY <4>1, <3>3
      <3> QED BY <3>1, <3>2, <3>3
    <2>4. h = k
      BY <2>3
    <2>5. IsDecoding(h, o, argv, m + 1)
      BY <2>4 DEF IsDecoding
    <2> QED BY <2>5
  <1> HIDE DEF S
  <1>3. Nat \subseteq S
    BY <1>1, <1>2, Induction
  <1> QED BY <1>3 DEF S

\* g is the sequence of options that decode_switches goes through.
Decodes(g, o, argv) ==
  /\ g[0] = o /\ decode_switches(o, argv) = g[Len(argv)]
  /\ \A n \in 1 .. Len(argv) : g[n] = switch(g[n - 1], argv[n])

LEMMA DecodingSteps ==
  ASSUME NEW o, NEW argv, IsSeq(argv)
  PROVE  \E g : Decodes(g, o, argv)
  <1>1. Len(argv) \in Nat
    BY DEF IsSeq
  <1> DEFINE g == CHOOSE g : IsDecoding(g, o, argv, Len(argv))
  <1>2. IsDecoding(g, o, argv, Len(argv))
    <2>1. \E h : IsDecoding(h, o, argv, Len(argv))
      BY <1>1, DecodingExists
    <2> QED BY <2>1, Zenon
  <1>3. decode_switches(o, argv) = g[Len(argv)]
    BY DEF decode_switches, IsDecoding
  <1> HIDE DEF g
  <1>4. \A n \in 0 .. Len(argv) : g[n] = IF n = 0 THEN o ELSE switch(g[n - 1], argv[n])
    BY <1>2 DEF IsDecoding
  <1>5. g[0] = o
    BY <1>1, <1>4
  <1>6. \A n \in 1 .. Len(argv) : g[n] = switch(g[n - 1], argv[n])
    BY <1>1, <1>4
  <1> QED BY <1>3, <1>5, <1>6 DEF Decodes

-----------------------------------------------------------------------------
(* Start-up leaves options of their types.                                 *)

LEMMA QuietTyped ==
  ASSUME NEW o, Typed(o)
  PROVE  Typed(quiet(o))
  <1>1. DOMAIN o = Options /\ \A w \in Options : HasType(w, o[w])
    BY DEF Typed
  <1>2. /\ "want_quiet" \in Options /\ "want_verbose" \in Options
        /\ "want_quiet" \in Flags /\ "want_verbose" \in Flags
    BY OptionNames DEF Flags
  <1>3. DOMAIN quiet(o) = Options
    BY <1>1 DEF quiet
  <1>4. \A w \in Options \ {"want_quiet", "want_verbose"} : quiet(o)[w] = o[w]
    BY <1>1, <1>2 DEF quiet
  <1>5. quiet(o)["want_quiet"] = TRUE
    BY <1>1, <1>2 DEF quiet
  <1>6. quiet(o)["want_verbose"] = FALSE
    BY <1>1, <1>2 DEF quiet
  <1>7. HasType("want_quiet", TRUE) /\ HasType("want_verbose", FALSE)
    BY <1>2, Types
  <1> QED BY <1>1, <1>3, <1>4, <1>5, <1>6, <1>7 DEF Typed

LEMMA SwitchNames ==
  /\ DOMAIN Off = {"b", "n", "c"} /\ \A c \in DOMAIN Off : Off[c] \in Flags
  /\ DOMAIN Plain = {"a", "I", "J", "l", "N", "P", "Q", "S", "s", "C", "q", "r", "U"}
  /\ \A c \in DOMAIN Plain : Plain[c] \in Flags \cup Switches
  /\ DOMAIN WithArgument = {"f", "o", "T", "W", "d", "M", "m", "x"}
  /\ \A c \in DOMAIN WithArgument : WithArgument[c] \in Options
  <1>1. DOMAIN Off = {"b", "n", "c"} /\ \A c \in DOMAIN Off : Off[c] \in Flags
    BY DEF Off, Flags
  <1>2. DOMAIN Plain = {"a", "I", "J", "l", "N", "P", "Q", "S", "s", "C", "q", "r", "U"}
    BY DEF Plain
  <1>3. \A c \in DOMAIN Plain : Plain[c] \in Flags \cup Switches
    BY DEF Plain, Flags, Switches
  <1>4. DOMAIN WithArgument = {"f", "o", "T", "W", "d", "M", "m", "x"}
    BY DEF WithArgument
  <1>5. \A c \in DOMAIN WithArgument : WithArgument[c] \in Options
    BY OptionNames DEF WithArgument
  <1> QED BY <1>1, <1>2, <1>3, <1>4, <1>5

LEMMA SwitchRead ==
  ASSUME NEW o, Typed(o), NEW s, SwitchTyped(s)
  PROVE  Typed(switch(o, s))
  <1>1. DOMAIN o = Options /\ \A w \in Options : HasType(w, o[w])
    BY DEF Typed
  <1>2. {"remote_en", "want_quiet", "want_verbose"} \subseteq Options \cap Flags
    BY OptionNames DEF Flags
  <1>3. \A b \in BOOLEAN : \A v \in Flags \cup Switches : HasType(v, b)
    BY Types
  <1>4. CASE s.c = "R"
    <2> DEFINE p == [o EXCEPT !.remote_en = TRUE]
    <2>1. switch(o, s) = quiet(p)
      BY <1>4, SwitchNames DEF switch
    <2>2. Typed(p)
      BY <1>1, <1>2, <1>3 DEF Typed
    <2> HIDE DEF p
    <2> QED BY <2>1, <2>2, QuietTyped
  <1>5. CASE s.c = "q"
    <2>1. switch(o, s) = quiet(o)
      BY <1>5, SwitchNames DEF switch
    <2> QED BY <2>1, QuietTyped
  <1>6. CASE s.c = "v"
    <2>1. switch(o, s) = [o EXCEPT !["want_verbose"] = ~o["remote_en"]]
      BY <1>6, SwitchNames DEF switch
    <2>2. HasType("want_verbose", ~o["remote_en"])
      BY <1>2, <1>3
    <2> QED BY <1>1, <1>2, <2>1, <2>2 DEF Typed
  <1>7. CASE s.c = "K"
    <2>1. switch(o, s) = [o EXCEPT !["keyframe_interval_limit"] = Within(10, s.arg, 5000)]
      BY <1>7, SwitchNames DEF switch
    <2>2. s.arg \in Int
      BY <1>7, SwitchNames DEF SwitchTyped
    <2>3. Within(10, s.arg, 5000) \in Int
      BY <2>2 DEF Within
    <2>4. HasType("keyframe_interval_limit", Within(10, s.arg, 5000))
      BY <2>3, Types DEF Amounts
    <2>5. "keyframe_interval_limit" \in Options
      BY OptionNames
    <2> QED BY <1>1, <2>1, <2>4, <2>5 DEF Typed
  <1>8. CASE s.c = "O"
    <2>1. switch(o, s) = [o EXCEPT !["osc_port"] = Within(0, s.arg, 65535)]
      BY <1>8, SwitchNames DEF switch
    <2>2. s.arg \in Int
      BY <1>8, SwitchNames DEF SwitchTyped
    <2>3. Within(0, s.arg, 65535) \in Int
      BY <2>2 DEF Within
    <2>4. HasType("osc_port", Within(0, s.arg, 65535))
      BY <2>3, Types DEF Amounts
    <2>5. "osc_port" \in Options
      BY OptionNames
    <2> QED BY <1>1, <2>1, <2>4, <2>5 DEF Typed
  <1>9. CASE s.c = "i"
    <2>1. switch(o, s) = [o EXCEPT !.OSD_mode = s.arg \cap {OSD_FRAME, OSD_SMPTE}]
      BY <1>9, SwitchNames DEF switch
    <2>2. HasType("OSD_mode", s.arg \cap {OSD_FRAME, OSD_SMPTE})
      BY Types DEF Bits
    <2>3. "OSD_mode" \in Options
      BY OptionNames
    <2> QED BY <1>1, <2>1, <2>2, <2>3 DEF Typed
  <1>10. CASE s.c \in DOMAIN Off
    <2>1. switch(o, s) = [o EXCEPT ![Off[s.c]] = FALSE]
      BY <1>10, SwitchNames DEF switch
    <2>2. Off[s.c] \in Flags /\ Off[s.c] \in Options
      BY <1>10, SwitchNames, Kinds
    <2> QED BY <1>1, <1>3, <2>1, <2>2 DEF Typed
  <1>11. CASE s.c \in DOMAIN WithArgument
    <2>1. switch(o, s) = [o EXCEPT ![WithArgument[s.c]] = s.arg]
      BY <1>11, SwitchNames DEF switch
    <2>2. HasType(WithArgument[s.c], s.arg) /\ WithArgument[s.c] \in Options
      BY <1>11, SwitchNames DEF SwitchTyped
    <2> QED BY <1>1, <2>1, <2>2 DEF Typed
  <1>12. CASE s.c \in DOMAIN Plain \ {"q"}
    <2>1. switch(o, s) = [o EXCEPT ![Plain[s.c]] = TRUE]
      BY <1>12, SwitchNames DEF switch
    <2>2. Plain[s.c] \in Flags \cup Switches /\ Plain[s.c] \in Options
      BY <1>12, SwitchNames, Kinds
    <2> QED BY <1>1, <1>3, <2>1, <2>2 DEF Typed
  <1> QED BY <1>4, <1>5, <1>6, <1>7, <1>8, <1>9, <1>10, <1>11, <1>12 DEF SwitchTyped

LEMMA DecodedTyped ==
  ASSUME NEW o, Typed(o), NEW argv, IsSeq(argv), \A i \in DOMAIN argv : SwitchTyped(argv[i])
  PROVE  Typed(decode_switches(o, argv))
  <1>0. PICK g : Decodes(g, o, argv)
    BY DecodingSteps, Zenon
  <1>1. /\ g[0] = o /\ decode_switches(o, argv) = g[Len(argv)]
        /\ \A n \in 1 .. Len(argv) : g[n] = switch(g[n - 1], argv[n])
    BY <1>0 DEF Decodes
  <1> DEFINE S == {n \in Nat : n <= Len(argv) => Typed(g[n])}
  <1>2. Len(argv) \in Nat /\ DOMAIN argv = 1 .. Len(argv)
    BY DEF IsSeq
  <1>3. 0 \in S
    BY <1>1
  <1>4. ASSUME NEW n \in Nat, n \in S PROVE n + 1 \in S
    <2> SUFFICES ASSUME n + 1 <= Len(argv) PROVE Typed(g[n + 1])
      OBVIOUS
    <2>1. n + 1 \in 1 .. Len(argv) /\ (n + 1) - 1 = n
      BY <1>2
    <2>2. g[n + 1] = switch(g[n], argv[n + 1])
      BY <1>1, <2>1
    <2>3. Typed(g[n]) /\ SwitchTyped(argv[n + 1])
      BY <1>2, <1>4, <2>1
    <2> QED BY <2>2, <2>3, SwitchRead
  <1> HIDE DEF S
  <1>5. Nat \subseteq S
    BY <1>3, <1>4, Induction
  <1> QED BY <1>1, <1>2, <1>5 DEF S
-----------------------------------------------------------------------------
(* The lines of a saved session.                                           *)

LEMMA PlaceNames == DOMAIN Place = {"x", "y", "w", "h"} /\ \A v \in DOMAIN Place : Place[v] \in Int
  BY DEF Place

\* Options that have a line under their own name, but for the midi port.
Kept ==
  {"want_letterbox", "videomode", "delay", "osc_port", "mq_en", "ipc_queue", "remote_en",
   "want_nosplash", "want_verbose", "want_quiet", "interaction_override",
   "keyframe_interval_limit", "midi_clkconvert", "midi_driver", "midi_clkadj", "userFrame",
   "smpte_offset", "want_genpts", "want_ignstart", "want_dropframes", "want_autodrop",
   "OSD_mode", "OSD_sx", "OSD_sy", "OSD_fx", "OSD_fy", "OSD_tx", "OSD_ty", "OSD_text",
   "OSD_fontfile", "start_ontop", "start_fullscreen"}

LEMMA SavedNames ==
  /\ DOMAIN SavedKeys = 1 .. 39
  /\ \A i \in 1 .. 39 :
       SavedKeys[i][2] \in Kept \cup {"current_file", "midiid", "source", "x", "y", "w", "h"}
  /\ \A i \in 1 .. 39 : SavedKeys[i][2] = "midiid" <=> i = 16
  /\ \A i \in 1 .. 39 : SavedKeys[i][2] = "source" <=> i = 20
  <1>1. DOMAIN SavedKeys = 1 .. 39
    BY DEF SavedKeys
  <1>2. \A i \in 1 .. 39 :
          SavedKeys[i][2] \in Kept \cup {"current_file", "midiid", "source", "x", "y", "w", "h"}
    BY DEF SavedKeys, Kept
  <1>3. \A i \in 1 .. 39 : SavedKeys[i][2] = "midiid" <=> i = 16
    BY DEF SavedKeys
  <1>4. \A i \in 1 .. 39 : SavedKeys[i][2] = "source" <=> i = 20
    BY DEF SavedKeys
  <1> QED BY <1>1, <1>2, <1>3, <1>4

\* Each of them has one.
LEMMA KeptSaved == \A v \in Kept : \E i \in 1 .. 39 : SavedKeys[i][2] = v
  BY DEF SavedKeys, Kept

LEMMA ChainAt ==
  ASSUME NEW i \in 1 .. 39
  PROVE  /\ SavedKeys[i][1] \in Items /\ Branches[SavedKeys[i][1]] # {}
         /\ SavedKeys[i][2] = "source" => Reached(SavedKeys[i][1]).reader = "source"
         /\ SavedKeys[i][2] \in DOMAIN Place => Reached(SavedKeys[i][1]).reader = "both"
         /\ SavedKeys[i][2] = "current_file" =>
              /\ Reached(SavedKeys[i][1]).reader = "text"
              /\ Reached(SavedKeys[i][1]).var = "load_movie"
         /\ SavedKeys[i][2] \notin DOMAIN Place \cup {"source", "current_file"} =>
              /\ Reached(SavedKeys[i][1]).reader = ReaderOf(SavedKeys[i][2])
              /\ Reached(SavedKeys[i][1]).var = SavedKeys[i][2]
  <1> DEFINE item == SavedKeys[i][1]
             v == SavedKeys[i][2]
  <1>1. /\ item \in Items /\ Branches[item] # {}
        /\ CASE v = "source" -> Reached(item).reader = "source"
             [] v \in DOMAIN Place -> Reached(item).reader = "both"
             [] v = "current_file" -> Reached(item) = Key("MOVIEFILE", "text", "load_movie")
             [] OTHER -> Reached(item).reader = ReaderOf(v) /\ Reached(item).var = v
    BY ChainAssumption, SavedNames
  <1>2. v \in DOMAIN Place => v # "source" /\ v # "current_file"
    BY PlaceNames
  <1> HIDE DEF item, v
  <1>3. v = "source" => Reached(item).reader = "source"
    BY <1>1, <1>2
  <1>4. v \in DOMAIN Place => Reached(item).reader = "both"
    BY <1>1, <1>2
  <1>5. v = "current_file" =>
          Reached(item).reader = "text" /\ Reached(item).var = "load_movie"
    <2> SUFFICES ASSUME v = "current_file"
                 PROVE  Reached(item).reader = "text" /\ Reached(item).var = "load_movie"
      OBVIOUS
    <2>1. Reached(item) = Key("MOVIEFILE", "text", "load_movie")
      BY <1>1, <1>2
    <2> QED BY <2>1 DEF Key
  <1>6. v \notin DOMAIN Place \cup {"source", "current_file"} =>
          Reached(item).reader = ReaderOf(v) /\ Reached(item).var = v
    <2> SUFFICES ASSUME v # "source", v # "current_file", ~(v \in DOMAIN Place)
                 PROVE  Reached(item).reader = ReaderOf(v) /\ Reached(item).var = v
      OBVIOUS
    <2> QED BY <1>1
  <1> QED BY <1>1, <1>3, <1>4, <1>5, <1>6 DEF item, v

LEMMA SavedLine ==
  ASSUME NEW s, NEW i \in 1 .. 39
  PROVE  /\ saveconfig(s)[i].item = SavedKeys[i][1]
         /\ saveconfig(s)[i].words = Words(s, SavedKeys[i][2])
  BY SavedNames DEF saveconfig, Line

LEMMA SavedLength ==
  ASSUME NEW s
  PROVE  IsSeq(saveconfig(s)) /\ Len(saveconfig(s)) = 39 /\ DOMAIN saveconfig(s) = 1 .. 39
  <1> DEFINE f == [i \in 1 .. 39 |-> Line(SavedKeys[i][1], Words(s, SavedKeys[i][2]))]
  <1>1. saveconfig(s) = f
    BY SavedNames DEF saveconfig
  <1>2. Len(f) = 39 /\ DOMAIN f = 1 .. 39
    OBVIOUS
  <1> QED BY <1>1, <1>2 DEF IsSeq
LEMMA TextNames ==
  /\ Texts \cup Nullable \subseteq Options \ Flags
  /\ Texts \cup Nullable \subseteq Given \cup Absent
  /\ Texts \subseteq Kept \cup {"midiid", "current_file"} /\ Nullable \subseteq Kept
  BY OptionNames DEF Texts, Nullable, Flags, Given, Absent, Kept

\* Options that are printed as they are, but for the rate.
LEMMA KeptValues ==
  \A v \in Kept :
    v \in Flags \cup Texts \cup Nullable \cup Amounts \cup {"OSD_mode", "videomode"}
  BY DEF Kept, Flags, Texts, Nullable, Amounts

LEMMA PrintedText ==
  ASSUME NEW o, Typed(o), NEW v \in Texts \cup Nullable
  PROVE  /\ Printed(o, v) = IF o[v] # NULL THEN o[v]
                            ELSE IF v = "smpte_offset" THEN <<"0">> ELSE <<"(null)">>
         /\ Printed(o, v) \in Seq(STRING)
  <1>1. v \notin Flags /\ v \in Options /\ v \in Given \cup Absent
    BY TextNames
  <1>2. HasType(v, o[v])
    BY <1>1 DEF Typed
  <1>3. o[v] # NULL => o[v] \in Seq(STRING)
    BY <1>1, <1>2, Types
  <1>4. Printed(o, v) = IF o[v] # NULL THEN o[v]
                        ELSE IF v = "smpte_offset" THEN <<"0">> ELSE <<"(null)">>
    BY <1>1 DEF Printed
  <1>5. "0" \in STRING /\ "(null)" \in STRING
    BY TextsAssumption DEF OwnWords
  <1>6. <<"0">> \in Seq(STRING) /\ <<"(null)">> \in Seq(STRING)
    BY <1>5, WordText
  <1> QED BY <1>3, <1>4, <1>6

LEMMA PrintedValue ==
  ASSUME NEW o, Typed(o), NEW v \in Amounts \cup {"OSD_mode", "videomode"}
  PROVE  /\ Printed(o, v) = <<IF v = "delay" THEN SavedRate(o["delay"]) ELSE o[v]>>
         /\ HasType(v, IF v = "delay" THEN SavedRate(o["delay"]) ELSE o[v])
  <1>1. v \notin Flags \cup Nullable \cup Texts
    BY DEF Amounts, Flags, Nullable, Texts
  <1>2. v \in Options /\ "delay" \in Options /\ "delay" \in Amounts
    BY Kinds DEF Amounts
  <1>3. HasType(v, o[v]) /\ HasType("delay", o["delay"])
    BY <1>2 DEF Typed
  <1>4. SavedRate(o["delay"]) \in Int
    <2>1. o["delay"] \in Int
      BY <1>2, <1>3, Types
    <2> QED BY <2>1 DEF SavedRate
  <1>5. CASE v = "delay"
    <2>1. Printed(o, v) = <<SavedRate(o["delay"])>>
      BY <1>1, <1>5 DEF Printed
    <2>2. HasType(v, SavedRate(o["delay"]))
      BY <1>2, <1>4, <1>5, Types
    <2> QED BY <2>1, <2>2, <1>5
  <1>6. CASE v # "delay"
    <2>1. Printed(o, v) = <<o[v]>>
      BY <1>1, <1>6 DEF Printed
    <2> QED BY <2>1, <1>3, <1>6
  <1> QED BY <1>5, <1>6

LEMMA WordsPrinted ==
  ASSUME NEW s, NEW v \in Texts \cup Nullable \cup Amounts \cup {"OSD_mode", "videomode"}
  PROVE  Words(s, v) = Printed(s.opt, v)
  <1>1. v \notin {"source", "x", "y", "w", "h", "start_ontop", "start_fullscreen"}
    BY DEF Texts, Nullable, Amounts
  <1> QED BY <1>1, PlaceNames DEF Words

LEMMA ReaderNames ==
  /\ \A v \in Texts : ReaderOf(v) = "text"
  /\ \A v \in Nullable : ReaderOf(v) = "nullable"
  /\ \A v \in Flags : ReaderOf(v) \in {"YES_OK", "YES_NO"}
  /\ \A v \in Amounts \cup {"OSD_mode", "videomode"} : ReaderOf(v) = "value"
  <1>1. \A v \in Texts : v \notin Flags \cup Nullable
    BY DEF Texts, Flags, Nullable
  <1>2. \A v \in Nullable : v \notin Flags
    BY DEF Flags, Nullable
  <1>3. \A v \in Amounts \cup {"OSD_mode", "videomode"} : v \notin Flags \cup Nullable \cup Texts
    BY DEF Amounts, Texts, Flags, Nullable
  <1> QED BY <1>1, <1>2, <1>3 DEF ReaderOf

LEMMA SavedLineTyped ==
  ASSUME NEW s, Typed(s.opt), NEW i \in 1 .. 39
  PROVE  LineTyped(saveconfig(s)[i])
  <1> DEFINE item == SavedKeys[i][1]
             v == SavedKeys[i][2]
             k == Reached(item)
             words == Words(s, v)
  <1> SUFFICES ASSUME words # <<>>
               PROVE  /\ k.reader = "value" => HasType(k.var, Head(words))
                      /\ k.reader \in {"text", "nullable"} => Head(words) \in STRING
                      /\ k.reader \in {"both", "window"} => Head(words) \in Int
    BY SavedLine, ChainAt DEF LineTyped
  <1>1. CASE v = "source"
    BY <1>1, ChainAt
  <1>2. CASE v \in DOMAIN Place
    <2>1. v # "source"
      BY <1>2, PlaceNames
    <2>2. words = <<Place[v]>>
      BY <1>2, <2>1, PlaceNames DEF Words
    <2>3. k.reader = "both"
      BY <1>2, ChainAt
    <2> QED BY <1>2, <2>2, <2>3, PlaceNames
  <1>3. CASE v \in Texts \cup Nullable
    <2>1. words \in Seq(STRING)
      BY <1>3, WordsPrinted, PrintedText
    <2>2. Head(words) \in STRING
      BY <2>1
    <2>3. v \notin DOMAIN Place \cup {"source"}
      BY <1>3, PlaceNames DEF Texts, Nullable
    <2>4. k.reader = "text" \/ k.reader = "nullable"
      BY <1>3, <2>3, ChainAt, ReaderNames
    <2> QED BY <2>2, <2>4
  <1>4. CASE v \in Flags
    <2>1. v \notin DOMAIN Place \cup {"source", "current_file"}
      BY <1>4, PlaceNames DEF Flags
    <2>2. k.reader \in {"YES_OK", "YES_NO"}
      BY <1>4, <2>1, ChainAt, ReaderNames
    <2> QED BY <2>2
  <1>5. CASE v \in Amounts \cup {"OSD_mode", "videomode"}
    <2>1. v \notin DOMAIN Place \cup {"source", "current_file"}
      BY <1>5, PlaceNames DEF Amounts
    <2>2. k.reader = "value" /\ k.var = v
      BY <1>5, <2>1, ChainAt, ReaderNames
    <2>3. words = Printed(s.opt, v)
      BY <1>5, WordsPrinted
    <2>4. HasType(v, Head(words))
      BY <1>5, <2>3, PrintedValue
    <2> QED BY <2>2, <2>4
  <1>6. v \in Kept \cup {"current_file", "midiid", "source", "x", "y", "w", "h"}
    BY SavedNames
  <1>7. "current_file" \in Texts /\ "midiid" \in Texts
    BY DEF Texts
  <1> QED BY <1>1, <1>2, <1>3, <1>4, <1>5, <1>6, <1>7, KeptValues, PlaceNames
-----------------------------------------------------------------------------
(* What reading one of them changes.                                       *)

\* The option that the line for w is read into.
To(w) == IF w = "current_file" THEN "load_movie" ELSE w

Named == Kept \cup {"current_file", "midiid"}

LEMMA NamedReaders ==
  \A w \in Named :
    /\ ReaderOf(w) \in Single
    /\ w \notin DOMAIN Place \cup {"source"}
    /\ To(w) \in Options
  <1> TAKE w \in Named
  <1>1. w \in Flags \cup Texts \cup Nullable \cup Amounts \cup {"OSD_mode", "videomode"}
    BY KeptValues DEF Named, Texts
  <1>2. ReaderOf(w) \in Single
    BY <1>1, ReaderNames DEF Single
  <1>3. w \in Options /\ w # "source" /\ w \notin {"x", "y", "w", "h"} /\ "load_movie" \in Options
    BY OptionNames DEF Named, Kept
  <1> QED BY <1>2, <1>3, PlaceNames DEF To

\* p is o after the line for w in session s.
WithLine(p, o, s, w) ==
  p = IF Words(s, w) = <<>> THEN o
      ELSE [o EXCEPT ![To(w)] = Stored(ReaderOf(w), o[To(w)], Head(Words(s, w)))]

LEMMA LineNamed ==
  ASSUME NEW o, NEW s, NEW i \in 1 .. 39, SavedKeys[i][2] \in Named
  PROVE  WithLine(parseoption(o, saveconfig(s)[i]), o, s, SavedKeys[i][2])
  <1> DEFINE item == SavedKeys[i][1]
             w == SavedKeys[i][2]
             k == Reached(item)
             words == Words(s, w)
             line == saveconfig(s)[i]
  <1>1. /\ line.item = item /\ line.words = words
        /\ item \in Items /\ Branches[item] # {}
    BY SavedLine, ChainAt
  <1>2. k.reader = ReaderOf(w) /\ k.var = To(w)
    <2>1. CASE w = "current_file"
      <3>1. ReaderOf("current_file") = "text"
        BY ReaderNames DEF Texts
      <3> QED BY <2>1, <3>1, ChainAt DEF To
    <2>2. CASE w # "current_file"
      BY <2>2, NamedReaders, ChainAt DEF To
    <2> QED BY <2>1, <2>2
  <1>3. KeyRight(k) /\ k.reader \in Single
    BY <1>1, <1>2, ReachedRight, NamedReaders
  <1> DEFINE word == Head(words)
  <1>4. parseoption(o, line) = IF words = <<>> THEN o ELSE parse(o, k, word)
    BY <1>1 DEF parseoption
  <1> HIDE DEF item, w, k, words, line, word
  <1>5. parse(o, k, word) = [o EXCEPT ![k.var] = Stored(k.reader, o[k.var], word)]
    BY <1>3, ParseSingle
  <1>6. parse(o, k, word) = [o EXCEPT ![To(w)] = Stored(ReaderOf(w), o[To(w)], word)]
    BY <1>2, <1>5
  <1>7. parseoption(o, line) =
          IF words = <<>> THEN o
          ELSE [o EXCEPT ![To(w)] = Stored(ReaderOf(w), o[To(w)], word)]
    BY <1>4, <1>6
  <1> QED BY <1>7 DEF w, words, line, word, WithLine

LEMMA LineSource ==
  ASSUME NEW o, NEW s, NEW i \in 1 .. 39, SavedKeys[i][2] = "source"
  PROVE  parseoption(o, saveconfig(s)[i]) = syncsource(o, psync(s.source))
  <1> DEFINE item == SavedKeys[i][1]
             k == Reached(item)
             line == saveconfig(s)[i]
             w == SavedKeys[i][2]
  <1>1. /\ line.item = item /\ line.words = Words(s, w)
        /\ item \in Items /\ Branches[item] # {} /\ k.reader = "source"
    BY SavedLine, ChainAt
  <1>2. Words(s, w) = <<psync(s.source)>>
    <2>1. w = "source" /\ w \notin DOMAIN Place
      BY PlaceNames
    <2> HIDE DEF w
    <2> QED BY <2>1 DEF Words
  <1>3. parseoption(o, line) = parse(o, k, psync(s.source))
    BY <1>1, <1>2 DEF parseoption
  <1>4. parse(o, k, psync(s.source)) = syncsource(o, psync(s.source))
    BY <1>1 DEF parse
  <1> QED BY <1>3, <1>4

LEMMA LinePlace ==
  ASSUME NEW o, DOMAIN o = Options, NEW s, NEW i \in 1 .. 39, SavedKeys[i][2] \in DOMAIN Place,
         NEW v \in Options \ WindowOptions
  PROVE  parseoption(o, saveconfig(s)[i])[v] = o[v]
  <1> DEFINE item == SavedKeys[i][1]
             k == Reached(item)
             line == saveconfig(s)[i]
             word == Head(line.words)
  <1>1. line.item = item /\ item \in Items /\ Branches[item] # {} /\ k.reader = "both"
    BY SavedLine, ChainAt
  <1>2. KeyRight(k)
    BY <1>1, ReachedRight
  <1>3. parseoption(o, line) = o \/ parseoption(o, line) = parse(o, k, word)
    BY <1>1 DEF parseoption
  <1> HIDE DEF item, k, line, word
  <1>4. parse(o, k, word)[v] = o[v]
    BY <1>1, <1>2, ParseWindow
  <1>5. parseoption(o, line)[v] = o[v]
    BY <1>3, <1>4
  <1> QED BY <1>5 DEF line
\* The option that is written for v.
From(v) == IF v = "load_movie" THEN "current_file" ELSE v

Others == Options \ ({"use_jack", "use_ltc", "midiid", "current_file"} \cup WindowOptions)

\* What the line for w makes of a value.
After(old, s, w) ==
  IF Words(s, w) = <<>> THEN old ELSE Stored(ReaderOf(w), old, Head(Words(s, w)))

LEMMA OtherNames ==
  ASSUME NEW v \in Others
  PROVE  /\ v \in Options \ WindowOptions /\ v \notin {"use_jack", "use_ltc", "midiid"}
         /\ From(v) \notin {"source"} \cup DOMAIN Place
         /\ \A w \in Named : v = To(w) <=> w = From(v)
  <1>1. v \in Options \ WindowOptions /\ v \notin {"use_jack", "use_ltc", "midiid", "current_file"}
    BY DEF Others
  <1>2. v \notin {"source", "x", "y", "w", "h"}
    BY <1>1, OptionNames
  <1>3. From(v) \notin {"source"} \cup DOMAIN Place
    BY <1>2, PlaceNames DEF From
  <1>4. ASSUME NEW w \in Named PROVE v = To(w) <=> w = From(v)
    <2>1. w # "load_movie"
      BY DEF Named, Kept
    <2> QED BY <1>1, <2>1 DEF To, From
  <1> QED BY <1>1, <1>3, <1>4

LEMMA LineOther ==
  ASSUME NEW o, DOMAIN o = Options, NEW s, NEW i \in 1 .. 39, NEW v \in Others
  PROVE  parseoption(o, saveconfig(s)[i])[v] =
           IF SavedKeys[i][2] = From(v) THEN After(o[v], s, From(v)) ELSE o[v]
  <1> DEFINE w == SavedKeys[i][2]
             p == parseoption(o, saveconfig(s)[i])
  <1>1. CASE w = "source"
    <2>1. p = syncsource(o, psync(s.source))
      BY <1>1, LineSource
    <2>2. p[v] = o[v]
      BY <2>1, OtherNames, SyncsourceFacts
    <2> QED BY <1>1, <2>2, OtherNames
  <1>2. CASE w \in DOMAIN Place
    <2>0. v \in Options \ WindowOptions
      BY OtherNames
    <2>1. p[v] = o[v]
      BY <1>2, <2>0, LinePlace
    <2> QED BY <1>2, <2>1, OtherNames
  <1>3. CASE w \in Named
    <2> DEFINE x == Stored(ReaderOf(w), o[To(w)], Head(Words(s, w)))
    <2>0. SavedKeys[i][2] \in Named
      BY <1>3
    <2>1. p = IF Words(s, w) = <<>> THEN o ELSE [o EXCEPT ![To(w)] = x]
      <3>1. WithLine(p, o, s, w)
        BY <2>0, LineNamed
      <3> QED BY <3>1 DEF WithLine
    <2>2. To(w) \in Options /\ v \in Options /\ (v = To(w) <=> w = From(v))
      BY <1>3, NamedReaders, OtherNames
    <2>3. CASE w = From(v)
      <3>1. p[v] = IF Words(s, w) = <<>> THEN o[v] ELSE x
        BY <2>1, <2>2, <2>3
      <3>2. x = Stored(ReaderOf(w), o[v], Head(Words(s, w)))
        BY <2>2, <2>3
      <3> QED BY <3>1, <3>2, <2>3 DEF After
    <2>4. CASE w # From(v)
      <3>1. p[v] = o[v]
        BY <2>1, <2>2, <2>4
      <3> QED BY <3>1, <2>4
    <2> QED BY <2>3, <2>4
  <1>4. w \in Named \cup {"source"} \cup DOMAIN Place
    BY SavedNames, PlaceNames DEF Named
  <1> QED BY <1>1, <1>2, <1>3, <1>4

\* A second line for the same option would change nothing.
LEMMA AfterTwice ==
  ASSUME NEW old, NEW s, NEW w, ReaderOf(w) \in {"YES_OK", "YES_NO"} => old \in BOOLEAN,
         ReaderOf(w) \in Single
  PROVE  After(After(old, s, w), s, w) = After(old, s, w)
  <1> DEFINE r == ReaderOf(w)
             word == Head(Words(s, w))
  <1>1. Stored(r, Stored(r, old, word), word) = Stored(r, old, word)
    <2> HIDE DEF r, word
    <2>1. CASE r \in {"value", "text", "nullable"}
      BY <2>1 DEF Stored
    <2>2. CASE r = "YES_OK"
      BY <2>2 DEF Stored, YES_OK, r
    <2>3. CASE r = "YES_NO"
      BY <2>3 DEF Stored, YES_NO
    <2> QED BY <2>1, <2>2, <2>3 DEF Single, r
  <1> QED BY <1>1 DEF After

\* The saved session, read over other options.
LEMMA ReadBack ==
  ASSUME NEW o, Typed(o), NEW s, Typed(s.opt), NEW v \in Others
  PROVE  readconfig(o, saveconfig(s))[v] =
           IF \E i \in 1 .. 39 : SavedKeys[i][2] = From(v) THEN After(o[v], s, From(v)) ELSE o[v]
  <1> DEFINE lines == saveconfig(s)
             w == From(v)
             new == After(o[v], s, w)
  <1>1. IsSeq(lines) /\ Len(lines) = 39 /\ DOMAIN lines = 1 .. 39
    BY SavedLength
  <1>2. \A i \in DOMAIN lines : LineTyped(lines[i])
    BY <1>1, SavedLineTyped
  <1> HIDE DEF lines
  <1>3. PICK g : Reads(g, o, lines)
    BY <1>1, ReadingSteps, Zenon
  <1>4. /\ g[0] = o /\ readconfig(o, lines) = g[39]
        /\ \A n \in 1 .. 39 : g[n] = parseoption(g[n - 1], lines[n])
    BY <1>1, <1>3 DEF Reads
  <1>5. \A n \in 0 .. 39 : Typed(g[n])
    BY <1>1, <1>2, <1>3, ReadsTyped
  <1>6. \A n \in 1 .. 39 : g[n][v] =
          IF SavedKeys[n][2] = w THEN After(g[n - 1][v], s, w) ELSE g[n - 1][v]
    <2> TAKE n \in 1 .. 39
    <2> DEFINE p == g[n - 1]
    <2>1. DOMAIN p = Options
      BY <1>5 DEF Typed
    <2>2. g[n] = parseoption(p, saveconfig(s)[n])
      BY <1>4 DEF lines
    <2> HIDE DEF p
    <2>3. parseoption(p, saveconfig(s)[n])[v] =
            IF SavedKeys[n][2] = w THEN After(p[v], s, w) ELSE p[v]
      BY <2>1, LineOther, Zenon
    <2>4. g[n][v] = IF SavedKeys[n][2] = w THEN After(p[v], s, w) ELSE p[v]
      BY <2>2, <2>3, Zenon
    <2> QED BY <2>4 DEF p
  <1>7. (\E i \in 1 .. 39 : SavedKeys[i][2] = w) => After(new, s, w) = new
    <2> SUFFICES ASSUME NEW i \in 1 .. 39, SavedKeys[i][2] = w
                 PROVE  After(new, s, w) = new
      OBVIOUS
    <2>1. w \in Named
      BY SavedNames, PlaceNames, OtherNames DEF Named
    <2>2. ReaderOf(w) \in Single
      BY <2>1, NamedReaders
    <2>3. ReaderOf(w) \in {"YES_OK", "YES_NO"} => o[v] \in BOOLEAN
      <3>1. w = "current_file" => ReaderOf(w) = "text"
        BY ReaderNames DEF Texts
      <3>2. v # "load_movie" => w = v
        BY DEF From
      <3>3. v = "load_movie" => w = "current_file"
        BY DEF From
      <3>4. w \in Flags \cup Texts \cup Nullable \cup Amounts \cup {"OSD_mode", "videomode"}
        BY <2>1, KeptValues DEF Named, Texts
      <3>5. w \in Flags /\ w = v => o[v] \in BOOLEAN
        BY Types DEF Typed, Others
      <3> HIDE DEF w
      <3> QED BY <3>1, <3>2, <3>3, <3>4, <3>5, ReaderNames
    <2> QED BY <2>2, <2>3, AfterTwice
  <1> HIDE DEF w, new
  <1> DEFINE S == {n \in Nat : n <= 39 =>
                     g[n][v] = IF \E i \in 1 .. n : SavedKeys[i][2] = w THEN new ELSE o[v]}
  <1>8. 0 \in S
    BY <1>4
  <1>9. ASSUME NEW n \in Nat, n \in S PROVE n + 1 \in S
    <2> SUFFICES ASSUME n + 1 <= 39
                 PROVE  g[n + 1][v] =
                          IF \E i \in 1 .. n + 1 : SavedKeys[i][2] = w THEN new ELSE o[v]
      OBVIOUS
    <2>1. n + 1 \in 1 .. 39 /\ (n + 1) - 1 = n /\ n <= 39
      OBVIOUS
    <2>2. g[n][v] = IF \E i \in 1 .. n : SavedKeys[i][2] = w THEN new ELSE o[v]
      BY <1>9, <2>1
    <2>3. g[n + 1][v] = IF SavedKeys[n + 1][2] = w THEN After(g[n][v], s, w) ELSE g[n][v]
      BY <1>6, <2>1
    <2>4. \A i : i \in 1 .. n + 1 <=> i \in 1 .. n \/ i = n + 1
      OBVIOUS
    <2>5. CASE SavedKeys[n + 1][2] = w
      <3>1. After(o[v], s, w) = new
        BY DEF new
      <3>2. After(new, s, w) = new
        BY <1>7, <2>1, <2>5
      <3> QED BY <2>2, <2>3, <2>4, <2>5, <3>1, <3>2
    <2>6. CASE SavedKeys[n + 1][2] # w
      BY <2>2, <2>3, <2>4, <2>6
    <2> QED BY <2>5, <2>6
  <1> HIDE DEF S
  <1>10. Nat \subseteq S
    BY <1>8, <1>9, Induction
  <1>11. 39 \in S
    BY <1>10
  <1>12. g[39][v] = IF \E i \in 1 .. 39 : SavedKeys[i][2] = w THEN new ELSE o[v]
    BY <1>11 DEF S
  <1> QED BY <1>4, <1>12 DEF lines, w, new
LEMMA MidiidPrinted ==
  ASSUME NEW s, Typed(s.opt)
  PROVE  /\ s.opt["midiid"] \in Seq(STRING)
         /\ Words(s, "midiid") = s.opt["midiid"]
  <1>1. "midiid" \in Options /\ "midiid" \in Given /\ "midiid" \in Texts
    BY OptionNames DEF Given, Texts
  <1>2. s.opt["midiid"] \in Seq(STRING)
    BY <1>1, Types DEF Typed
  <1>3. s.opt["midiid"] # NULL
    BY <1>2, TextsAssumption
  <1>4. Words(s, "midiid") = Printed(s.opt, "midiid")
    BY <1>1, WordsPrinted
  <1>5. Printed(s.opt, "midiid") = s.opt["midiid"]
    BY <1>1, <1>3, PrintedText
  <1> QED BY <1>2, <1>4, <1>5

\* The port of the saved session, or the one that was there.
Port(old, s) == IF s.opt["midiid"] = <<>> THEN old ELSE <<Head(s.opt["midiid"])>>

LEMMA LineSync ==
  ASSUME NEW o, DOMAIN o = Options, NEW s, Typed(s.opt), NEW i \in 1 .. 39
  PROVE  LET p == parseoption(o, saveconfig(s)[i])
             n == psync(s.source)
         IN  /\ p["use_jack"] = IF i = 20 THEN n # 0 ELSE o["use_jack"]
             /\ p["use_ltc"] = IF i = 20 THEN n = 3 ELSE o["use_ltc"]
             /\ p["midiid"] = IF i = 20 THEN IF n \in {0, 1, 3} THEN <<"-2">> ELSE o["midiid"]
                              ELSE IF i = 16 THEN Port(o["midiid"], s) ELSE o["midiid"]
  <1> DEFINE p == parseoption(o, saveconfig(s)[i])
             n == psync(s.source)
             w == SavedKeys[i][2]
  <1>1. {"use_jack", "use_ltc", "midiid"} \subseteq Options \ WindowOptions
    BY OptionNames DEF WindowOptions
  <1>2. CASE w = "source"
    <2>1. p = syncsource(o, n)
      BY <1>2, LineSource
    <2>2. i = 20
      BY <1>2, SavedNames
    <2> HIDE DEF p, n
    <2> QED BY <2>1, <2>2, SyncsourceFacts DEF p, n
  <1>3. CASE w \in DOMAIN Place
    <2>1. p["use_jack"] = o["use_jack"]
      BY <1>1, <1>3, LinePlace
    <2>2. p["use_ltc"] = o["use_ltc"]
      BY <1>1, <1>3, LinePlace
    <2>3. p["midiid"] = o["midiid"]
      BY <1>1, <1>3, LinePlace
    <2>4. i # 20 /\ i # 16
      BY <1>3, PlaceNames, SavedNames
    <2> QED BY <2>1, <2>2, <2>3, <2>4
  <1>4. CASE w \in Named
    <2> DEFINE x == Stored(ReaderOf(w), o[To(w)], Head(Words(s, w)))
    <2>1. p = IF Words(s, w) = <<>> THEN o ELSE [o EXCEPT ![To(w)] = x]
      <3>1. SavedKeys[i][2] \in Named
        BY <1>4
      <3>2. WithLine(p, o, s, w)
        BY <3>1, LineNamed
      <3> QED BY <3>2 DEF WithLine
    <2>2. To(w) \in Options /\ w # "source"
      BY <1>4, NamedReaders
    <2>3. i # 20 /\ (i = 16 <=> w = "midiid")
      BY <2>2, SavedNames
    <2>4. To(w) \notin {"use_jack", "use_ltc"} /\ (To(w) = "midiid" <=> w = "midiid")
      BY <1>4 DEF Named, Kept, To
    <2> HIDE DEF w
    <2>5. CASE w = "midiid"
      <3>1. Words(s, w) = s.opt["midiid"] /\ To(w) = "midiid"
        BY <2>4, <2>5, MidiidPrinted
      <3>2. ReaderOf(w) = "text"
        BY <2>5, ReaderNames DEF Texts
      <3>3. x = <<Head(s.opt["midiid"])>>
        BY <3>1, <3>2 DEF Stored
      <3> HIDE DEF x
      <3>4. p["midiid"] = IF s.opt["midiid"] = <<>> THEN o["midiid"] ELSE x
        BY <1>1, <2>1, <3>1
      <3>5. p["use_jack"] = o["use_jack"] /\ p["use_ltc"] = o["use_ltc"]
        BY <1>1, <2>1, <3>1
      <3> QED BY <2>3, <2>5, <3>3, <3>4, <3>5 DEF Port
    <2>6. CASE w # "midiid"
      <3> HIDE DEF x
      <3>1. p["use_jack"] = o["use_jack"] /\ p["use_ltc"] = o["use_ltc"]
        BY <1>1, <2>1, <2>2, <2>4
      <3>2. p["midiid"] = o["midiid"]
        BY <1>1, <2>1, <2>2, <2>4, <2>6
      <3> QED BY <2>3, <2>6, <3>1, <3>2
    <2> QED BY <2>5, <2>6
  <1>5. w \in Named \cup {"source"} \cup DOMAIN Place
    BY SavedNames, PlaceNames DEF Named
  <1> QED BY <1>2, <1>3, <1>4, <1>5

LEMMA SyncBack ==
  ASSUME NEW o, Typed(o), NEW s, Typed(s.opt)
  PROVE  LET r == readconfig(o, saveconfig(s))
             n == psync(s.source)
         IN  /\ r["use_jack"] = (n # 0)
             /\ r["use_ltc"] = (n = 3)
             /\ r["midiid"] = IF n \in {0, 1, 3} THEN <<"-2">> ELSE Port(o["midiid"], s)
  <1> DEFINE lines == saveconfig(s)
             n == psync(s.source)
             port == Port(o["midiid"], s)
  <1>1. IsSeq(lines) /\ Len(lines) = 39 /\ DOMAIN lines = 1 .. 39
    BY SavedLength
  <1>2. \A i \in DOMAIN lines : LineTyped(lines[i])
    BY <1>1, SavedLineTyped
  <1> HIDE DEF lines
  <1>3. PICK g : Reads(g, o, lines)
    BY <1>1, ReadingSteps, Zenon
  <1>4. /\ g[0] = o /\ readconfig(o, lines) = g[39]
        /\ \A i \in 1 .. 39 : g[i] = parseoption(g[i - 1], lines[i])
    BY <1>1, <1>3 DEF Reads
  <1>5. \A i \in 0 .. 39 : Typed(g[i])
    BY <1>1, <1>2, <1>3, ReadsTyped
  <1>6. \A i \in 1 .. 39 :
          /\ g[i]["use_jack"] = IF i = 20 THEN n # 0 ELSE g[i - 1]["use_jack"]
          /\ g[i]["use_ltc"] = IF i = 20 THEN n = 3 ELSE g[i - 1]["use_ltc"]
          /\ g[i]["midiid"] =
               IF i = 20 THEN IF n \in {0, 1, 3} THEN <<"-2">> ELSE g[i - 1]["midiid"]
               ELSE IF i = 16 THEN Port(g[i - 1]["midiid"], s) ELSE g[i - 1]["midiid"]
    <2> TAKE i \in 1 .. 39
    <2> DEFINE p == g[i - 1]
    <2>1. DOMAIN p = Options
      BY <1>5 DEF Typed
    <2>2. g[i] = parseoption(p, saveconfig(s)[i])
      BY <1>4 DEF lines
    <2> HIDE DEF p
    <2> QED BY <2>1, <2>2, LineSync DEF p
  <1> HIDE DEF n
  <1> DEFINE S == {m \in Nat : m <= 39 =>
                     /\ m < 16 => g[m]["midiid"] = o["midiid"]
                     /\ m >= 16 /\ m < 20 => g[m]["midiid"] = port
                     /\ m >= 20 => /\ g[m]["use_jack"] = (n # 0) /\ g[m]["use_ltc"] = (n = 3)
                                   /\ g[m]["midiid"] =
                                        IF n \in {0, 1, 3} THEN <<"-2">> ELSE port}
  <1>8. 0 \in S
    BY <1>4
  <1>9. ASSUME NEW m \in Nat, m \in S PROVE m + 1 \in S
    <2> SUFFICES ASSUME m + 1 <= 39
                 PROVE  /\ m + 1 < 16 => g[m + 1]["midiid"] = o["midiid"]
                        /\ m + 1 >= 16 /\ m + 1 < 20 => g[m + 1]["midiid"] = port
                        /\ m + 1 >= 20 =>
                             /\ g[m + 1]["use_jack"] = (n # 0)
                             /\ g[m + 1]["use_ltc"] = (n = 3)
                             /\ g[m + 1]["midiid"] = IF n \in {0, 1, 3} THEN <<"-2">> ELSE port
      OBVIOUS
    <2>1. m + 1 \in 1 .. 39 /\ (m + 1) - 1 = m /\ m <= 39
      OBVIOUS
    <2>2. /\ m < 16 => g[m]["midiid"] = o["midiid"]
          /\ m >= 16 /\ m < 20 => g[m]["midiid"] = port
          /\ m >= 20 => /\ g[m]["use_jack"] = (n # 0) /\ g[m]["use_ltc"] = (n = 3)
                        /\ g[m]["midiid"] = IF n \in {0, 1, 3} THEN <<"-2">> ELSE port
      BY <1>9, <2>1
    <2>3. /\ g[m + 1]["use_jack"] = IF m + 1 = 20 THEN n # 0 ELSE g[m]["use_jack"]
          /\ g[m + 1]["use_ltc"] = IF m + 1 = 20 THEN n = 3 ELSE g[m]["use_ltc"]
          /\ g[m + 1]["midiid"] =
               IF m + 1 = 20 THEN IF n \in {0, 1, 3} THEN <<"-2">> ELSE g[m]["midiid"]
               ELSE IF m + 1 = 16 THEN Port(g[m]["midiid"], s) ELSE g[m]["midiid"]
      BY <1>6, <2>1
    <2>4. CASE m < 15
      BY <2>2, <2>3, <2>4
    <2>5. CASE m = 15
      BY <2>2, <2>3, <2>5
    <2>6. CASE m \in 16 .. 18
      BY <2>2, <2>3, <2>6
    <2>7. CASE m = 19
      BY <2>2, <2>3, <2>7
    <2>8. CASE m >= 20
      BY <2>2, <2>3, <2>8
    <2> QED BY <2>4, <2>5, <2>6, <2>7, <2>8
  <1> HIDE DEF S, port
  <1>10. Nat \subseteq S
    BY <1>8, <1>9, Induction
  <1>11. 39 \in S
    BY <1>10
  <1>12. /\ g[39]["use_jack"] = (n # 0) /\ g[39]["use_ltc"] = (n = 3)
         /\ g[39]["midiid"] = IF n \in {0, 1, 3} THEN <<"-2">> ELSE port
    BY <1>11 DEF S
  <1> QED BY <1>4, <1>12 DEF lines, n, port
-----------------------------------------------------------------------------
(* What start-up makes of the options it has read.                         *)

\* The options after the switches and, with --rc, the saved session.
Read(argv) ==
  IF decode_switches(preset, argv).load_rc
    THEN readconfig(decode_switches(preset, argv), file)
    ELSE decode_switches(preset, argv)

Opened(r) == open_movie(stat_osd_fontfile(r), movie(r))
Booted(r) == Unconnected(Fallback(Opened(r)))

LEMMA ConfiguredIsOpened ==
  ASSUME NEW argv
  PROVE  Configured(argv) = Opened(Read(argv))
  BY Zenon DEF Configured, Opened, Read

LEMMA OpenedFacts ==
  ASSUME NEW r, Typed(r)
  PROVE  /\ Typed(Opened(r))
         /\ Opened(r)["OSD_fontfile"] =
              IF r["OSD_fontfile"] \in Fonts THEN r["OSD_fontfile"] ELSE <<>>
         /\ Opened(r)["current_file"] = IF movie(r) \in Movies THEN movie(r) ELSE NULL
         /\ \A v \in Options \ {"OSD_fontfile", "current_file"} : Opened(r)[v] = r[v]
  <1> DEFINE f == stat_osd_fontfile(r)
             name == movie(r)
             p == Opened(r)
  <1>1. DOMAIN r = Options /\ \A v \in Options : HasType(v, r[v])
    BY DEF Typed
  <1>2. {"OSD_fontfile", "current_file"} \subseteq Options
    BY OptionNames
  <1>3. /\ DOMAIN f = Options
        /\ f["OSD_fontfile"] = IF r["OSD_fontfile"] \in Fonts THEN r["OSD_fontfile"] ELSE <<>>
        /\ \A v \in Options \ {"OSD_fontfile"} : f[v] = r[v]
    BY <1>1, <1>2 DEF stat_osd_fontfile
  <1>4. p = open_movie(f, name)
    BY DEF Opened
  <1> HIDE DEF f, name, p
  <1>5. /\ DOMAIN p = Options
        /\ p["current_file"] = IF name \in Movies THEN name ELSE NULL
        /\ \A v \in Options \ {"current_file"} : p[v] = f[v]
    BY <1>2, <1>3, <1>4 DEF open_movie
  <1>6. HasType("OSD_fontfile", p["OSD_fontfile"])
    <2>1. p["OSD_fontfile"] = r["OSD_fontfile"] \/ p["OSD_fontfile"] = <<>>
      BY <1>2, <1>3, <1>5
    <2>2. HasType("OSD_fontfile", <<>>)
      BY NoText, Types DEF Given
    <2> QED BY <1>1, <1>2, <2>1, <2>2
  <1>7. HasType("current_file", p["current_file"])
    <2>1. p["current_file"] = NULL \/ p["current_file"] \in Seq(STRING)
      BY <1>5, TextsAssumption
    <2> QED BY <2>1, Types DEF Absent
  <1>8. \A v \in Options \ {"OSD_fontfile", "current_file"} : p[v] = r[v]
    BY <1>3, <1>5
  <1>9. \A v \in Options : HasType(v, p[v])
    BY <1>1, <1>6, <1>7, <1>8
  <1>10. Typed(p)
    BY <1>5, <1>9 DEF Typed
  <1>11. p["OSD_fontfile"] = IF r["OSD_fontfile"] \in Fonts THEN r["OSD_fontfile"] ELSE <<>>
    BY <1>2, <1>3, <1>5
  <1> QED BY <1>5, <1>8, <1>10, <1>11 DEF p, name

LEMMA FirstMode == vidoutmode(0) = Min(Compiled) /\ Min(Compiled) \in Compiled
  <1>1. Compiled \subseteq Nat /\ Compiled # {} /\ 0 \notin Compiled
    BY SessionAssumption DEF Modes
  <1> QED BY <1>1, MinIsMember DEF vidoutmode

LEMMA FirstDisplay ==
  ASSUME works \subseteq Compiled
  PROVE  Min(works \cup {Modes + 1}) \in 1 .. Modes + 1
  <1>1. works \cup {Modes + 1} \subseteq 1 .. Modes + 1
    BY SessionAssumption DEF Modes
  <1>2. works \cup {Modes + 1} \subseteq Nat /\ works \cup {Modes + 1} # {}
    BY <1>1 DEF Modes
  <1>3. Min(works \cup {Modes + 1}) \in works \cup {Modes + 1}
    BY <1>2, MinIsMember
  <1> QED BY <1>1, <1>3

LEMMA FallbackFacts ==
  ASSUME works \subseteq Compiled, NEW o, Typed(o)
  PROVE  /\ Typed(Fallback(o))
         /\ \A v \in Options \ {"videomode"} : Fallback(o)[v] = o[v]
         /\ o["videomode"] # 0 \/ Min(Compiled) \in works => Fallback(o) = o
         /\ Fallback(o)["videomode"] # 0 \/ Min(Compiled) \in works
  <1> DEFINE first == Min(works \cup {Modes + 1})
  <1>1. DOMAIN o = Options /\ \A v \in Options : HasType(v, o[v])
    BY DEF Typed
  <1>2. "videomode" \in Options
    BY OptionNames
  <1>3. first \in 1 .. Modes + 1
    BY FirstDisplay
  <1>4. open_window(vidoutmode(0)) # VO_AUTO <=> Min(Compiled) \in works
    <2>1. Min(Compiled) \in 1 .. Modes
      BY FirstMode, SessionAssumption
    <2> QED BY <2>1, FirstMode DEF open_window, VO_AUTO, Modes
  <1>5. CASE o["videomode"] # 0 \/ Min(Compiled) \in works
    <2>1. Fallback(o) = o
      BY <1>4, <1>5 DEF Fallback
    <2> QED BY <2>1, <1>5
  <1>6. CASE o["videomode"] = 0 /\ Min(Compiled) \notin works
    <2>1. Fallback(o) = [o EXCEPT !["videomode"] = first]
      BY <1>4, <1>6 DEF Fallback
    <2> HIDE DEF first
    <2>2. HasType("videomode", first)
      BY <1>3, Types DEF Modes
    <2>3. first # 0
      BY <1>3
    <2>4. Typed(Fallback(o))
      BY <1>1, <1>2, <2>1, <2>2 DEF Typed
    <2>5. \A v \in Options \ {"videomode"} : Fallback(o)[v] = o[v]
      BY <1>1, <1>2, <2>1
    <2>6. Fallback(o)["videomode"] # 0
      BY <1>1, <1>2, <2>1, <2>3
    <2> QED BY <1>6, <2>4, <2>5, <2>6
  <1> QED BY <1>5, <1>6

LEMMA UnconnectedFacts ==
  ASSUME NEW o, Typed(o)
  PROVE  /\ Typed(Unconnected(o))
         /\ \A v \in Options \ {"midiid"} : Unconnected(o)[v] = o[v]
         /\ \/ Unconnected(o)["midiid"] = o["midiid"]
            \/ Unconnected(o)["midiid"] = <<>> /\ AtoiIsZero(o["midiid"])
  <1>1. DOMAIN o = Options /\ \A v \in Options : HasType(v, o[v])
    BY DEF Typed
  <1>2. "midiid" \in Options
    BY OptionNames
  <1>3. HasType("midiid", <<>>)
    BY NoText, Types DEF Given
  <1>4. CASE Unconnected(o) = o
    BY <1>4
  <1>5. CASE /\ AtoiIsZero(o["midiid"])
             /\ Unconnected(o) = [o EXCEPT !["midiid"] = <<>>]
    <2>1. Typed(Unconnected(o))
      BY <1>1, <1>2, <1>3, <1>5 DEF Typed
    <2>2. \A v \in Options \ {"midiid"} : Unconnected(o)[v] = o[v]
      BY <1>1, <1>2, <1>5
    <2>3. Unconnected(o)["midiid"] = <<>>
      BY <1>1, <1>2, <1>5
    <2> QED BY <1>5, <2>1, <2>2, <2>3
  <1> QED BY <1>4, <1>5 DEF Unconnected

\* Options that start-up sets after the files are read.
Late == {"OSD_fontfile", "current_file", "videomode", "midiid"}

LEMMA BootedFacts ==
  ASSUME works \subseteq Compiled, NEW r, Typed(r)
  PROVE  /\ Typed(Booted(r))
         /\ \A v \in Options \ Late : Booted(r)[v] = r[v]
         /\ Booted(r)["OSD_fontfile"] =
              IF r["OSD_fontfile"] \in Fonts THEN r["OSD_fontfile"] ELSE <<>>
         /\ Booted(r)["current_file"] = IF movie(r) \in Movies THEN movie(r) ELSE NULL
         /\ r["videomode"] # 0 \/ Min(Compiled) \in works =>
              Booted(r)["videomode"] = r["videomode"]
         /\ Booted(r)["videomode"] # 0 \/ Min(Compiled) \in works
         /\ \/ Booted(r)["midiid"] = r["midiid"]
            \/ Booted(r)["midiid"] = <<>> /\ AtoiIsZero(r["midiid"])
  <1> DEFINE a == Opened(r)
             b == Fallback(a)
             c == Unconnected(b)
  <1>1. Late \subseteq Options
    BY OptionNames DEF Late
  <1>2. /\ Typed(a)
        /\ a["OSD_fontfile"] = IF r["OSD_fontfile"] \in Fonts THEN r["OSD_fontfile"] ELSE <<>>
        /\ a["current_file"] = IF movie(r) \in Movies THEN movie(r) ELSE NULL
        /\ \A v \in Options \ {"OSD_fontfile", "current_file"} : a[v] = r[v]
    BY OpenedFacts
  <1> HIDE DEF a
  <1>3. /\ Typed(b) /\ \A v \in Options \ {"videomode"} : b[v] = a[v]
        /\ a["videomode"] # 0 \/ Min(Compiled) \in works => b = a
        /\ b["videomode"] # 0 \/ Min(Compiled) \in works
    BY <1>2, FallbackFacts
  <1> HIDE DEF b
  <1>4. /\ Typed(c) /\ \A v \in Options \ {"midiid"} : c[v] = b[v]
        /\ c["midiid"] = b["midiid"] \/ (c["midiid"] = <<>> /\ AtoiIsZero(b["midiid"]))
    BY <1>3, UnconnectedFacts
  <1> HIDE DEF c
  <1>5. a["videomode"] = r["videomode"] /\ a["midiid"] = r["midiid"] /\ b["midiid"] = a["midiid"]
    BY <1>1, <1>2, <1>3 DEF Late
  <1>6. \A v \in Options \ Late : c[v] = r[v]
    BY <1>2, <1>3, <1>4 DEF Late
  <1>7. c["OSD_fontfile"] = a["OSD_fontfile"] /\ c["current_file"] = a["current_file"]
    BY <1>1, <1>3, <1>4 DEF Late
  <1>8. c["videomode"] = b["videomode"]
    BY <1>1, <1>4 DEF Late
  <1>9. /\ r["videomode"] # 0 \/ Min(Compiled) \in works => c["videomode"] = r["videomode"]
        /\ c["videomode"] # 0 \/ Min(Compiled) \in works
    BY <1>3, <1>5, <1>8
  <1>10. Booted(r) = c
    BY DEF Booted, a, b, c
  <1> QED BY <1>2, <1>4, <1>5, <1>6, <1>7, <1>9, <1>10
LEMMA DriverIsOne ==
  ASSUME NEW o
  PROVE  Driver(o) \in Drivers
  <1>1. CASE \E d \in Drivers : o.midi_driver = <<d>>
    <2>1. PICK d \in Drivers : o.midi_driver = <<d>>
      BY <1>1
    <2>2. Driver(o) = o.midi_driver[1]
      BY <1>1 DEF Driver
    <2>3. o.midi_driver[1] = d
      BY <2>1
    <2> QED BY <2>2, <2>3
  <1>2. CASE ~ \E d \in Drivers : o.midi_driver = <<d>>
    <2>1. Driver(o) = JACK_MIDI
      BY <1>2 DEF Driver
    <2> QED BY <2>1 DEF Drivers
  <1> QED BY <1>1, <1>2

LEMMA TriedIsSource ==
  ASSUME NEW o
  PROVE  Tried(o) \in Sources
  BY DriverIsOne DEF Tried, Sources

LEMMA DisplayIsOne ==
  ASSUME works \subseteq Compiled
  PROVE  /\ \A m : open_window(m) \in Displays
         /\ \A o : Display(o) \in Displays
  <1>1. \A m : open_window(m) \in Displays
    <2> TAKE m
    <2>1. works \subseteq Displays /\ VO_AUTO \in Displays
      BY SessionAssumption DEF VO_AUTO, Displays, Modes
    <2> QED BY <2>1 DEF open_window
  <1>2. Min(works \cup {Modes + 1}) % (Modes + 1) \in Displays
    BY FirstDisplay DEF Displays, Modes
  <1> QED BY <1>1, <1>2 DEF Display

-----------------------------------------------------------------------------
(* The inductive invariant: the file is what saveconfig made of the saved  *)
(* session, which is like that of a running program.                       *)

\* What start-up has looked for is there.
Settled(o) ==
  /\ o["OSD_fontfile"] \in Fonts \cup {<<>>}
  /\ o["current_file"] \in Movies \cup {NULL}
  /\ o["videomode"] # 0 \/ Min(Compiled) \in works

WindowOK == window \in [ontop : BOOLEAN, full : BOOLEAN]

SavedOK ==
  /\ Typed(saved.opt) /\ saved.ontop \in BOOLEAN /\ saved.full \in BOOLEAN
  /\ file = <<>> \/ file = saveconfig(saved)
  /\ file # <<>> => saved.source \in {"jack", "ltc", JACK_MIDI} /\ Settled(saved.opt)

SessionInv ==
  /\ TypeOK
  /\ etc \in RcFiles /\ works \subseteq Compiled
  /\ running \in BOOLEAN /\ restored \in BOOLEAN /\ changes \in Nat
  /\ WindowOK
  /\ running => Settled(opt)
  /\ SavedOK

LEMMA InitInv == Init => SessionInv
  <1> SUFFICES ASSUME Init PROVE SessionInv
    OBVIOUS
  <1>1. TypeOK
    <2>1. Typed(opt)
      BY DefaultsTyped DEF Init
    <2>2. {source, tried} \subseteq Sources /\ driver \in Drivers
      BY DEF Init, Sources, Drivers
    <2>3. vout \in Displays /\ (running /\ vout = VO_AUTO => opt.remote_en \/ changes > 0)
      BY DEF Init, Displays, VO_AUTO, Modes
    <2> QED BY <2>1, <2>2, <2>3 DEF TypeOK
  <1>2. SavedOK
    BY DefaultsTyped DEF Init, SavedOK
  <1>3. WindowOK
    BY DEF Init, WindowOK
  <1>4. /\ etc \in RcFiles /\ works \subseteq Compiled
        /\ running \in BOOLEAN /\ restored \in BOOLEAN /\ changes \in Nat /\ ~running
    BY DEF Init
  <1> QED BY <1>1, <1>2, <1>3, <1>4 DEF SessionInv

LEMMA PresetTyped ==
  ASSUME etc \in RcFiles
  PROVE  Typed(preset)
  BY DefaultsTyped, ReadTyped, RcAssumption DEF preset

LEMMA ReadIsTyped ==
  ASSUME SessionInv, NEW argv, IsSeq(argv), \A i \in DOMAIN argv : SwitchTyped(argv[i])
  PROVE  Typed(Read(argv))
  <1> DEFINE o == decode_switches(preset, argv)
  <1>1. Typed(preset)
    BY PresetTyped DEF SessionInv
  <1>2. Typed(o)
    BY <1>1, DecodedTyped
  <1> HIDE DEF o
  <1>3. IsSeq(file) /\ \A i \in DOMAIN file : LineTyped(file[i])
    <2>1. CASE file = <<>>
      BY <2>1 DEF IsSeq
    <2>2. CASE file = saveconfig(saved)
      BY <2>2, SavedLength, SavedLineTyped DEF SessionInv, SavedOK
    <2> QED BY <2>1, <2>2 DEF SessionInv, SavedOK
  <1>4. Typed(readconfig(o, file))
    BY <1>2, <1>3, ReadTyped
  <1> QED BY <1>2, <1>4 DEF Read, o

LEMMA MainStep ==
  ASSUME SessionInv, NEW argv, IsSeq(argv), \A i \in DOMAIN argv : SwitchTyped(argv[i]),
         main(argv), restored' \in BOOLEAN
  PROVE  SessionInv' /\ opt' = Booted(Read(argv))
  <1> DEFINE r == Read(argv)
             o == Opened(r)
  <1>1. Typed(r) /\ works \subseteq Compiled
    BY ReadIsTyped DEF SessionInv
  <1>2. opt' = Booted(r) /\ vout' = Display(o)
    BY ConfiguredIsOpened DEF main, Booted
  <1> HIDE DEF r, o
  <1>3. Typed(opt')
    BY <1>1, <1>2, BootedFacts
  <1>4. Settled(opt')
    BY <1>1, <1>2, BootedFacts DEF Settled
  <1>5. vout' \in Displays
    BY <1>1, <1>2, DisplayIsOne
  <1>6. /\ running' = (vout' # VO_AUTO \/ opt'.remote_en)
        /\ driver' = Driver(opt') /\ tried' = Tried(opt')
        /\ source' \in IF running' THEN {tried', "none"} ELSE {"none"}
        /\ window' = [ontop |-> opt'.start_ontop, full |-> opt'.start_fullscreen]
        /\ UNCHANGED <<world, file, saved, changes>>
    BY DEF main
  <1>7. driver' \in Drivers /\ tried' \in Sources
    BY <1>6, DriverIsOne, TriedIsSource
  <1>8. {source, tried}' \subseteq Sources
    BY <1>6, <1>7 DEF Sources
  <1>9. /\ HasType("start_ontop", opt'["start_ontop"])
        /\ HasType("start_fullscreen", opt'["start_fullscreen"])
        /\ HasType("remote_en", opt'["remote_en"])
    BY <1>3, OptionNames DEF Typed
  <1>10. /\ opt'["start_ontop"] \in BOOLEAN /\ opt'["start_fullscreen"] \in BOOLEAN
         /\ opt'["remote_en"] \in BOOLEAN
    BY <1>9, Types DEF Flags
  <1>11. WindowOK'
    BY <1>6, <1>10 DEF WindowOK
  <1>12. running' \in BOOLEAN
    BY <1>6
  <1>13. TypeOK'
    BY <1>3, <1>5, <1>6, <1>7, <1>8 DEF TypeOK
  <1>14. SavedOK'
    BY <1>6 DEF SessionInv, SavedOK, world, Settled
  <1>15. Settled(opt)'
    BY <1>4, <1>6 DEF Settled, world
  <1>16. etc' \in RcFiles /\ works' \subseteq Compiled /\ changes' \in Nat
    BY <1>6 DEF SessionInv, world
  <1>17. SessionInv'
    BY <1>11, <1>12, <1>13, <1>14, <1>15, <1>16 DEF SessionInv
  <1> QED BY <1>2, <1>17 DEF r
\* The command line of a restored session.
LEMMA RestoreLine ==
  LET argv == <<Switch("U"), Switch("r")>>
  IN  IsSeq(argv) /\ \A i \in DOMAIN argv : SwitchTyped(argv[i])
  <1> DEFINE argv == <<Switch("U"), Switch("r")>>
  <1>1. SwitchTyped(Switch("U")) /\ SwitchTyped(Switch("r"))
    BY SwitchNames DEF SwitchTyped, Switch
  <1>2. Len(argv) = 2 /\ DOMAIN argv = 1 .. 2 /\ argv[1] = Switch("U") /\ argv[2] = Switch("r")
    OBVIOUS
  <1>3. IsSeq(argv)
    BY <1>2 DEF IsSeq
  <1> HIDE DEF argv
  <1>4. \A i \in DOMAIN argv : SwitchTyped(argv[i])
    BY <1>1, <1>2
  <1> QED BY <1>3, <1>4 DEF argv

\* What a handler leaves alone needs no proof.
LEMMA HandlerStep ==
  ASSUME SessionInv, Handler, Typed(opt'), Settled(opt'), driver' \in Drivers,
         source' \in Sources, vout' \in Displays, WindowOK'
  PROVE  SessionInv'
  <1>1. /\ running /\ changes' = changes + 1 /\ restored' = FALSE
        /\ UNCHANGED <<world, running, tried, file, saved, starts>>
    BY DEF Handler
  <1>2. changes \in Nat /\ tried \in Sources
    BY DEF SessionInv, TypeOK
  <1>3. changes' \in Nat /\ changes' > 0
    BY <1>1, <1>2
  <1>4. {source, tried}' \subseteq Sources
    BY <1>1, <1>2
  <1>5. TypeOK'
    BY <1>3, <1>4 DEF TypeOK
  <1>6. SavedOK'
    BY <1>1 DEF SessionInv, SavedOK, world, Settled
  <1>7. Settled(opt)'
    BY <1>1 DEF Settled, world
  <1>8. /\ etc' \in RcFiles /\ works' \subseteq Compiled
        /\ running' \in BOOLEAN /\ restored' \in BOOLEAN
    BY <1>1 DEF SessionInv, world
  <1> QED BY <1>3, <1>5, <1>6, <1>7, <1>8 DEF SessionInv

\* Setting one option that start-up does not look at, or one that stays settled.
LEMMA SetKeeps ==
  ASSUME NEW o, Typed(o), NEW v \in Options, NEW x, HasType(v, x), Settled(o),
         v = "OSD_fontfile" => x \in Fonts,
         v = "current_file" => x \in Movies \cup {NULL},
         v # "videomode"
  PROVE  Typed([o EXCEPT ![v] = x]) /\ Settled([o EXCEPT ![v] = x])
  <1> DEFINE p == [o EXCEPT ![v] = x]
  <1>1. DOMAIN o = Options /\ \A w \in Options : HasType(w, o[w])
    BY DEF Typed
  <1>2. /\ DOMAIN p = Options /\ p[v] = x
        /\ \A w \in Options \ {v} : p[w] = o[w]
    BY <1>1
  <1> HIDE DEF p
  <1>3. Typed(p)
    BY <1>1, <1>2 DEF Typed
  <1>4. {"OSD_fontfile", "current_file", "videomode"} \subseteq Options
    BY OptionNames
  <1>5. p["videomode"] = o["videomode"]
    BY <1>2, <1>4
  <1>6. p["OSD_fontfile"] \in Fonts \/ p["OSD_fontfile"] = o["OSD_fontfile"]
    BY <1>2, <1>4
  <1>7. p["current_file"] \in Movies \cup {NULL} \/ p["current_file"] = o["current_file"]
    BY <1>2, <1>4
  <1>8. Settled(p)
    BY <1>5, <1>6, <1>7 DEF Settled
  <1> QED BY <1>3, <1>8 DEF p

\* Two texts at once: OSD text and font also show it.
LEMMA ShowKeeps ==
  ASSUME NEW o, Typed(o), Settled(o), NEW v \in {"OSD_text", "OSD_fontfile"},
         NEW x \in Seq(STRING), v = "OSD_fontfile" => x \in Fonts,
         NEW p, p = [o EXCEPT ![v] = x, !["OSD_mode"] = o["OSD_mode"] \cup {OSD_TEXT}]
  PROVE  Typed(p) /\ Settled(p)
  <1> DEFINE m == o["OSD_mode"] \cup {OSD_TEXT}
             q == [o EXCEPT ![v] = x]
  <1>1. v \in Options /\ "OSD_mode" \in Options /\ v # "OSD_mode"
    BY OptionNames
  <1>2. HasType(v, x)
    BY Types DEF Given
  <1>3. Typed(q) /\ Settled(q)
    BY <1>1, <1>2, SetKeeps
  <1>4. DOMAIN o = Options /\ q["OSD_mode"] = o["OSD_mode"]
    BY <1>1 DEF Typed
  <1>5. p = [q EXCEPT !["OSD_mode"] = m]
    BY <1>1, <1>4
  <1>6. HasType("OSD_mode", m)
    <2>1. HasType("OSD_mode", o["OSD_mode"])
      BY <1>1 DEF Typed
    <2> QED BY <2>1, Types DEF Bits
  <1> DEFINE u == "OSD_mode"
  <1>7. /\ u \in Options /\ HasType(u, m) /\ p = [q EXCEPT ![u] = m]
        /\ u # "OSD_fontfile" /\ u # "current_file" /\ u # "videomode"
    BY <1>1, <1>5, <1>6
  <1> HIDE DEF q, m, u
  <1>8. Typed([q EXCEPT ![u] = m]) /\ Settled([q EXCEPT ![u] = m])
    BY <1>3, <1>7, SetKeeps
  <1> QED BY <1>7, <1>8
LEMMA NextInv == SessionInv /\ [Next]_vars => SessionInv'
  <1> SUFFICES ASSUME SessionInv, [Next]_vars PROVE SessionInv'
    OBVIOUS
  <1>1. CASE UNCHANGED vars
    BY <1>1 DEF vars, world, history, SessionInv, TypeOK, SavedOK, WindowOK, Settled
  <1>2. CASE Start
    <2>1. PICK argv \in CommandLines : main(argv) /\ restored' = FALSE
      BY <1>2 DEF Start
    <2>2. IsSeq(argv) /\ \A i \in DOMAIN argv : SwitchTyped(argv[i])
      BY SwitchesAssumption
    <2> QED BY <2>1, <2>2, MainStep
  <1>3. CASE Restore
    <2> DEFINE argv == <<Switch("U"), Switch("r")>>
    <2>1. main(argv) /\ restored' = TRUE
      BY <1>3 DEF Restore
    <2>2. IsSeq(argv) /\ \A i \in DOMAIN argv : SwitchTyped(argv[i])
      BY RestoreLine
    <2> HIDE DEF argv
    <2> QED BY <2>1, <2>2, MainStep
  <1>4. CASE jack_session_cb
    <2>1. /\ running /\ source \in {"jack", "ltc", JACK_MIDI}
          /\ \/ saved' = Current /\ file' = saveconfig(saved')
             \/ UNCHANGED <<file, saved>>
          /\ running' \in BOOLEAN /\ restored' = FALSE
          /\ UNCHANGED <<world, opt, driver, tried, source, vout, window, starts, changes>>
      BY <1>4 DEF jack_session_cb
    <2>2. Typed(opt) /\ Settled(opt) /\ WindowOK
      BY <2>1 DEF SessionInv, TypeOK
    <2>3. SavedOK'
      <3>1. CASE saved' = Current /\ file' = saveconfig(saved')
        <4>1. /\ saved'.opt = opt /\ saved'.source = source
              /\ saved'.ontop = Ontop /\ saved'.full = Full
          BY <3>1 DEF Current
        <4>2. Ontop \in BOOLEAN /\ Full \in BOOLEAN
          BY DEF Ontop, Full
        <4>3. Settled(saved.opt)'
          BY <2>1, <2>2, <4>1 DEF Settled, world
        <4> QED BY <2>1, <2>2, <3>1, <4>1, <4>2, <4>3 DEF SavedOK
      <3>2. CASE UNCHANGED <<file, saved>>
        BY <2>1, <3>2 DEF SessionInv, SavedOK, Settled, world
      <3> QED BY <2>1, <3>1, <3>2
    <2>4. TypeOK'
      BY <2>1 DEF SessionInv, TypeOK
    <2>5. Settled(opt)' /\ WindowOK'
      BY <2>1, <2>2 DEF Settled, WindowOK, world
    <2>6. /\ etc' \in RcFiles /\ works' \subseteq Compiled
          /\ restored' \in BOOLEAN /\ changes' \in Nat
      BY <2>1 DEF SessionInv, world
    <2> QED BY <2>1, <2>3, <2>4, <2>5, <2>6 DEF SessionInv
  <1>5. CASE Quit
    <2>1. /\ running' = FALSE /\ restored' = FALSE
          /\ UNCHANGED <<world, opt, driver, tried, source, vout, window, file, saved,
                         starts, changes>>
      BY <1>5 DEF Quit
    <2>2. TypeOK'
      BY <2>1 DEF SessionInv, TypeOK
    <2>3. SavedOK' /\ WindowOK'
      BY <2>1 DEF SessionInv, SavedOK, WindowOK, Settled, world
    <2> QED BY <2>1, <2>2, <2>3 DEF SessionInv, world
  <1> USE DEF sameSource, sameWindow
  <1>6. /\ Typed(opt) /\ WindowOK /\ driver \in Drivers /\ source \in Sources /\ vout \in Displays
        /\ works \subseteq Compiled
        /\ UNCHANGED window => WindowOK'
    BY DEF SessionInv, TypeOK, WindowOK
  <1>7. Handler => Settled(opt)
    BY DEF Handler, SessionInv
  <1>8. CASE SetOption
    <2>0. PICK v \in DOMAIN Values : \E x \in Values[v] : opt' = [opt EXCEPT ![v] = x]
      BY <1>8 DEF SetOption
    <2>1. PICK x \in Values[v] : opt' = [opt EXCEPT ![v] = x]
      BY <2>0
    <2>2. v \in Settable /\ HasType(v, x)
      BY ValuesAssumption
    <2>3. /\ v \in Options
          /\ v # "OSD_fontfile" /\ v # "current_file" /\ v # "videomode"
      BY <2>2, OptionNames DEF Settable
    <2>4. Typed(opt') /\ Settled(opt')
      BY <1>6, <1>7, <1>8, <2>1, <2>2, <2>3, SetKeeps DEF SetOption
    <2> QED BY <1>6, <1>8, <2>4, HandlerStep DEF SetOption
  <1>9. CASE Load
    <2>1. PICK name \in Movies \cup {NULL} : opt' = open_movie(opt, name)
      BY <1>9 DEF Load
    <2> DEFINE x == IF name \in Movies THEN name ELSE NULL
               u == "current_file"
    <2>2. opt' = [opt EXCEPT ![u] = x]
      BY <2>1 DEF open_movie
    <2>3. x \in Movies \cup {NULL} /\ HasType(u, x)
      BY TextsAssumption, Types DEF Absent
    <2>4. u \in Options /\ u # "OSD_fontfile" /\ u # "videomode"
      BY OptionNames
    <2> HIDE DEF x, u
    <2>5. Typed(opt') /\ Settled(opt')
      BY <1>6, <1>7, <1>9, <2>2, <2>3, <2>4, SetKeeps DEF Load
    <2> QED BY <1>6, <1>9, <2>5, HandlerStep DEF Load
  <1>10. CASE OsdText
    <2>1. PICK t \in Captions :
            opt' = [opt EXCEPT !["OSD_text"] = t, !["OSD_mode"] = opt["OSD_mode"] \cup {OSD_TEXT}]
      BY <1>10, Zenon DEF OsdText
    <2>2. t \in Seq(STRING)
      BY TextsAssumption
    <2> DEFINE u == "OSD_text"
    <2>3. u \in {"OSD_text", "OSD_fontfile"} /\ u # "OSD_fontfile"
      OBVIOUS
    <2>4. opt' = [opt EXCEPT ![u] = t, !["OSD_mode"] = opt["OSD_mode"] \cup {OSD_TEXT}]
      BY <2>1
    <2> HIDE DEF u
    <2>5. Typed(opt') /\ Settled(opt')
      BY <1>6, <1>7, <1>10, <2>2, <2>3, <2>4, ShowKeeps DEF OsdText
    <2> QED BY <1>6, <1>10, <2>5, HandlerStep DEF OsdText
  <1>11. CASE OsdFont
    <2>1. PICK f \in Fonts :
            opt' = [opt EXCEPT !["OSD_fontfile"] = f, !["OSD_mode"] = opt["OSD_mode"] \cup {OSD_TEXT}]
      BY <1>11, Zenon DEF OsdFont
    <2>2. f \in Seq(STRING)
      BY TextsAssumption
    <2> DEFINE u == "OSD_fontfile"
    <2>3. u \in {"OSD_text", "OSD_fontfile"}
      OBVIOUS
    <2>4. opt' = [opt EXCEPT ![u] = f, !["OSD_mode"] = opt["OSD_mode"] \cup {OSD_TEXT}]
      BY <2>1
    <2> HIDE DEF u
    <2>5. Typed(opt') /\ Settled(opt')
      BY <1>6, <1>7, <1>11, <2>2, <2>3, <2>4, ShowKeeps DEF OsdFont
    <2> QED BY <1>6, <1>11, <2>5, HandlerStep DEF OsdFont
  <1>12. CASE SyncTo
    <2>1. Handler /\ source' \in {"jack", "ltc", "none"} /\ UNCHANGED <<opt, driver, vout, window>>
      BY <1>12 DEF SyncTo
    <2>2. source' \in Sources /\ Typed(opt') /\ Settled(opt')
      BY <1>6, <1>7, <2>1 DEF Sources
    <2> QED BY <1>6, <2>1, <2>2, HandlerStep
  <1>13. CASE MidiConnect
    <2>1. PICK d \in Drivers, port \in MidiPorts :
            /\ driver' = d
            /\ \/ source' = d /\ opt' = [opt EXCEPT !["midiid"] = port]
               \/ source' = "none" /\ UNCHANGED opt
      BY <1>13 DEF MidiConnect
    <2>2. source' \in Sources /\ driver' \in Drivers
      BY <2>1 DEF Sources
    <2> DEFINE u == "midiid"
    <2>3. u \in Options /\ u # "OSD_fontfile" /\ u # "current_file" /\ u # "videomode"
      BY OptionNames
    <2>4. HasType(u, port)
      BY TextsAssumption, Types DEF Given
    <2>5. opt' = [opt EXCEPT ![u] = port] \/ opt' = opt
      BY <2>1
    <2> HIDE DEF u
    <2>6. Typed(opt') /\ Settled(opt')
      BY <1>6, <1>7, <1>13, <2>3, <2>4, <2>5, SetKeeps DEF MidiConnect
    <2> QED BY <1>6, <1>13, <2>2, <2>6, HandlerStep DEF MidiConnect
  <1>14. CASE MidiMenu
    <2>1. /\ Handler /\ driver' \in Drivers /\ source' \in {driver', "none"}
          /\ UNCHANGED <<opt, vout, window>>
      BY <1>14 DEF MidiMenu
    <2>2. source' \in Sources /\ Typed(opt') /\ Settled(opt')
      BY <1>6, <1>7, <2>1 DEF Sources
    <2> QED BY <1>6, <2>1, <2>2, HandlerStep
  <1>15. CASE WindowClose
    <2>1. Handler /\ vout' = VO_AUTO /\ UNCHANGED <<opt, window, driver, source>>
      BY <1>15 DEF WindowClose
    <2>2. vout' \in Displays /\ Typed(opt') /\ Settled(opt')
      BY <1>6, <1>7, <2>1 DEF VO_AUTO, Displays, Modes
    <2> QED BY <1>6, <2>1, <2>2, HandlerStep
  <1>16. CASE WindowMode
    <2>1. /\ Handler /\ UNCHANGED <<opt, driver, source>>
          /\ \E m \in {0} \cup Compiled : vout' = open_window(vidoutmode(m))
          /\ window' = [ontop |-> opt.start_ontop, full |-> opt.start_fullscreen]
      BY <1>16 DEF WindowMode
    <2>2. vout' \in Displays
      BY <1>6, <2>1, DisplayIsOne
    <2>3. HasType("start_ontop", opt["start_ontop"])
          /\ HasType("start_fullscreen", opt["start_fullscreen"])
      BY <1>6, OptionNames DEF Typed
    <2>4. opt["start_ontop"] \in BOOLEAN /\ opt["start_fullscreen"] \in BOOLEAN
      BY <2>3, Types DEF Flags
    <2>5. WindowOK'
      BY <2>1, <2>4 DEF WindowOK
    <2>6. Typed(opt') /\ Settled(opt')
      BY <1>6, <1>7, <2>1
    <2> QED BY <1>6, <2>1, <2>2, <2>5, <2>6, HandlerStep
  <1>17. CASE WindowState
    <2>1. /\ Handler /\ UNCHANGED <<opt, vout, driver, source>>
          /\ window' = [window EXCEPT !.ontop = ~@] \/ window' = [window EXCEPT !.full = ~@]
      BY <1>17 DEF WindowState
    <2>2. WindowOK'
      BY <1>6, <2>1 DEF WindowOK
    <2>3. Typed(opt') /\ Settled(opt')
      BY <1>6, <1>7, <2>1
    <2> QED BY <1>6, <2>1, <2>2, <2>3, HandlerStep
  <1> QED BY <1>1, <1>2, <1>3, <1>4, <1>5, <1>8, <1>9, <1>10, <1>11, <1>12, <1>13, <1>14,
             <1>15, <1>16, <1>17 DEF Next
-----------------------------------------------------------------------------
(* What a restored session has read.                                       *)

RestoreArgs == <<Switch("U"), Switch("r")>>

LEMMA PlainSwitch ==
  ASSUME NEW o, NEW s, s.c \in DOMAIN Plain \ {"q"}
  PROVE  switch(o, s) = [o EXCEPT ![Plain[s.c]] = TRUE]
  BY SwitchNames DEF switch

LEMMA RestoreDecoded ==
  ASSUME NEW o, Typed(o)
  PROVE  LET d == decode_switches(o, RestoreArgs)
         IN  /\ d["load_rc"] = TRUE /\ d["jack_uuid"] = TRUE
             /\ \A v \in Options \ {"load_rc", "jack_uuid"} : d[v] = o[v]
  <1> DEFINE d == decode_switches(o, RestoreArgs)
  <1>1. /\ IsSeq(RestoreArgs) /\ Len(RestoreArgs) = 2
        /\ RestoreArgs[1] = Switch("U") /\ RestoreArgs[2] = Switch("r")
    BY RestoreLine DEF RestoreArgs
  <1>2. PICK g : Decodes(g, o, RestoreArgs)
    BY <1>1, DecodingSteps, Zenon
  <1>3. /\ g[0] = o /\ d = g[2]
        /\ \A n \in 1 .. 2 : g[n] = switch(g[n - 1], RestoreArgs[n])
    BY <1>1, <1>2 DEF Decodes
  <1>4. g[1] = switch(o, Switch("U")) /\ g[2] = switch(g[1], Switch("r"))
    <2>1. 1 \in 1 .. 2 /\ 2 \in 1 .. 2 /\ 1 - 1 = 0 /\ 2 - 1 = 1
      OBVIOUS
    <2> QED BY <1>1, <1>3, <2>1
  <1>5. "load_rc" \in Options /\ "jack_uuid" \in Options /\ DOMAIN o = Options
    BY OptionNames DEF Typed
  <1>6. /\ Switch("U").c = "U" /\ Switch("r").c = "r"
        /\ Switch("U").c \in DOMAIN Plain \ {"q"} /\ Switch("r").c \in DOMAIN Plain \ {"q"}
    BY SwitchNames DEF Switch
  <1>7. Plain["U"] = "jack_uuid" /\ Plain["r"] = "load_rc"
    BY DEF Plain
  <1>8. g[1] = [o EXCEPT !["jack_uuid"] = TRUE]
    <2>1. switch(o, Switch("U")) = [o EXCEPT ![Plain[Switch("U").c]] = TRUE]
      BY <1>6, PlainSwitch
    <2> QED BY <1>4, <1>6, <1>7, <2>1
  <1>9. d = [g[1] EXCEPT !["load_rc"] = TRUE]
    <2>1. switch(g[1], Switch("r")) = [g[1] EXCEPT ![Plain[Switch("r").c]] = TRUE]
      BY <1>6, PlainSwitch
    <2> QED BY <1>3, <1>4, <1>6, <1>7, <2>1
  <1> HIDE DEF d
  <1>10. /\ DOMAIN g[1] = Options /\ g[1]["jack_uuid"] = TRUE
         /\ \A v \in Options \ {"jack_uuid"} : g[1][v] = o[v]
    BY <1>5, <1>8
  <1>11. /\ d["load_rc"] = TRUE /\ d["jack_uuid"] = TRUE
         /\ \A v \in Options \ {"load_rc", "jack_uuid"} : d[v] = o[v]
    BY <1>5, <1>9, <1>10
  <1> QED BY <1>11 DEF d

LEMMA KeptOthers ==
  /\ Kept \subseteq Others /\ \A v \in Kept : From(v) = v
  /\ {"load_rc", "jack_uuid", "load_movie"} \subseteq Others
  /\ From("load_rc") = "load_rc" /\ From("jack_uuid") = "jack_uuid"
  /\ From("load_movie") = "current_file"
  <1>1. Kept \subseteq Options
    BY OptionNames DEF Kept
  <1>2. \A v \in Kept : v \notin {"use_jack", "use_ltc", "midiid", "current_file"} \cup WindowOptions
    BY DEF Kept, WindowOptions
  <1>3. \A v \in Kept : From(v) = v
    BY DEF Kept, From
  <1>4. {"load_rc", "jack_uuid", "load_movie"} \subseteq Others
    BY OptionNames DEF Others, WindowOptions
  <1> QED BY <1>1, <1>2, <1>3, <1>4 DEF Others, From

\* What was read when a session was restored.
LEMMA RestoredRead ==
  ASSUME SessionInv, Restore
  PROVE  LET r == Read(RestoreArgs)
             n == psync(saved.source)
         IN  /\ opt' = Booted(r) /\ Typed(r)
             /\ \A v \in Kept : r[v] = After(preset[v], saved, v)
             /\ r["load_rc"] = TRUE /\ r["jack_uuid"] = TRUE
             /\ r["load_movie"] = After(preset["load_movie"], saved, "current_file")
             /\ r["use_jack"] = (n # 0) /\ r["use_ltc"] = (n = 3)
             /\ r["midiid"] = IF n \in {0, 1, 3} THEN <<"-2">> ELSE Port(preset["midiid"], saved)
  <1> DEFINE d == decode_switches(preset, RestoreArgs)
             r == Read(RestoreArgs)
             n == psync(saved.source)
  <1>1. main(RestoreArgs) /\ restored' = TRUE /\ file = saveconfig(saved) /\ Typed(saved.opt)
    BY DEF Restore, RestoreArgs, SessionInv, SavedOK
  <1>2. IsSeq(RestoreArgs) /\ \A i \in DOMAIN RestoreArgs : SwitchTyped(RestoreArgs[i])
    BY RestoreLine DEF RestoreArgs
  <1>3. opt' = Booted(r)
    BY <1>1, <1>2, MainStep
  <1>4. Typed(preset)
    BY PresetTyped DEF SessionInv
  <1>5. Typed(d) /\ Typed(r)
    BY <1>2, <1>4, DecodedTyped, ReadIsTyped
  <1>6. /\ d["load_rc"] = TRUE /\ d["jack_uuid"] = TRUE
        /\ \A v \in Options \ {"load_rc", "jack_uuid"} : d[v] = preset[v]
    BY <1>4, RestoreDecoded
  <1>7. r = readconfig(d, saveconfig(saved))
    BY <1>1, <1>6 DEF Read
  <1> HIDE DEF d, r, n
  <1>8. \A v \in Others :
          r[v] = IF \E i \in 1 .. 39 : SavedKeys[i][2] = From(v)
                 THEN After(d[v], saved, From(v)) ELSE d[v]
    BY <1>1, <1>5, <1>7, ReadBack
  <1>9. \A v \in Kept : r[v] = After(preset[v], saved, v)
    <2> TAKE v \in Kept
    <2>1. v \in Others /\ From(v) = v /\ \E i \in 1 .. 39 : SavedKeys[i][2] = v
      BY KeptOthers, KeptSaved
    <2>2. d[v] = preset[v]
      <3>1. v \in Options /\ v # "load_rc" /\ v # "jack_uuid"
        BY OptionNames DEF Kept
      <3> QED BY <3>1, <1>6
    <2>3. r[v] = After(d[v], saved, v)
      BY <1>8, <2>1
    <2> QED BY <2>2, <2>3
  <1>10. r["load_rc"] = TRUE /\ r["jack_uuid"] = TRUE
    <2>1. \A i \in 1 .. 39 : SavedKeys[i][2] # "load_rc" /\ SavedKeys[i][2] # "jack_uuid"
      BY SavedNames DEF Kept
    <2>2. r["load_rc"] = d["load_rc"] /\ r["jack_uuid"] = d["jack_uuid"]
      BY <1>8, <2>1, KeptOthers
    <2> QED BY <2>2, <1>6
  <1>11. r["load_movie"] = After(preset["load_movie"], saved, "current_file")
    <2>1. \E i \in 1 .. 39 : SavedKeys[i][2] = "current_file"
      <3>1. SavedKeys[1][2] = "current_file"
        BY DEF SavedKeys
      <3> QED BY <3>1
    <2>2. r["load_movie"] = After(d["load_movie"], saved, "current_file")
      BY <1>8, <2>1, KeptOthers
    <2>3. d["load_movie"] = preset["load_movie"]
      BY <1>6, OptionNames
    <2> QED BY <2>2, <2>3
  <1>12. /\ r["use_jack"] = (n # 0) /\ r["use_ltc"] = (n = 3)
         /\ r["midiid"] = IF n \in {0, 1, 3} THEN <<"-2">> ELSE Port(d["midiid"], saved)
    BY <1>1, <1>5, <1>7, SyncBack DEF n
  <1>13. d["midiid"] = preset["midiid"]
    BY <1>6, OptionNames
  <1> QED BY <1>3, <1>5, <1>9, <1>10, <1>11, <1>12, <1>13 DEF r, n
LEMMA OnlyRestore == [Next]_vars => Restore \/ restored' = FALSE \/ UNCHANGED vars
  BY DEF Next, Start, jack_session_cb, Quit, SetOption, Load, OsdText, OsdFont, SyncTo,
         MidiConnect, MidiMenu, WindowClose, WindowMode, WindowState, Handler

-----------------------------------------------------------------------------
(* The source comes back.                                                  *)

LEMMA NoPort == <<"-2">> # <<>> /\ ~AtoiIsZero(<<"-2">>) /\ ~WantsMtc(<<"-2">>)
  BY TextsAssumption DEF AtoiIsZero, WantsMtc

\* A driver that is saved as JACK-MIDI or not at all is JACK-MIDI.
LEMMA DriverBack ==
  ASSUME NEW s, Typed(s.opt), s.opt["midi_driver"] \in {NULL, <<JACK_MIDI>>}, NEW old, NEW o,
         o.midi_driver = After(old, s, "midi_driver")
  PROVE  Driver(o) = JACK_MIDI
  <1>1. /\ "midi_driver" \in Texts \cup Nullable /\ ReaderOf("midi_driver") = "nullable"
        /\ "midi_driver" # "smpte_offset"
    BY ReaderNames DEF Nullable
  <1>2. Words(s, "midi_driver") =
          IF s.opt["midi_driver"] # NULL THEN s.opt["midi_driver"] ELSE <<"(null)">>
    BY <1>1, WordsPrinted, PrintedText
  <1>3. \A d \in Drivers : <<d>> # NULL
    <2>1. \A d \in Drivers : d \in STRING
      BY TextsAssumption DEF OwnWords
    <2>2. \A d \in Drivers : <<d>> \in Seq(STRING)
      BY <2>1, WordText
    <2> QED BY <2>2, TextsAssumption
  <1>4. JACK_MIDI \in Drivers /\ JACK_MIDI # "(null)"
    BY DEF Drivers, JACK_MIDI
  <1>5. CASE s.opt["midi_driver"] = NULL
    <2>1. Words(s, "midi_driver") = <<"(null)">>
      BY <1>2, <1>5
    <2>2. o.midi_driver = NULL
      BY <1>1, <2>1 DEF After, Stored
    <2> QED BY <1>3, <2>2 DEF Driver
  <1>6. CASE s.opt["midi_driver"] = <<JACK_MIDI>>
    <2>1. Words(s, "midi_driver") = <<JACK_MIDI>>
      BY <1>2, <1>3, <1>4, <1>6
    <2>2. After(old, s, "midi_driver") = Stored("nullable", old, JACK_MIDI)
      BY <1>1, <2>1 DEF After
    <2>3. o.midi_driver = <<JACK_MIDI>>
      BY <1>4, <2>2 DEF Stored
    <2>4. o.midi_driver[1] = JACK_MIDI
      BY <2>3
    <2> QED BY <2>4 DEF Driver
  <1> QED BY <1>5, <1>6

LEMMA SourceStep ==
  ASSUME SessionInv, Restore
  PROVE  SourceComesBack'
  <1> DEFINE r == Read(RestoreArgs)
             n == psync(saved.source)
             p == opt'
  <1>1. /\ p = Booted(r) /\ Typed(r)
        /\ r["midi_driver"] = After(preset["midi_driver"], saved, "midi_driver")
        /\ r["jack_uuid"] = TRUE
        /\ r["use_jack"] = (n # 0) /\ r["use_ltc"] = (n = 3)
        /\ r["midiid"] = IF n \in {0, 1, 3} THEN <<"-2">> ELSE Port(preset["midiid"], saved)
    BY RestoredRead DEF Kept
  <1>2. /\ Typed(saved.opt) /\ saved' = saved /\ tried' = Tried(p)
        /\ saved.source \in {"jack", "ltc", JACK_MIDI}
    BY DEF SessionInv, SavedOK, Restore, main
  <1> HIDE DEF r, p
  <1>3. {"midi_driver", "jack_uuid", "use_jack", "use_ltc"} \subseteq Options \ Late
    BY OptionNames DEF Late
  <1>4. /\ p["midi_driver"] = r["midi_driver"] /\ p["jack_uuid"] = TRUE
        /\ p["use_jack"] = (n # 0) /\ p["use_ltc"] = (n = 3)
        /\ \/ p["midiid"] = r["midiid"]
           \/ p["midiid"] = <<>> /\ AtoiIsZero(r["midiid"])
    BY <1>1, <1>3, BootedFacts DEF SessionInv
  <1>5. CASE saved.source = "ltc"
    <2>1. n = 3
      BY <1>5 DEF psync
    <2>2. p["midiid"] = <<"-2">>
      BY <1>1, <1>4, <2>1, NoPort
    <2>3. Tried(p) = "ltc"
      BY <1>4, <2>1, <2>2, NoPort DEF Tried
    <2> QED BY <1>2, <1>5, <2>3 DEF SourceComesBack
  <1>6. CASE saved.source = "jack"
    <2>1. n = 1
      BY <1>6 DEF psync
    <2>2. p["midiid"] = <<"-2">>
      BY <1>1, <1>4, <2>1, NoPort
    <2>3. Tried(p) = "jack"
      <3>0. (n # 0) = TRUE /\ (n = 3) = FALSE
        BY <2>1
      <3> HIDE DEF n
      <3>1. p["use_jack"] = TRUE /\ p["use_ltc"] = FALSE
        BY <1>4, <3>0, Zenon
      <3>2. ~WantsMtc(p["midiid"])
        BY <2>2, NoPort
      <3> QED BY <1>4, <3>1, <3>2 DEF Tried
    <2> QED BY <1>2, <1>6, <2>3 DEF SourceComesBack
  <1>7. CASE /\ saved.source = JACK_MIDI
             /\ saved.opt["midiid"] # <<>> /\ Head(saved.opt["midiid"]) # "-2"
             /\ saved.opt["midi_driver"] \in {NULL, <<JACK_MIDI>>}
    <2>1. n = 2
      BY <1>7 DEF psync, JACK_MIDI
    <2>2. r["midiid"] = <<Head(saved.opt["midiid"])>>
      BY <1>1, <1>7, <2>1 DEF Port
    <2>3. WantsMtc(p["midiid"])
      BY <1>4, <1>7, <2>2 DEF WantsMtc
    <2>4. Driver(p) = JACK_MIDI
      BY <1>1, <1>2, <1>4, <1>7, DriverBack
    <2>5. Tried(p) = JACK_MIDI
      BY <1>4, <2>3, <2>4 DEF Tried
    <2> QED BY <1>2, <1>7, <2>5 DEF SourceComesBack
  <1>8. CASE /\ saved.source = JACK_MIDI
             /\ \/ saved.opt["midiid"] = <<>> \/ Head(saved.opt["midiid"]) = "-2"
                \/ saved.opt["midi_driver"] \notin {NULL, <<JACK_MIDI>>}
    BY <1>2, <1>8 DEF SourceComesBack
  <1> QED BY <1>2, <1>5, <1>6, <1>7, <1>8
-----------------------------------------------------------------------------
(* The options come back.                                                  *)

LEMMA SavedOptionNames == SavedOptions \subseteq Kept \cup {"midiid", "current_file"}
  <1>1. SavedOptions = {SavedKeys[i][2] : i \in 1 .. 39} \cap Options
    BY SavedNames DEF SavedOptions
  <1>2. \A v \in {"source", "x", "y", "w", "h"} : v \notin Options
    BY OptionNames
  <1> QED BY <1>1, <1>2, SavedNames

\* Values are read as they were written.
LEMMA ValueBack ==
  ASSUME NEW s, Typed(s.opt), NEW v \in Amounts \cup {"OSD_mode", "videomode"}, NEW old
  PROVE  After(old, s, v) = IF v = "delay" THEN SavedRate(s.opt["delay"]) ELSE s.opt[v]
  <1> DEFINE x == IF v = "delay" THEN SavedRate(s.opt["delay"]) ELSE s.opt[v]
  <1>1. Words(s, v) = <<x>>
    BY WordsPrinted, PrintedValue
  <1>2. ReaderOf(v) = "value"
    BY ReaderNames
  <1> HIDE DEF x
  <1>3. After(old, s, v) = x
    BY <1>1, <1>2 DEF After, Stored
  <1> QED BY <1>3 DEF x

\* Texts of one word too, but for what a null pointer is printed as.
LEMMA TextBack ==
  ASSUME NEW s, Typed(s.opt), NEW v \in Texts \cup Nullable, NEW old,
         s.opt[v] = NULL \/ Len(s.opt[v]) = 1
  PROVE  \/ After(old, s, v) = s.opt[v]
         \/ v = "smpte_offset" /\ s.opt[v] = NULL /\ After(old, s, v) = <<"0">>
         \/ v \in Texts /\ s.opt[v] = NULL /\ After(old, s, v) = <<"(null)">>
         \/ <<"(null)">> = s.opt[v]
  <1>1. Words(s, v) = IF s.opt[v] # NULL THEN s.opt[v]
                      ELSE IF v = "smpte_offset" THEN <<"0">> ELSE <<"(null)">>
    BY WordsPrinted, PrintedText
  <1>2. CASE s.opt[v] = NULL /\ v \in Texts
    <2>1. ReaderOf(v) = "text"
      BY <1>2, ReaderNames
    <2>2. CASE v = "smpte_offset"
      <3>1. Words(s, v) = <<"0">>
        BY <1>1, <1>2, <2>2
      <3>2. After(old, s, v) = <<"0">>
        BY <2>1, <3>1 DEF After, Stored
      <3> QED BY <1>2, <2>2, <3>2
    <2>3. CASE v # "smpte_offset"
      <3>1. Words(s, v) = <<"(null)">>
        BY <1>1, <1>2, <2>3
      <3>2. After(old, s, v) = <<"(null)">>
        BY <2>1, <3>1 DEF After, Stored
      <3> QED BY <1>2, <3>2
    <2> QED BY <2>2, <2>3
  <1>3. CASE s.opt[v] = NULL /\ v \in Nullable
    <2>1. ReaderOf(v) = "nullable" /\ v # "smpte_offset"
      BY <1>3, ReaderNames DEF Nullable
    <2>2. Words(s, v) = <<"(null)">>
      BY <1>1, <1>3, <2>1
    <2>3. After(old, s, v) = NULL
      BY <2>1, <2>2 DEF After, Stored
    <2> QED BY <1>3, <2>3
  <1>4. CASE s.opt[v] # NULL
    <2> DEFINE t == s.opt[v]
    <2>1. Words(s, v) = t /\ t \in Seq(STRING) /\ Len(t) = 1
      BY <1>1, <1>4, PrintedText
    <2> HIDE DEF t
    <2>2. t = <<Head(t)>> /\ t # <<>>
      BY <2>1
    <2>3. After(old, s, v) = Stored(ReaderOf(v), old, Head(t))
      BY <2>1, <2>2 DEF After
    <2>4. CASE v \in Texts
      <3>1. After(old, s, v) = <<Head(t)>>
        BY <2>3, <2>4, ReaderNames DEF Stored
      <3> QED BY <2>2, <3>1 DEF t
    <2>5. CASE v \in Nullable
      <3>1. After(old, s, v) = IF Head(t) = "(null)" THEN NULL ELSE <<Head(t)>>
        BY <2>3, <2>5, ReaderNames DEF Stored
      <3>2. Head(t) = "(null)" => t = <<"(null)">>
        BY <2>2
      <3> QED BY <2>2, <3>1, <3>2 DEF t
    <2> QED BY <2>4, <2>5
  <1> QED BY <1>2, <1>3, <1>4

LEMMA YesNo == \A b \in BOOLEAN : (BOOL(b) = "yes" <=> b) /\ (BOOL(b) = "no" <=> ~b)
  BY DEF BOOL

\* The word that is written for a flag.
Flag(s, v) ==
  IF v = "start_ontop" THEN s.ontop ELSE IF v = "start_fullscreen" THEN s.full ELSE s.opt[v]

LEMMA FlagBack ==
  ASSUME NEW s, Typed(s.opt), s.ontop \in BOOLEAN, s.full \in BOOLEAN, NEW v \in Flags,
         NEW old \in BOOLEAN
  PROVE  After(old, s, v) =
           IF v \in {"midi_clkadj", "mq_en", "remote_en"} THEN Flag(s, v) ELSE old \/ Flag(s, v)
  <1> DEFINE b == Flag(s, v)
  <1>1. v \in Options /\ v # "source" /\ v \notin DOMAIN Place
    BY OptionNames, PlaceNames DEF Flags
  <1>2. s.opt[v] \in BOOLEAN
    BY <1>1, Types DEF Typed
  <1>3. b \in BOOLEAN
    BY <1>2 DEF Flag
  <1>4. Words(s, v) = <<BOOL(b)>>
    BY <1>1 DEF Words, Printed, Flag
  <1>5. ReaderOf(v) = IF v \in {"midi_clkadj", "mq_en", "remote_en"} THEN "YES_NO" ELSE "YES_OK"
    BY DEF ReaderOf
  <1> HIDE DEF b
  <1>6. After(old, s, v) = Stored(ReaderOf(v), old, BOOL(b))
    BY <1>4 DEF After
  <1>7. CASE v \in {"midi_clkadj", "mq_en", "remote_en"}
    <2>1. After(old, s, v) = YES_NO(old, BOOL(b))
      BY <1>5, <1>6, <1>7 DEF Stored
    <2>2. YES_NO(old, BOOL(b)) = b
      BY <1>3 DEF YES_NO, BOOL
    <2> QED BY <1>7, <2>1, <2>2 DEF b
  <1>8. CASE v \notin {"midi_clkadj", "mq_en", "remote_en"}
    <2>1. After(old, s, v) = YES_OK(old, BOOL(b))
      BY <1>5, <1>6, <1>8 DEF Stored
    <2>2. YES_OK(old, BOOL(b)) = (old \/ b)
      BY <1>3 DEF YES_OK, BOOL
    <2> QED BY <1>8, <2>1, <2>2 DEF b
  <1> QED BY <1>7, <1>8
LEMMA SessionStep ==
  ASSUME SessionInv, Restore
  PROVE  SessionComesBack'
  <1> DEFINE r == Read(RestoreArgs)
             p == opt'
             q == preset
  <1>1. /\ p = Booted(r) /\ Typed(r)
        /\ \A v \in Kept : r[v] = After(q[v], saved, v)
        /\ r["load_rc"] = TRUE
        /\ r["load_movie"] = After(q["load_movie"], saved, "current_file")
    BY RestoredRead
  <1>2. /\ Typed(saved.opt) /\ saved.ontop \in BOOLEAN /\ saved.full \in BOOLEAN
        /\ Settled(saved.opt)
        /\ saved' = saved /\ works \subseteq Compiled
    BY DEF SessionInv, SavedOK, Restore, main
  <1>3. preset' = q
    BY DEF Restore, main, world, preset
  <1>4. Typed(q)
    BY PresetTyped DEF SessionInv
  <1> HIDE DEF r, p, q
  <1>5. /\ \A v \in Options \ Late : p[v] = r[v]
        /\ p["OSD_fontfile"] = IF r["OSD_fontfile"] \in Fonts THEN r["OSD_fontfile"] ELSE <<>>
        /\ p["current_file"] = IF movie(r) \in Movies THEN movie(r) ELSE NULL
        /\ r["videomode"] # 0 \/ Min(Compiled) \in works => p["videomode"] = r["videomode"]
    BY <1>1, <1>2, BootedFacts
  <1>6. Kept \subseteq Options
    BY OptionNames DEF Kept
  <1>7. \A v \in Kept \ {"OSD_fontfile", "videomode"} : p[v] = After(q[v], saved, v)
    <2>1. "midiid" \notin Kept /\ "current_file" \notin Kept
      BY DEF Kept
    <2>2. \A v \in Kept \ {"OSD_fontfile", "videomode"} : v \in Options \ Late
      BY <1>6, <2>1 DEF Late
    <2> QED BY <1>1, <1>5, <2>2
  <1>8. ASSUME NEW v \in Flags \cap Kept
        PROVE  p[v] = IF v \in {"midi_clkadj", "mq_en", "remote_en"} THEN Flag(saved, v)
                      ELSE q[v] \/ Flag(saved, v)
    <2>1. v # "OSD_fontfile" /\ v # "videomode"
      BY DEF Flags
    <2>2. q[v] \in BOOLEAN
      BY <1>4, <1>6, Types DEF Typed
    <2>3. p[v] = After(q[v], saved, v)
      BY <1>7, <2>1
    <2> QED BY <1>2, <2>2, <2>3, FlagBack
  <1>9. ASSUME NEW v \in OnlyOn PROVE p[v] = (saved.opt[v] \/ q[v])
    <2>1. /\ v \in Flags \cap Kept /\ v \notin {"midi_clkadj", "mq_en", "remote_en"}
          /\ v # "start_ontop" /\ v # "start_fullscreen"
      BY DEF OnlyOn, Flags, Kept
    <2>2. Flag(saved, v) = saved.opt[v]
      BY <2>1 DEF Flag
    <2>3. p[v] = (q[v] \/ Flag(saved, v))
      BY <1>8, <2>1
    <2> QED BY <2>2, <2>3
  <1>10. /\ p["start_ontop"] = (saved.ontop \/ q["start_ontop"])
         /\ p["start_fullscreen"] = (saved.full \/ q["start_fullscreen"])
    <2>1. "start_ontop" \in Flags \cap Kept /\ "start_fullscreen" \in Flags \cap Kept
      BY DEF Flags, Kept
    <2>2. Flag(saved, "start_ontop") = saved.ontop /\ Flag(saved, "start_fullscreen") = saved.full
      BY DEF Flag
    <2>3. p["start_ontop"] = (q["start_ontop"] \/ Flag(saved, "start_ontop"))
      BY <1>8, <2>1
    <2>4. p["start_fullscreen"] = (q["start_fullscreen"] \/ Flag(saved, "start_fullscreen"))
      BY <1>8, <2>1
    <2> QED BY <2>2, <2>3, <2>4
  <1>11. ASSUME NEW v \in (Texts \cup Nullable) \ {"midiid"},
                saved.opt[v] = NULL \/ Len(saved.opt[v]) = 1
         PROVE  \/ p[v] = saved.opt[v]
                \/ v = "smpte_offset" /\ saved.opt[v] = NULL /\ p[v] = <<"0">>
                \/ <<"(null)">> \in {p[v], saved.opt[v]}
    <2>1. CASE v = "current_file"
      <3> DEFINE t == saved.opt["current_file"]
                 m == r["load_movie"]
      <3>1. "current_file" \in Texts /\ "current_file" # "smpte_offset"
        BY DEF Texts
      <3>2. m = t \/ (t = NULL /\ m = <<"(null)">>) \/ t = <<"(null)">>
        BY <1>1, <1>2, <1>11, <2>1, <3>1, TextBack
      <3>3. t \in Movies \cup {NULL} /\ NULL \notin Movies
        BY <1>2, TextsAssumption DEF Settled
      <3>4. movie(r) = IF m # NULL THEN m ELSE NULL
        BY <1>1 DEF movie
      <3> HIDE DEF t, m
      <3>5. CASE m = t
        <4>1. p["current_file"] = t
          BY <1>5, <3>3, <3>4, <3>5
        <4> QED BY <2>1, <4>1 DEF t
      <3>6. CASE t = NULL /\ m = <<"(null)">>
        <4>1. p["current_file"] = NULL \/ p["current_file"] = <<"(null)">>
          BY <1>5, <3>4, <3>6
        <4> QED BY <2>1, <3>6, <4>1 DEF t
      <3>7. CASE t = <<"(null)">>
        BY <2>1, <3>7 DEF t
      <3> QED BY <3>2, <3>5, <3>6, <3>7
    <2>2. CASE v # "current_file"
      <3>1. v \in Kept /\ v # "videomode" /\ v \in Texts \cup Nullable
        BY <2>2, TextNames DEF Texts, Nullable
      <3>2. r[v] = After(q[v], saved, v)
        BY <1>1, <3>1
      <3>3. \/ r[v] = saved.opt[v]
            \/ v = "smpte_offset" /\ saved.opt[v] = NULL /\ r[v] = <<"0">>
            \/ v \in Texts /\ saved.opt[v] = NULL /\ r[v] = <<"(null)">>
            \/ <<"(null)">> = saved.opt[v]
        BY <1>2, <1>11, <3>1, <3>2, TextBack
      <3>4. CASE v # "OSD_fontfile"
        <4>1. p[v] = r[v]
          BY <1>7, <3>1, <3>2, <3>4
        <4> QED BY <3>3, <4>1
      <3>5. CASE v = "OSD_fontfile"
        <4> DEFINE t == saved.opt["OSD_fontfile"]
        <4>1. HasType("OSD_fontfile", t)
          BY <1>2, OptionNames DEF Typed
        <4>2. t \in Seq(STRING) /\ t # NULL
          BY <4>1, Types, TextsAssumption DEF Given
        <4>3. t \in Fonts \cup {<<>>} /\ t # <<>>
          <5>1. Len(t) = 1 /\ t \in Fonts \cup {<<>>}
            BY <1>2, <1>11, <3>5, <4>2 DEF Settled
          <5> HIDE DEF t
          <5>2. t # <<>>
            BY <5>1
          <5> QED BY <5>1, <5>2
        <4>4. r["OSD_fontfile"] = t \/ t = <<"(null)">>
          BY <3>3, <3>5, <4>2
        <4> HIDE DEF t
        <4>5. p["OSD_fontfile"] = t \/ t = <<"(null)">>
          BY <1>5, <4>3, <4>4
        <4> QED BY <3>5, <4>5 DEF t
      <3> QED BY <3>4, <3>5
    <2> QED BY <2>1, <2>2
  <1>12. saved.opt["delay"] <= 1 => p["delay"] = saved.opt["delay"]
    <2>1. "delay" \in Amounts /\ "delay" \in Kept /\ "delay" \in Options
      BY OptionNames DEF Amounts, Kept
    <2>2. saved.opt["delay"] \in Int
      BY <1>2, <2>1, Types DEF Typed
    <2>3. p["delay"] = SavedRate(saved.opt["delay"])
      BY <1>2, <1>7, <2>1, ValueBack
    <2> QED BY <2>2, <2>3 DEF SavedRate
  <1>13. ASSUME NEW v \in SavedOptions \ (OnlyOn \cup Texts \cup Nullable
                                          \cup {"delay", "start_ontop", "start_fullscreen"})
         PROVE  p[v] = saved.opt[v]
    <2>1. v \in Kept
      <3>1. "midiid" \in Texts /\ "current_file" \in Texts
        BY DEF Texts
      <3> QED BY <3>1, SavedOptionNames
    <2>2. CASE v \in {"midi_clkadj", "mq_en", "remote_en"}
      <3>1. v \in Flags \cap Kept
        BY <2>1, <2>2 DEF Flags
      <3>2. p[v] = Flag(saved, v)
        BY <1>8, <2>2, <3>1
      <3>3. Flag(saved, v) = saved.opt[v]
        BY <2>2 DEF Flag
      <3> QED BY <3>2, <3>3
    <2>3. CASE v \in Amounts \cup {"OSD_mode", "videomode"}
      <3>1. r[v] = saved.opt[v]
        BY <1>1, <1>2, <2>1, <2>3, ValueBack
      <3>2. CASE v = "videomode"
        BY <1>2, <1>5, <3>1, <3>2 DEF Settled
      <3>3. CASE v # "videomode"
        <4>1. v # "OSD_fontfile"
          BY <2>3 DEF Amounts
        <4> QED BY <1>1, <1>7, <2>1, <3>1, <3>3, <4>1
      <3> QED BY <3>2, <3>3
    <2>4. v \in {"midi_clkadj", "mq_en", "remote_en"} \cup Amounts \cup {"OSD_mode", "videomode"}
      BY <2>1, KeptValues DEF OnlyOn, Flags
    <2> QED BY <2>2, <2>3, <2>4
  <1> QED BY <1>2, <1>3, <1>9, <1>10, <1>11, <1>12, <1>13 DEF SessionComesBack, p

-----------------------------------------------------------------------------
(* Theorems. *)

\* Start-up, files, switches and handlers leave every option a value of its
\* type, for any files, switches, ports and displays; without a window a
\* program that nobody has touched has a remote control.
THEOREM TypeCorrect == Spec => []TypeOK
  <1>1. SessionInv => TypeOK
    BY DEF SessionInv
  <1> QED BY <1>1, InitInv, NextInv, PTL DEF Spec

\* A restored session has the options of the one that was saved, in any number
\* of sessions saved and restored one after the other, but for what the file
\* cannot say.
THEOREM SessionReturns == Spec => []SessionComesBack
  <1>1. Init => SessionComesBack
    BY DEF Init, SessionComesBack
  <1>2. SessionInv /\ SessionComesBack /\ [Next]_vars => SessionComesBack'
    <2> SUFFICES ASSUME SessionInv, SessionComesBack, [Next]_vars PROVE SessionComesBack'
      OBVIOUS
    <2>1. CASE Restore
      BY <2>1, SessionStep
    <2>2. CASE restored' = FALSE
      BY <2>2 DEF SessionComesBack
    <2>3. CASE UNCHANGED vars
      BY <2>3 DEF vars, world, history, SessionComesBack, preset
    <2> QED BY <2>1, <2>2, <2>3, OnlyRestore
  <1> QED BY <1>1, <1>2, InitInv, NextInv, PTL DEF Spec

\* It opens the source that was connected; MTC only with a port in the file.
THEOREM SourceReturns == Spec => []SourceComesBack
  <1>1. Init => SourceComesBack
    BY DEF Init, SourceComesBack
  <1>2. SessionInv /\ SourceComesBack /\ [Next]_vars => SourceComesBack'
    <2> SUFFICES ASSUME SessionInv, SourceComesBack, [Next]_vars PROVE SourceComesBack'
      OBVIOUS
    <2>1. CASE Restore
      BY <2>1, SourceStep
    <2>2. CASE restored' = FALSE
      BY <2>2 DEF SourceComesBack
    <2>3. CASE UNCHANGED vars
      BY <2>3 DEF vars, world, history, SourceComesBack
    <2> QED BY <2>1, <2>2, <2>3, OnlyRestore
  <1> QED BY <1>1, <1>2, InitInv, NextInv, PTL DEF Spec

=============================================================================
