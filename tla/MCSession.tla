------------------------------ MODULE MCSession ------------------------------
(* Session with one or two values of every option. *)
EXTENDS Session

MCMovies == {<<"clip.avi">>, <<"my", "clip.avi">>}
MCFonts == {<<"FONT_FILE">>, <<"mono.ttf">>}

\* Nothing; or a port, a clock, and options that cannot be switched off again.
MCRcFiles ==
  {<<>>,
   <<Line("MIDIID", <<"-1">>), Line("VERBOSE", <<"yes">>), Line("nonsense", <<"1">>),
     Line("SYNCSOURCE", <<2>>), Line("LETTERBOX", <<"no">>), Line("SEEK", <<1>>),
     Line("MIDICLK", <<"no">>), Line("WINONTOP", <<"yes">>)>>}

Arg(c, arg) == [c |-> c, arg |-> arg]

\* Most switches set an option of their own: they are given together.
Together ==
  [i \in 1 .. 12 |-> Switch(<<"a", "I", "N", "P", "Q", "S", "s", "C", "b", "n", "c", "R">>[i])]
  \o <<Arg("K", 5), Arg("f", 1), Arg("i", {OSD_FRAME, OSD_BOX}), Arg("O", 3819),
       Arg("o", <<"00:00:10:00">>), Arg("T", <<"gone.ttf">>), Arg("W", <<"queue">>),
       Arg("M", 2)>>

MCCommandLines ==
  {<<>>, Together, <<Switch("v"), Switch("R")>>, <<Switch("R"), Switch("v")>>,
   <<Switch("J"), Arg("m", <<"80">>)>>, <<Arg("m", <<"-1">>), Switch("l")>>,
   <<Arg("d", <<"ALSA-Sequencer">>), Arg("m", <<"USB", "keys">>)>>,
   <<Switch("R"), Arg("x", 2)>>, <<Switch("q"), Arg("x", 3)>>}

MCValues ==
  [want_letterbox |-> {FALSE}, delay |-> {1, 25}, interaction_override |-> {32, 128},
   userFrame |-> {42}, smpte_offset |-> {<<"00:01:00:00">>}, OSD_sy |-> {5}]

MCMidiPorts == {<<"-1">>, <<"system:midi">>, <<"USB", "keys">>}
MCCaptions == {<<"two", "words">>, <<>>}
=============================================================================
