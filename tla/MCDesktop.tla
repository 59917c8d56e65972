----------------------------- MODULE MCDesktop -----------------------------
(* Desks on which a few kinds of input come together.                      *)
EXTENDS Desktop

Desk(kinds, n) == [kinds |-> kinds, left |-> n]

\* A file dialog that offers its file by name, a file manager with many types,
\* a source that speaks a later protocol.
MCOffers == [a |-> <<"text/uri-list">>,
             b |-> <<"other", "text/uri-list", "text/plain", "UTF8_STRING">>,
             c |-> <<"text/uri-list">>]

MCMasks == {{}, {"QUIT_WMG", "LOADFILE", "MENUSYNC"}, {"QUIT_KEY", "AVOFFSET", "JCONTROL"}}

MCDesks ==
  {Desk({"osd", "file"}, 3), Desk({"menu", "override", "sync", "file"}, 4),
   Desk({"menu", "window", "file", "quit"}, 4), Desk({"drag", "override"}, 3),
   Desk({"drag", "window", "file"}, 3),
   Desk({"override", "offset", "seek", "sync", "quit", "menu"}, 3)}
=============================================================================
