-------------------------------- MODULE Osd --------------------------------
(***************************************************************************)
(* The on-screen display: OSD_mode as the set of its bits, what the user   *)
(* interface, the remote control and the index thread make of it           *)
(* (common.c, remote.c, xjosc.c, xjadeo.c), and what render_buffer draws   *)
(* of it over the middle of the picture (display.c).  Positions, texts and *)
(* fonts are left out; the movie is high enough for every box.             *)
(***************************************************************************)
EXTENDS Naturals

Bits == {"FRAME", "SMPTE", "EQ", "OFFS", "OFFF", "TEXT", "MSG", "BOX", "VTC",
         "NFO", "IDXNFO", "POS", "GEO", "VTCOOR"}

OnOff(on, bit, m) == IF on THEN m \cup {bit} ELSE m \ {bit}
Toggle(bit, m) == OnOff(bit \notin m, bit, m)

---------------------------------------------------------------------------
(* The keys and the menu. *)

ui_osd_clear(m) == {"BOX"}

ui_osd_offset_cycle(m) ==
  LET rest == m \ {"NFO", "GEO", "OFFF", "OFFS"}
  IN  CASE "OFFF" \in m -> rest
        [] "OFFF" \notin m /\ "OFFS" \in m -> rest \cup {"OFFF"}
        [] OTHER -> rest \cup {"OFFS"}

\* Mutant: the offset in frames stays.
OffsetBesideFrames(m) == (m \ {"NFO", "GEO"}) \cup {"OFFS"}

ui_osd_offset_tc(m) == (m \ {"OFFF", "NFO", "GEO"}) \cup {"OFFS"}
ui_osd_offset_fn(m) == (m \ {"OFFS", "NFO", "GEO"}) \cup {"OFFF"}
ui_osd_offset_none(m) == m \ {"OFFF", "OFFS"}

ui_osd_tc(m) == Toggle("SMPTE", m)

\* Off, time code, frame number, off.
ui_osd_fn(m) ==
  LET rest == m \ {"VTC", "FRAME"}
  IN  CASE "FRAME" \in m -> rest
        [] "FRAME" \notin m /\ "VTC" \in m -> rest \cup {"FRAME"}
        [] OTHER -> rest \cup {"VTC"}

ui_osd_vtc_fn(m) == (m \ {"VTC"}) \cup {"FRAME"}
ui_osd_vtc_tc(m) == (m \ {"FRAME"}) \cup {"VTC"}
ui_osd_vtc_off(m) == m \ {"VTC", "FRAME"}
ui_osd_box(m) == Toggle("BOX", m)
ui_osd_geo(m) == Toggle("GEO", ui_osd_offset_none(m) \ {"NFO"})
ui_osd_fileinfo(m) == Toggle("NFO", ui_osd_offset_none(m) \ {"GEO"})
ui_osd_pos(m) == Toggle("POS", m)

ui_osd_outofrange(m) ==
  IF "VTCOOR" \in m THEN m \ {"VTCOOR"} ELSE (m \ {"FRAME"}) \cup {"VTCOOR", "VTC"}

\* Items of the OSD menu, and keys with the same effect.
MenuOps == {"clear", "offset_tc", "offset_fn", "offset_none", "tc", "vtc_fn",
            "vtc_tc", "vtc_off", "box", "geo", "fileinfo"}
KeyOps == {"clear", "offset_cycle", "tc", "fn", "box", "geo", "fileinfo", "pos", "outofrange"}

UiOsd(op, m) ==
  CASE op = "clear" -> ui_osd_clear(m)
    [] op = "offset_cycle" -> ui_osd_offset_cycle(m)
    [] op = "offset_tc" -> ui_osd_offset_tc(m)
    [] op = "offset_fn" -> ui_osd_offset_fn(m)
    [] op = "offset_none" -> ui_osd_offset_none(m)
    [] op = "tc" -> ui_osd_tc(m)
    [] op = "fn" -> ui_osd_fn(m)
    [] op = "vtc_fn" -> ui_osd_vtc_fn(m)
    [] op = "vtc_tc" -> ui_osd_vtc_tc(m)
    [] op = "vtc_off" -> ui_osd_vtc_off(m)
    [] op = "box" -> ui_osd_box(m)
    [] op = "geo" -> ui_osd_geo(m)
    [] op = "fileinfo" -> ui_osd_fileinfo(m)
    [] op = "pos" -> ui_osd_pos(m)
    [] op = "outofrange" -> ui_osd_outofrange(m)

\* The key 'e' of the Xv and ImLib2 windows.
KeyEq(supported, m) == IF supported THEN Toggle("EQ", m) ELSE m \ {"EQ"}

---------------------------------------------------------------------------
(* The remote control: a bit and whether it is to be on.  "osd smpte" and  *)
(* "osd frame" ignore a position beyond 100, "osd mode" is five of them.   *)

RemoteBits == {"SMPTE", "FRAME", "TEXT", "BOX"}
ModeBits == {"FRAME", "SMPTE", "TEXT", "BOX", "VTC"}

xapi_osd_mode(bits, m) == (m \ ModeBits) \cup bits

---------------------------------------------------------------------------
(* The index thread, and what the main thread does about a missing movie.  *)

IndexBegins(m) == (m \cup {"MSG", "IDXNFO"}) \ {"EQ", "OFFF", "OFFS"}
IndexResult(ok, m) == IF ok THEN m \ {"MSG"} ELSE m \cup {"BOX"}
IndexEnds(m) == m \ {"IDXNFO"}

NoFileMessage(m) == IF "MSG" \in m THEN m ELSE (m \cup {"MSG", "BOX"}) \ {"EQ"}

---------------------------------------------------------------------------
(* What is drawn over the middle of the picture.                           *)

Boxes == {"OFFF", "OFFS", "NFO", "GEO"}

Drawn(m) ==
  CASE "EQ" \in m -> "EQ"
    [] "EQ" \notin m /\ "OFFF" \in m -> "OFFF"
    [] m \cap {"EQ", "OFFF"} = {} /\ "OFFS" \in m -> "OFFS"
    [] m \cap {"EQ", "OFFF", "OFFS"} = {} /\ m \cap {"NFO", "IDXNFO"} # {} -> "NFO"
    [] m \cap {"EQ", "OFFF", "OFFS", "NFO", "IDXNFO"} = {} /\ "GEO" \in m -> "GEO"
    [] OTHER -> "nothing"

\* Every box that is switched on is the one that is drawn, unless the equaliser
\* or the progress of the index is in front of it.
AllDrawn(m) ==
  \A b \in m \cap Boxes : Drawn(m) = b \/ "EQ" \in m \/ (b = "GEO" /\ "IDXNFO" \in m)
=============================================================================
