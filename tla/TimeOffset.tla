----------------------------- MODULE TimeOffset -----------------------------
(***************************************************************************)
(* Who decides what a time code means: the frame rate of the open file,    *)
(* the drop-frame flags, and the offset between transport and video, which *)
(* is kept as a number and as a text (display.c, xjadeo.c, remote.c,       *)
(* xjosc.c, midi.c; the conversions are in Timecode).                      *)
(***************************************************************************)
EXTENDS Timecode

CONSTANTS
  Rates,        \* frame rates of the files that are opened
  Starts,       \* positions that the transport may report
  Texts,        \* what the user may enter
  MtcTimes,     \* times that an MTC source may send
  MaxSteps      \* bound: steps of one behaviour

NoText == [sep |-> "missing"]    \* smpte_offset is NULL
NoTime == [type |-> -1]

\* open_movie takes no other rate than from 1 to 1000.
IsRate(r) ==
  r.num \in Nat \ {0} /\ r.den \in Nat \ {0} /\ r.den <= r.num
    /\ r.num <= 1000 * r.den

IsTime(t) ==
  t.hour \in Int /\ t.min \in Int /\ t.sec \in Int /\ t.frame \in Int

IsText(t) == IsTime(t) /\ t.sep \in {"colon", "semicolon", "plain"}

IsTimecode(base, t) ==
  /\ t.hour \in 0 .. 23 /\ t.min \in 0 .. 59 /\ t.sec \in 0 .. 59
  /\ t.frame \in 0 .. base - 1

ASSUME TimeOffsetAssumption ==
  /\ \A r \in Rates : IsRate(r)
  /\ Starts \subseteq Int /\ MaxSteps \in Nat
  /\ \A t \in Texts : IsText(t)
  /\ \A t \in MtcTimes : IsTimecode(30, t)

VARIABLES
  framerate,        \* of the open file; 10 without a file
  have_dropframes,  \* drop-frame time code was detected
  want_dropframes,  \* option -N
  want_autodrop,    \* not option -n
  midi_clkconvert,  \* option -M
  ts_offset,        \* the offset in frames
  smpte_offset,     \* the offset as a text
  newFrame,         \* position of the transport
  asked,            \* history: the text that set ts_offset, while nothing
                    \* that decides on its meaning has changed
  keyed,            \* history: a key set the offset last
  received,         \* history: as asked, the MTC time that set newFrame
  step              \* bounded by MaxSteps

optVars == <<want_dropframes, want_autodrop>>
histVars == <<asked, keyed, received>>

vars == <<framerate, have_dropframes, optVars, midi_clkconvert, ts_offset,
          smpte_offset, newFrame, histVars, step>>

DefaultRate == [num |-> 10, den |-> 1]

\* fabs (framerate - 30000.0 / 1001.0) < 0.01
IsDropRate(r) ==
  LET d == 1001 * r.num - 30000 * r.den
  IN  100 * d < 1001 * r.den /\ (-100) * d < 1001 * r.den

\* frame_to_smptestring goes by this.
DropShown == (have_dropframes /\ want_autodrop) \/ want_dropframes

\* smptestring_to_frame goes by this, and smpte_to_frame sets the flag.
DropParsed(text, have) ==
  (HasColon(text) /\ have /\ want_autodrop) \/ want_dropframes

FrameOfText(r, text, have) ==
  SmpteStringToFrame(r, text, DropParsed(text, have), midi_clkconvert)

ShownWith(n, add_sign) ==
  FrameToSmpteString(Base(framerate), DropShown, n, add_sign)

Steps == step < MaxSteps /\ step' = step + 1

-----------------------------------------------------------------------------
\* What a text or a time means is no longer what it meant.
MeaningChanges == asked' = NoText /\ received' = NoTime

\* ts_offset is recalculated from its text at rate r, if there is a text.
Recalculate(r, have) ==
  /\ have_dropframes' =
       (have \/ (smpte_offset # NoText /\ DropParsed(smpte_offset, have)))
  /\ ts_offset' = IF smpte_offset = NoText THEN ts_offset
                  ELSE FrameOfText(r, smpte_offset, have)

\* open_movie succeeds: the offset is recalculated for 10 fps and then for the
\* file. Nothing resets have_dropframes. RateDrops: detect drop frame timecode.
RateDrops(r) == have_dropframes \/ IsDropRate(r)

OpenMovie(r) ==
  /\ Steps
  /\ framerate' = r
  /\ Recalculate(r, RateDrops(r))
  /\ MeaningChanges /\ UNCHANGED keyed
  /\ UNCHANGED <<optVars, midi_clkconvert, smpte_offset, newFrame>>

OpenFails ==
  /\ Steps
  /\ framerate' = DefaultRate
  /\ Recalculate(DefaultRate, have_dropframes)
  /\ MeaningChanges /\ UNCHANGED keyed
  /\ UNCHANGED <<optVars, midi_clkconvert, smpte_offset, newFrame>>

\* update_smptestring, after the offset has become n.
TextOf(n) ==
  LET t == ShownWith(n, FALSE)
  IN  [hour |-> t.hour, min |-> t.min, sec |-> t.sec, frame |-> t.frame,
       sep |-> t.sep]

KeySets(n) ==
  /\ ts_offset' = n
  /\ IF n # ts_offset
       THEN smpte_offset' = TextOf(n) /\ asked' = NoText /\ keyed' = TRUE
       ELSE UNCHANGED <<smpte_offset, asked, keyed>>

\* ts_offset += framerate * s, converted to an integer.
After(n, s) ==
  LET up == n + (s * framerate.num) \div framerate.den
  IN  IF up >= 0 THEN up ELSE n - ((-s) * framerate.num) \div framerate.den

\* XCtimeoffset: by a frame, a minute, an hour, or back to 0.
TimeOffsetKey ==
  /\ Steps
  /\ \/ \E d \in {-1, 1} : KeySets(ts_offset + d)
     \/ \E s \in {-60, 60, -3600, 3600} : KeySets(After(ts_offset, s))
     \/ KeySets(0)
  /\ UNCHANGED <<framerate, have_dropframes, optVars, midi_clkconvert,
                 newFrame, received>>

\* The remote's set offset, OSC's /jadeo/offset with a string.
SetOffsetText(text) ==
  /\ Steps
  /\ ts_offset' = FrameOfText(framerate, text, have_dropframes)
  /\ have_dropframes' = (have_dropframes \/ DropParsed(text, have_dropframes))
  /\ asked' = text /\ keyed' = FALSE
  /\ received' = NoTime
  /\ UNCHANGED <<framerate, optVars, midi_clkconvert, smpte_offset, newFrame>>

\* OSC's /jadeo/offset with a number.
SetOffsetNumber(n) ==
  /\ Steps
  /\ ts_offset' = n
  /\ asked' = NoText /\ keyed' = FALSE
  /\ UNCHANGED <<framerate, have_dropframes, optVars, midi_clkconvert,
                 smpte_offset, newFrame, received>>

\* The remote's set midisync.
SetMidiSync(mode) ==
  /\ Steps
  /\ midi_clkconvert' = mode
  /\ MeaningChanges
  /\ UNCHANGED <<framerate, have_dropframes, optVars, ts_offset, smpte_offset,
                 newFrame, keyed>>

\* midi_poll_frame: the drop-frame flag follows the type of the time code.
MtcPoll(type, t) ==
  /\ Steps
  /\ LET d == type = 2 \/ want_dropframes
     IN  /\ newFrame' = SmpteToFrame(framerate, type, t, d, midi_clkconvert)
         /\ have_dropframes' = d
  /\ asked' = NoText
  /\ received' = [type |-> type, time |-> t]
  /\ UNCHANGED <<framerate, optVars, midi_clkconvert, ts_offset, smpte_offset,
                 keyed>>

\* The remote's seek, which is the position when there is no sync source.
Seek(text) ==
  /\ Steps
  /\ newFrame' = FrameOfText(framerate, text, have_dropframes)
  /\ have_dropframes' = (have_dropframes \/ DropParsed(text, have_dropframes))
  /\ received' = NoTime
  /\ UNCHANGED <<framerate, optVars, midi_clkconvert, ts_offset, smpte_offset,
                 asked, keyed>>

\* JACK, LTC or no source at all: any position, the next one among them.
Transport(n) ==
  /\ Steps
  /\ newFrame' = n
  /\ received' = NoTime
  /\ UNCHANGED <<framerate, have_dropframes, optVars, midi_clkconvert,
                 ts_offset, smpte_offset, asked, keyed>>

\* In main's call of open_movie, before it looks at the file; smpte_offset is
\* option -o.
Init ==
  /\ framerate = DefaultRate
  /\ want_dropframes \in BOOLEAN /\ want_autodrop \in BOOLEAN
  /\ midi_clkconvert \in 0 .. 2
  /\ smpte_offset \in Texts \cup {NoText}
  /\ have_dropframes = (smpte_offset # NoText /\ DropParsed(smpte_offset, FALSE))
  /\ ts_offset = IF smpte_offset = NoText THEN 0
                 ELSE FrameOfText(DefaultRate, smpte_offset, FALSE)
  /\ newFrame = 0
  /\ asked = NoText /\ keyed = FALSE /\ received = NoTime
  /\ step = 0

Next ==
  \/ \E r \in Rates : OpenMovie(r)
  \/ OpenFails
  \/ TimeOffsetKey
  \/ \E text \in Texts : SetOffsetText(text)
  \/ \E text \in Texts : Seek(text)
  \/ \E n \in {-1, 1} : SetOffsetNumber(n)
  \/ \E mode \in 0 .. 2 : SetMidiSync(mode)
  \/ \E type \in 0 .. 3, t \in MtcTimes : MtcPoll(type, t)
  \/ \E n \in Starts \cup {newFrame + 1} : Transport(n)

Spec == Init /\ [][Next]_vars

-----------------------------------------------------------------------------
FlagsOK ==
  /\ have_dropframes \in BOOLEAN /\ want_dropframes \in BOOLEAN
  /\ want_autodrop \in BOOLEAN /\ keyed \in BOOLEAN

\* Every field of the text of the offset is in its range, as is every field
\* that the player writes.
TextOK ==
  \/ smpte_offset \in Texts \cup {NoText}
  \/ /\ IsTimecode(1000, smpte_offset)
     /\ smpte_offset.sep \in {"colon", "semicolon"}

NumbersOK ==
  /\ IsRate(framerate) /\ midi_clkconvert \in 0 .. 2
  /\ ts_offset \in Int /\ newFrame \in Int /\ step \in 0 .. MaxSteps

HistoryOK ==
  /\ asked \in Texts \cup {NoText}
  /\ received \in [type : 0 .. 3, time : MtcTimes] \cup {NoTime}

TypeOK == FlagsOK /\ TextOK /\ NumbersOK /\ HistoryOK

Digits(t) == Fields(t.frame, t.sec, t.min, t.hour)

\* Counting with dropped numbers is only defined for 30 numbers a second.
DropFits == DropShown => Base(framerate) = 30

\* A whole time code that exists at this rate and in this count.  From
\* 09:20:00;00 on the float product in smpte_to_frame (smpte.c:234) is more than
\* a frame above the count, and cutting it off leaves one frame too many.
Exists(t) ==
  /\ IsTimecode(Base(framerate), t)
  /\ DropShown => ~IsDropped(t) /\ t.hour < 9

\* While the transport rolls, the time code on the screen (xjadeo.c:1733) is
\* followed by the next one: insert_drop_frames skips the dropped numbers and
\* nothing else, over minutes, tens of minutes and hours.
TimecodeAdvances ==
  [][ newFrame >= 0 /\ newFrame' = newFrame + 1 /\ DropFits
        /\ UNCHANGED <<framerate, DropShown>>
      => Digits(ShownWith(newFrame, FALSE))' =
           NextTimecode(Base(framerate), DropShown,
                        Digits(ShownWith(newFrame, FALSE))) ]_vars

\* The offset that was entered as a time code is the one that the offset
\* display shows (display.c:650): smptestring_to_frame and
\* frame_to_smptestring are inverse, dropped numbers included.
OffsetIsShown ==
  asked.sep = "colon" /\ Exists(asked) /\ DropFits /\ midi_clkconvert = 0
    => /\ Digits(ShownWith(ts_offset, TRUE)) = Digits(asked)
       /\ ~ShownWith(ts_offset, TRUE).negative

\* The time that MTC sends is the time that is shown, if the file has the
\* frame rate of the time code. Counting by the file's rate agrees too, for
\* whole rates without dropped numbers.
MtcIsShown ==
  /\ received # NoTime
  /\ \/ midi_clkconvert = 0
     \/ midi_clkconvert = 1 /\ framerate.den = 1 /\ received.type # 2
  /\ Base(MtcRate(received.type)) = Base(framerate)
  /\ Exists(received.time)
  /\ DropShown <=> received.type = 2
  => Digits(ShownWith(newFrame, FALSE)) = Digits(received.time)

\* Loading a file of the same rate keeps an offset that was set by keys
\* (xjadeo.c:1394 recalculates it from its text), if it is within a day and
\* the text says all: no sign, no semicolon.
ForwardOffsetIsKept ==
  [][ /\ \E r \in Rates : OpenMovie(r)
      /\ keyed /\ ~DropShown /\ ~DropShown'
      /\ ts_offset \in 0 .. 86400 * Base(framerate) - 1
      /\ framerate' = framerate
      => ts_offset' = ts_offset ]_vars

\* The same for every offset, as the comment in open_movie has it: the offset
\* is recalculated for the new frame rate. A rate that is the same gives the
\* same offset.
OffsetIsRecalculated ==
  [][ /\ \E r \in Rates : OpenMovie(r)
      /\ keyed /\ framerate' = framerate
      => ts_offset' = ts_offset ]_vars

\* smpte.c:230: dropframes are not required or permitted when operating at
\* 24, 25 or 30 frames per second.
DropOnlyWherePermitted ==
  framerate.den = 1 /\ framerate.num \in {24, 25, 30} /\ received = NoTime
    /\ ~want_dropframes
    => ~DropShown
=============================================================================
