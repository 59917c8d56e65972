------------------------------ MODULE Timecode ------------------------------
(***************************************************************************)
(* SMPTE time code (src/src/xjadeo/smpte.c): frame numbers to time code,   *)
(* for the screen and for the remote, and time code to frame numbers, from *)
(* the user and from MTC.                                                  *)
(*                                                                         *)
(* A frame rate is a fraction [num, den] in frames per second.  A time     *)
(* code is the record of its fields; a text is what is left of a string    *)
(* when its layout is taken away: the numbers and the separator that       *)
(* stands before the frames, or no separator at all for a plain number.    *)
(* Frame numbers are assumed to fit into an int, as parse_int does.        *)
(***************************************************************************)
EXTENDS Integers

\* ceil (FPS): the frames that a second of time code counts.
Base(rate) == (rate.num + rate.den - 1) \div rate.den

\* n * num / den, rounded down; the product itself need not fit into TLC's
\* integers.
Scaled(n, num, den) == (n \div den) * num + ((n % den) * num) \div den

\* C's division of integers: towards zero.
Truncated(a, b) == IF a >= 0 THEN a \div b ELSE -((-a) \div b)

\* rint (n * num / den): to the nearest integer, to the even one of two.
ScaledNearest(n, num, den) ==
  LET q == Scaled(n, num, den)
      r == 2 * (((n % den) * num) % den)
  IN  IF r < den \/ (r = den /\ q % 2 = 0) THEN q ELSE q + 1

Fields(f, s, m, h) == [frame |-> f, sec |-> s, min |-> m, hour |-> h]

\* FIX_SMPTE_OVERFLOW, from the frames up: every field is brought into its
\* range; overflow counts the days.
Carried(base, t) ==
  LET s == t.sec + t.frame \div base
      m == t.min + s \div 60
      h == t.hour + m \div 60
  IN  [frame |-> t.frame % base, sec |-> s % 60, min |-> m % 60,
       hour |-> h % 24, overflow |-> h \div 24]

ParseInt(base, n) == Carried(base, Fields(n, 0, 0, 0))

-----------------------------------------------------------------------------
(* Frame numbers to time code.                                             *)

\* Mutant: the first minute of ten is one like the others.
InsertDropFramesAlways(n) ==
  LET ten == Truncated(n, 17982)
      off == n - 17982 * ten
  IN  18000 * ten + off + 2 * (off \div 1798)

\* insert_drop_frames: the frame number in a count that includes the dropped
\* numbers, two for each minute except the tenth.
InsertDropFrames(n) ==
  LET ten == Truncated(n, 17982)
      off == n - 17982 * ten
  IN  18000 * ten + off
        + (IF off >= 1800 THEN 2 + 2 * ((off - 1800) \div 1798) ELSE 0)

\* frame_to_smptestring: with add_sign a negative frame is shown as its
\* absolute value with a sign, without as the time of the day before.
FrameToSmpteString(base, drop, n, add_sign) ==
  LET k == IF drop THEN InsertDropFrames(n) ELSE n
      t == ParseInt(base, IF add_sign /\ k < 0 THEN -k ELSE k)
  IN  [negative |-> add_sign /\ k < 0,
       hour |-> t.hour, min |-> t.min, sec |-> t.sec, frame |-> t.frame,
       sep |-> IF drop THEN "semicolon" ELSE "colon"]

-----------------------------------------------------------------------------
(* Time code to frame numbers.                                             *)

MtcRate(type) ==
  CASE type = 0 -> [num |-> 24, den |-> 1]
    [] type = 1 -> [num |-> 25, den |-> 1]
    [] type = 2 -> [num |-> 30000, den |-> 1001]
    [] type = 3 -> [num |-> 30, den |-> 1]

Seconds(t) == t.sec + 60 * t.min + 3600 * t.hour

\* Mutant: the numbers that are dropped are counted.
DropCountAll(fps, t) ==
  Scaled(3600 * t.hour + 600 * (t.min \div 10), fps.num, fps.den)
    + 30 * (60 * (t.min % 10) + t.sec) + t.frame

\* smpte_to_frame with drop frames: whole groups of ten minutes by the rate
\* fps, then the frames of the group less the dropped numbers.
DropCount(fps, t) ==
  Scaled(3600 * t.hour + 600 * (t.min \div 10), fps.num, fps.den)
    + 30 * (60 * (t.min % 10) + t.sec) + t.frame - 2 * (t.min % 10)

\* smpte_to_frame: mode is midi_clkconvert, 0 to count by the rate of the
\* time code, 1 by that of the video, 2 to convert from one to the other.
SmpteToFrame(rate, type, t, dropped, mode) ==
  LET fps   == MtcRate(type)
      count == IF dropped THEN DropCount(fps, t)
                          ELSE t.frame + Scaled(Seconds(t), fps.num, fps.den)
      per   == IF dropped THEN 30 ELSE fps.num
  IN  CASE mode = 1 -> t.frame + Scaled(Seconds(t), rate.num, rate.den)
        [] mode = 2 -> ScaledNearest(count, rate.num, per * rate.den)
        [] OTHER    -> count

\* parse_string takes the frames from behind the last colon: with a semicolon
\* before them the seconds are read instead, and so on upwards.
TextFields(text) ==
  CASE text.sep = "colon" -> Fields(text.frame, text.sec, text.min, text.hour)
    [] text.sep = "semicolon" -> Fields(text.sec, text.min, text.hour, 0)
    [] OTHER          -> Fields(text.frame, 0, 0, 0)

HasColon(text) == text.sep # "plain"

\* to_frame: as smpte_to_frame, without dropping; the day before is negative.
ToFrame(base, t) ==
  (IF t.overflow < 0 THEN Seconds(t) - 86400 ELSE Seconds(t)) * base + t.frame

\* smptestring_to_frame.
SmpteStringToFrame(rate, text, dropped, mode) ==
  LET t == Carried(Base(rate), TextFields(text))
      n == SmpteToFrame(rate, 2, t, TRUE, mode)
  IN  IF ~dropped THEN ToFrame(Base(rate), t)
      ELSE IF t.overflow < 0 THEN n - 30 * 86400
      ELSE n

-----------------------------------------------------------------------------
(* The rules of SMPTE time code, to compare with.                          *)

\* Numbers that drop-frame time code leaves out (smpte.c:238).
IsDropped(t) == t.sec = 0 /\ t.frame < 2 /\ t.min % 10 # 0

\* The time code of the next frame, at midnight of the next day.
NextTimecode(base, drop, t) ==
  LET u == Carried(base, Fields(t.frame + 1, t.sec, t.min, t.hour))
      v == [frame |-> u.frame, sec |-> u.sec, min |-> u.min, hour |-> u.hour]
  IN  IF drop /\ IsDropped(v) THEN [v EXCEPT !.frame = 2] ELSE v
=============================================================================
