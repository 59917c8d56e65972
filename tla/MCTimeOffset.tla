---------------------------- MODULE MCTimeOffset ----------------------------
(***************************************************************************)
(* Small instances of TimeOffset.                                          *)
(***************************************************************************)
EXTENDS TimeOffset

Fps(num, den) == [num |-> num, den |-> den]

MCRates == {Fps(25, 1), Fps(30, 1), Fps(30000, 1001)}

\* Around a minute, ten minutes, an hour and a day, of 25 and of 30 frames per
\* second, with and without dropped numbers, and before 0.
MCStarts ==
  {-1, 1499, 1799, 3597, 17981, 89999, 107891, 1006989, 2159999, 2589407}

Text(h, m, s, f, sep) ==
  [hour |-> h, min |-> m, sec |-> s, frame |-> f, sep |-> sep]

\* A time of day, the last before a ten-minute mark, a negative and a plain
\* number.
MCTexts == {Text(1, 0, 0, 2, "colon"), Text(8, 19, 59, 24, "colon"),
            Text(0, 0, 0, -25, "plain"), Text(0, 1, 0, 1, "semicolon")}

Time(h, m, s, f) == [hour |-> h, min |-> m, sec |-> s, frame |-> f]

MCMtcTimes == {Time(0, 1, 0, 2), Time(8, 10, 0, 0), Time(23, 59, 59, 23)}
=============================================================================
