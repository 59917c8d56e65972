-------------------------------- MODULE Mtc --------------------------------
(***************************************************************************)
(* MIDI time code (midi.c): a sender, the parser, which assembles times    *)
(* from quarter-frame messages, and the poll of each of the four drivers,  *)
(* which adds the quarter frames that have passed since.                   *)
(*                                                                         *)
(* A position is counted in quarter frames.  A time takes eight messages,  *)
(* one per digit, so that it is two frames old when it is complete.        *)
(* Between sender and parser messages keep their order, but may be lost,   *)
(* a whole lap of the ring at once in the JACK-MIDI driver.                *)
(***************************************************************************)
EXTENDS Integers

CONSTANTS
  Fps,           \* frames per second of the time code (last_tc.type)
  Lap,           \* messages that a ring loses when it is overrun
  StopLimit,     \* polls without a new time until the transport is stuck
  First, Last,   \* the sender stays between these positions
  Starts,        \* where it may be at first
  Targets,       \* the frames that it may locate to
  MaxChanges,    \* bound on what disturbs the sequence of messages
  NoFrame

Drivers == {"JACK-MIDI", "ALSA-Sequencer", "PORTMIDI", "ALSA-RAW-MIDI"}

ASSUME MtcAssumption ==
  /\ Fps \in 1 .. 30
  /\ Lap \in Nat /\ Lap % 8 = 0
  /\ StopLimit \in Nat /\ MaxChanges \in Nat
  /\ First \in Nat /\ Last \in Nat
  /\ Starts \subseteq First .. Last /\ Targets \subseteq Nat
  /\ NoFrame \notin Int

VARIABLES
  driver,
  pos, dir,              \* the sender: position of its last message, where it goes
  tc, last_tc,           \* time that is being assembled, last complete one
  full_tc,               \* the ticks that have been seen
  half,                  \* frame of a message that has arrived in part
  mpc,                   \* where the poll is
  now,                   \* its copy of last_tc
  lastframe, stopcnt,
  shown,                 \* what the last poll returned, 0 while one runs, or once
                         \* two messages have come since
  changes,               \* bound: number of disturbances
  run,                   \* history: how many messages came one after the other
                         \* since the sender started, turned round or was taken
                         \* for stuck; negative backwards
  apart,                 \* history: messages since the last poll read the time,
                         \* up to 2
  located                \* history: frame of the message parsed last

senderVars == <<pos, dir, changes>>
parserVars == <<tc, last_tc, full_tc, half>>
callVars == <<mpc, now, lastframe, stopcnt>>
pollVars == <<callVars, shown>>
histVars == <<run, apart, located>>

vars == <<driver, senderVars, parserVars, pollVars, histVars>>

-----------------------------------------------------------------------------
(* Times. *)

Time(f) ==
  [frame |-> f % Fps, sec |-> (f \div Fps) % 60, min |-> (f \div (60 * Fps)) % 60,
   hour |-> f \div (3600 * Fps), tick |-> 0]

\* convert_smpte_to_frame, for a movie that counts like the time code.
Frame(t) == ((t.hour * 60 + t.min) * 60 + t.sec) * Fps + t.frame

Zero == Time(0)

\* The field that message n is about; even ones have its low digit.
Field(n) == CASE n \in {0, 1} -> "frame" [] n \in {2, 3} -> "sec"
              [] n \in {4, 5} -> "min" [] OTHER -> "hour"

Digit(n, t) == IF n % 2 = 0 THEN t[Field(n)] % 16 ELSE t[Field(n)] \div 16

\* SL and SH.
WithDigit(t, n, d) ==
  [t EXCEPT ![Field(n)] = IF n % 2 = 0 THEN (@ \div 16) * 16 + d ELSE (@ % 16) + d * 16]

Piece(p) == p % 8

\* The time whose digits are sent around position p.
TimeAt(p) == Time(2 * (p \div 8))

\* rint: to the nearest integer, ties to the even one; of t / 4.
Rint(t) ==
  LET q == t \div 4
  IN  IF t % 4 > 2 \/ (t % 4 = 2 /\ q % 2 = 1) THEN q + 1 ELSE q

AllTicks == 0 .. 7

-----------------------------------------------------------------------------
(* The parser.  last_tc.tick counts the quarter frames since last_tc.      *)

\* The last digit copies the time, if all digits are known.
Complete(n, full) == n = 7 /\ full = AllTicks

SinceLate(tick, diff) == tick + 8

SinceBackwards(tick, diff) == IF diff \in {7, -1, -7, 1} THEN tick + 7 ELSE 0

\* The latency of a complete time, from the change of the tick.
Since(tick, diff) ==
  IF diff \in {7, -1} THEN -tick
  ELSE IF diff \in {-7, 1} THEN tick + 7 ELSE 0

\* Message n with digit d.  Messages out of order start over.
parse_timecode(n, d) ==
  LET tick == (n + 1) % 8
      diff == tick - tc.tick
      full == full_tc \cup {tick}
      read == [WithDigit(tc, n, d) EXCEPT !.tick = tick]
      whole == IF Complete(n, full) THEN read ELSE last_tc
  IN  /\ tc' = IF Complete(n, full) THEN Zero ELSE read
      /\ last_tc' = [whole EXCEPT !.tick =
                       IF full = AllTicks THEN Since(tick, diff) ELSE 0]
      /\ full_tc' = IF full = AllTicks /\ diff \notin {7, -1, -7, 1} THEN {} ELSE full

\* A full-frame message has the fields in this order.
FieldsIn == <<"hour", "min", "sec", "frame">>

LocatedRolling(f, k) ==
  [x \in DOMAIN last_tc |->
     IF \E i \in 1 .. k : x = FieldsIn[i] THEN Time(f)[x] ELSE last_tc[x]]

Located(f, k) ==
  [x \in DOMAIN last_tc |->
     IF x = "tick" \/ \E i \in 1 .. k : x = FieldsIn[i] THEN Time(f)[x] ELSE last_tc[x]]

\* For the bytes of frame f up to the k-th field; the tick is reset before.
parse_sysex_urtm(f, k) ==
  /\ last_tc' = Located(f, k)
  /\ half' = IF k = 4 THEN NoFrame ELSE f
  /\ UNCHANGED <<tc, full_tc>>

-----------------------------------------------------------------------------
(* The sender, and the arrival of its messages.                            *)

\* JACK-MIDI and ALSA-RAW-MIDI parse in the poll, before they read the time;
\* the others on a thread of their own, up to 2 messages during a poll.
MayParse ==
  mpc # "idle" => driver \in {"ALSA-Sequencer", "PORTMIDI"} /\ apart < 2

Disturb == changes < MaxChanges /\ changes' = changes + 1

Longer(d) == IF run * d < 17 THEN run + d ELSE run

Aside ==
  /\ apart' = IF apart = 2 THEN 2 ELSE apart + 1
  /\ shown' = IF apart = 0 THEN shown ELSE 0

\* The next quarter frame is sent and parsed; c says that the one before it in
\* that direction was, too.
Arrive(p, c) ==
  /\ MayParse
  /\ half = NoFrame
  /\ parse_timecode(Piece(p), Digit(Piece(p), TimeAt(p)))
  /\ run' = IF c THEN Longer(dir) ELSE dir
  /\ Aside /\ located' = NoFrame
  /\ pos' = p
  /\ UNCHANGED <<driver, dir, half, callVars>>

Send ==
  /\ dir # 0 /\ pos + dir \in First .. Last
  /\ Arrive(pos + dir, TRUE)
  /\ UNCHANGED changes

\* A message does not arrive, or a whole lap of a ring does not.
Lose(n) ==
  /\ dir # 0 /\ pos + dir * (n + 1) \in First .. Last /\ Disturb
  /\ n = 1 \/ driver = "JACK-MIDI"
  /\ Arrive(pos + dir * (n + 1), FALSE)

\* The sender starts, or turns round.  This has no effect on a poll that goes
\* on, and is put before or after it.
Roll(d) ==
  /\ mpc = "idle"
  /\ dir # d /\ dir' = d /\ Disturb
  /\ run' = 0
  /\ UNCHANGED <<driver, pos, parserVars, pollVars, apart, located>>

Stop ==
  /\ mpc = "idle"
  /\ dir # 0 /\ dir' = 0
  /\ UNCHANGED <<driver, pos, changes, parserVars, pollVars, histVars>>

\* A sender that is stopped locates; it will go on with the first digit of f.
\* Two drivers get the message in pieces, and may poll in between.
Locate(f) ==
  /\ dir = 0 /\ Disturb /\ MayParse /\ half = NoFrame
  /\ \E k \in IF driver \in {"PORTMIDI", "ALSA-RAW-MIDI"} THEN 0 .. 4 ELSE {4} :
       /\ parse_sysex_urtm(f, k)
       /\ located' = IF k = 4 THEN f ELSE NoFrame
  /\ pos' = 4 * f - 1
  /\ run' = 0 /\ Aside
  /\ UNCHANGED <<driver, dir, callVars>>

LocateRest ==
  /\ half # NoFrame /\ MayParse
  /\ parse_sysex_urtm(half, 4)
  /\ located' = half /\ Aside
  /\ UNCHANGED <<driver, senderVars, callVars, run>>

-----------------------------------------------------------------------------
(* midi_poll_frame.                                                        *)

\* The time is read; under the lock of the ALSA sequencer's thread, or as an
\* answer of PortMidi's thread.  event_loop polls once per frame of the movie;
\* while the sender rolls, at least one message comes in between.
PollRead ==
  /\ mpc = "idle"
  /\ dir # 0 => apart > 0
  /\ apart' = 0
  /\ IF driver = "ALSA-RAW-MIDI"
       THEN shown' = Frame(last_tc) /\ UNCHANGED <<mpc, now>>
       ELSE mpc' = "check" /\ now' = last_tc /\ shown' = 0
  /\ UNCHANGED <<driver, pos, dir, changes, parserVars, lastframe, stopcnt, run, located>>

StuckNever(frame) == FALSE

\* The time has not changed for long.
Stuck(frame) == lastframe = frame /\ stopcnt > StopLimit

\* full_tc is read without a lock; the transport may be stuck.  The reset of
\* full_tc and of the tick is one step with the test, also for PortMidi, whose
\* thread may parse a message in between.
PollCheck ==
  LET frame == Frame(now)
  IN  /\ mpc = "check"
      /\ IF full_tc # AllTicks
           THEN /\ shown' = frame /\ mpc' = "idle" /\ now' = Zero
                /\ UNCHANGED <<parserVars, lastframe, stopcnt, run>>
           ELSE /\ lastframe' = frame
                /\ stopcnt' = IF lastframe # frame THEN 0
                              ELSE IF stopcnt > StopLimit THEN stopcnt ELSE stopcnt + 1
                /\ IF Stuck(frame)
                     THEN /\ full_tc' = {} /\ last_tc' = [last_tc EXCEPT !.tick = 0]
                          /\ now' = [now EXCEPT !.tick = 0]
                          /\ run' = 0
                     ELSE UNCHANGED <<full_tc, last_tc, now, run>>
                /\ mpc' = "tick"
                /\ UNCHANGED <<tc, half, shown>>
      /\ UNCHANGED <<driver, senderVars, apart, located>>

\* PortMidi uses the tick of its copy, the others read it now.
PollTick ==
  /\ mpc = "tick" /\ mpc' = "idle" /\ now' = Zero
  /\ shown' = Frame(now) + Rint(IF driver = "PORTMIDI" THEN now.tick ELSE last_tc.tick)
  /\ UNCHANGED <<driver, senderVars, parserVars, lastframe, stopcnt, histVars>>

\* The source is closed and opened again: the fields of the times are reset,
\* the ticks and full_tc are not.
Reconnect ==
  /\ mpc = "idle" /\ Disturb
  /\ tc' = [Zero EXCEPT !.tick = tc.tick]
  /\ last_tc' = [Zero EXCEPT !.tick = last_tc.tick]
  /\ half' = NoFrame
  /\ run' = 0 /\ located' = NoFrame
  /\ UNCHANGED <<driver, pos, dir, full_tc, pollVars, apart>>

-----------------------------------------------------------------------------
Init ==
  /\ driver \in Drivers
  /\ pos \in Starts /\ dir = 0
  /\ tc = Zero /\ last_tc = Zero /\ full_tc = {} /\ half = NoFrame
  /\ mpc = "idle" /\ now = Zero
  /\ lastframe = -1 /\ stopcnt = 0 /\ shown = 0
  /\ changes = 0
  /\ run = 0 /\ apart = 0 /\ located = NoFrame

Poll == PollRead \/ PollCheck \/ PollTick

Sender ==
  \/ Send \/ Stop \/ LocateRest
  \/ \E n \in {1, Lap} : Lose(n)
  \/ \E d \in {-1, 1} : Roll(d)
  \/ \E f \in Targets : Locate(f)

Next == Sender \/ Poll \/ Reconnect

Spec == Init /\ [][Next]_vars

\* The event loop polls again and again.
Fairness == WF_vars(Poll)

FairSpec == Spec /\ Fairness

-----------------------------------------------------------------------------
(* Properties. *)

Times == [frame : Nat, sec : Nat, min : Nat, hour : Nat, tick : -7 .. 14]

\* The values of the variables.
TypeOK ==
  /\ driver \in Drivers
  /\ pos \in Int /\ dir \in {-1, 0, 1}
  /\ {tc, last_tc, now} \subseteq Times
  /\ full_tc \subseteq AllTicks
  /\ {half, located} \subseteq Targets \cup {NoFrame}
  /\ mpc \in {"idle", "check", "tick"}
  /\ lastframe \in Int /\ shown \in Int /\ stopcnt \in 0 .. StopLimit + 1
  /\ changes \in 0 .. MaxChanges
  /\ run \in -17 .. 17 /\ apart \in 0 .. 2

Far(f, p) == IF 4 * f > p THEN 4 * f - p ELSE p - 4 * f

\* 16 messages in direction d had come one after the other when the poll that
\* ended last read the time; at most one has come since, while it read the tick
\* or after it.
Polled(d) == mpc = "idle" /\ apart <= 1 /\ run * d >= 16 + apart

\* What is left of the latency: the driver for raw MIDI does not correct it,
\* and that of the ALSA sequencer may add the tick of the next time to this one.
LagForward ==
  IF driver = "ALSA-RAW-MIDI" THEN 14
  ELSE IF driver = "ALSA-Sequencer" /\ apart = 1 THEN 10 ELSE 2

\* After 16 messages in a row, forwards, a poll returns the frame nearest to
\* the position of the message that came last, whatever was lost, repeated or
\* sent before, within the latency of the driver.
ForwardIsExact ==
  Polled(1) => Far(shown, pos) <= LagForward + apart

\* Backwards it is within two frames, but where the high digit of the hour
\* changes: that digit comes first, and is taken with the time before.
ReverseIsClose ==
  /\ Polled(-1)
  /\ Digit(7, TimeAt(pos)) = Digit(7, TimeAt(pos + 16))
  => Far(shown, pos) <= 8 + 2 * apart

\* Whichever way the time runs, a poll follows it.
PositionIsFollowed == ForwardIsExact /\ ReverseIsClose

\* A full-frame message is what the next poll returns once it has come as a
\* whole, whatever was sent before.
LocateIsShown ==
  mpc = "idle" /\ located # NoFrame /\ apart = 0 => shown = located

\* When the sender has stopped, a poll returns the time that was assembled,
\* without a share for time that passes, unless the sender starts again.
StopIsNoticed == dir = 0 ~> (mpc = "idle" /\ shown = Frame(last_tc)) \/ dir # 0

\* A poll takes the transport for stuck only if no full time has come since it
\* started: "we expect a full midi MTC every (2.0*framerate/delay) polls"
\* (midi.c:593).
RollingIsNotStuck ==
  [][mpc = "check" /\ mpc' = "tick" /\ full_tc' = {} => dir = 0 \/ run \in -7 .. 7]_vars
=============================================================================
