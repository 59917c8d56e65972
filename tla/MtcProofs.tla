----------------------------- MODULE MtcProofs -----------------------------
(***************************************************************************)
(* Proofs about Mtc, for any rate of up to 30 frames per second, any       *)
(* positions of the sender, and any number of disturbances: types, what a  *)
(* full-frame message shows, and that the sender is followed after 16      *)
(* messages in a row.                                                      *)
(***************************************************************************)
EXTENDS Mtc, TLAPS

-----------------------------------------------------------------------------
(* Times. *)

LEMMA Nested ==
  ASSUME NEW n \in Nat
  PROVE  n \div (60 * Fps) = (n \div Fps) \div 60 /\ n \div (3600 * Fps) = (n \div Fps) \div 3600
<1> DEFINE b == Fps
           s == n \div b
<1>0. b \in Nat \ {0}
  BY MtcAssumption
<1> HIDE DEF b
<1>1. s \in Nat /\ n - s * b \in 0 .. b - 1
  BY <1>0
<1> HIDE DEF s
<1>2. ASSUME NEW c \in {60, 3600}
      PROVE  n \div (c * b) = s \div c
  <2> DEFINE q == s \div c
             d == c * b
  <2>1. q \in Nat /\ s - q * c \in 0 .. c - 1
    BY <1>1
  <2>2. d \in Nat \ {0}
    BY <1>0
  <2> HIDE DEF q
  <2>3. q * d <= n /\ n < q * d + d
    <3>1. CASE c = 60
      BY <1>0, <1>1, <2>1, <3>1
    <3>2. CASE c = 3600
      BY <1>0, <1>1, <2>1, <3>2
    <3> QED
      BY <3>1, <3>2
  <2> HIDE DEF d
  <2>4. n \div d = q
    BY <2>1, <2>2, <2>3
  <2> QED
    BY <2>4 DEF d, q
<1> QED
  BY <1>2 DEF s, b

\* A time shows the frame that it was made from.
LEMMA Division ==
  ASSUME NEW b \in Nat \ {0}, NEW n \in Nat
  PROVE  n \div b \in Nat /\ n % b \in Nat /\ n = (n \div b) * b + (n % b)
<1>1. n \div b \in Nat /\ n % b \in Nat
  OBVIOUS
<1> DEFINE q == n \div b
           r == n % b
<1>2. r = n - b * q
  OBVIOUS
<1> HIDE DEF q, r
<1>3. q \in Nat /\ r \in Nat
  BY <1>1 DEF q, r
<1>4. b * q = q * b /\ b * q \in Nat
  BY <1>3
<1>5. n = q * b + r
  BY <1>2, <1>3, <1>4
<1> QED
  BY <1>3, <1>5 DEF q, r

LEMMA FrameOfTime ==
  ASSUME NEW f \in Nat
  PROVE  Frame(Time(f)) = f
<1> DEFINE b == Fps
           s == f \div b
<1>1. b \in Nat \ {0}
  BY MtcAssumption
<1>2. s \in Nat /\ f % b \in Nat /\ f = s * b + (f % b)
  BY <1>1, Division
<1>3. Time(f) = [frame |-> f % b, sec |-> s % 60, min |-> (s \div 60) % 60,
                 hour |-> s \div 3600, tick |-> 0]
  <2>1. f \div (60 * b) = s \div 60 /\ f \div (3600 * b) = s \div 3600
    BY Nested
  <2> HIDE DEF s
  <2>2. f \div Fps = s
    BY DEF s
  <2> QED
    BY <2>1, <2>2 DEF Time
<1> HIDE DEF s
<1>4. ((s \div 3600) * 60 + ((s \div 60) % 60)) * 60 + (s % 60) = s
  <2>1. s \div 3600 = (s \div 60) \div 60
    BY <1>2
  <2>2. s = (s \div 60) * 60 + (s % 60) /\ s \div 60 \in Nat
    BY <1>2, Division
  <2>3. s \div 60 = ((s \div 60) \div 60) * 60 + ((s \div 60) % 60)
    BY <2>2, Division
  <2> QED
    BY <2>1, <2>2, <2>3
<1>5. Frame(Time(f)) = (((s \div 3600) * 60 + ((s \div 60) % 60)) * 60 + (s % 60)) * b + (f % b)
  <2> DEFINE t == Time(f)
  <2>1. t.frame = f % b /\ t.sec = s % 60 /\ t.min = (s \div 60) % 60 /\ t.hour = s \div 3600
    BY <1>3
  <2> HIDE DEF t
  <2>2. Frame(t) = ((t.hour * 60 + t.min) * 60 + t.sec) * b + t.frame
    BY DEF Frame
  <2> QED
    <3>1. Frame(t) = (((s \div 3600) * 60 + ((s \div 60) % 60)) * 60 + (s % 60)) * b + (f % b)
      BY <2>1, <2>2
    <3> QED
      BY <3>1 DEF t
<1> QED
  BY <1>2, <1>4, <1>5

LEMMA TimeType ==
  ASSUME NEW f \in Nat
  PROVE  Time(f) \in Times /\ Time(f).tick = 0
<1>1. Fps \in Nat \ {0} /\ 60 * Fps \in Nat \ {0} /\ 3600 * Fps \in Nat \ {0}
  BY MtcAssumption
<1>2. \A d \in Nat \ {0} : f % d \in Nat /\ f \div d \in Nat
  OBVIOUS
<1>3. \A n \in Nat : n % 60 \in Nat
  OBVIOUS
<1> QED
  BY <1>1, <1>2, <1>3 DEF Time, Times

LEMMA ZeroType == Zero \in Times /\ Zero.tick = 0
  BY TimeType DEF Zero

LEMMA FrameType == \A t \in Times : Frame(t) \in Int
  BY MtcAssumption DEF Frame, Times

LEMMA RintType == \A t \in Int : Rint(t) \in Int
  BY DEF Rint

LEMMA DigitType ==
  ASSUME NEW t \in Times, NEW u \in Times, NEW n \in 0 .. 7
  PROVE  WithDigit(t, n, Digit(n, u)) \in Times
<1> DEFINE F == Field(n)
           d == Digit(n, u)
<1>1. F \in {"frame", "sec", "min", "hour"}
  BY DEF Field
<1>2. t[F] \in Nat /\ u[F] \in Nat
  BY <1>1 DEF Times
<1>3. d \in Nat
  BY <1>2 DEF Digit
<1>4. (t[F] \div 16) * 16 + d \in Nat /\ (t[F] % 16) + d * 16 \in Nat
  <2> HIDE DEF F, d
  <2> QED
    BY <1>2, <1>3
<1>5. \A x \in Nat : [t EXCEPT ![F] = x] \in Times
  <2> HIDE DEF F
  <2> QED
    BY <1>1 DEF Times
<1> QED
  BY <1>4, <1>5 DEF WithDigit

-----------------------------------------------------------------------------
(* What the parser does to the types. *)

ParserType == /\ tc \in Times /\ tc.tick \in 0 .. 7 /\ last_tc \in Times
              /\ full_tc \subseteq AllTicks

LEMMA ParseType ==
  ASSUME ParserType, NEW n \in 0 .. 7, NEW u \in Times, parse_timecode(n, Digit(n, u))
  PROVE  ParserType'
<1> DEFINE t == (n + 1) % 8
           diff == t - tc.tick
           full == full_tc \cup {t}
           r == [WithDigit(tc, n, Digit(n, u)) EXCEPT !.tick = t]
           whole == IF Complete(n, full) THEN r ELSE last_tc
           k == IF full = AllTicks THEN Since(t, diff) ELSE 0
<1>1. t \in 0 .. 7 /\ diff \in Int
  BY DEF ParserType
<1>2. full \subseteq AllTicks
  BY <1>1 DEF ParserType, AllTicks
<1>3. r \in Times /\ r.tick = t
  <2>1. WithDigit(tc, n, Digit(n, u)) \in Times
    BY DigitType DEF ParserType
  <2>2. \A w \in Times, x \in 0 .. 7 : [w EXCEPT !.tick = x] \in Times /\ [w EXCEPT !.tick = x].tick = x
    BY DEF Times
  <2> HIDE DEF t
  <2> QED
    BY <1>1, <2>1, <2>2
<1>4. k \in -7 .. 14
  BY <1>1 DEF Since
<1>5. whole \in Times
  BY <1>3 DEF ParserType
<1> HIDE DEF t, k
<1>6. [whole EXCEPT !.tick = k] \in Times
  BY <1>4, <1>5 DEF Times
<1>7. last_tc' = [whole EXCEPT !.tick = k] /\ tc' = (IF Complete(n, full) THEN Zero ELSE r)
      /\ (full_tc' = full \/ full_tc' = {})
  BY DEF parse_timecode, t, k
<1>8. tc' \in Times /\ tc'.tick \in 0 .. 7
  BY <1>1, <1>3, <1>7, ZeroType
<1> QED
  BY <1>2, <1>6, <1>7, <1>8 DEF ParserType

LEMMA LocatedType ==
  ASSUME ParserType, NEW f \in Nat, NEW k \in 0 .. 4
  PROVE  Located(f, k) \in Times
<1>1. Time(f) \in Times /\ last_tc \in Times
  BY TimeType DEF ParserType
<1>2. DOMAIN last_tc = {"frame", "sec", "min", "hour", "tick"}
  BY <1>1 DEF Times
<1>3. \A x \in DOMAIN last_tc : Located(f, k)[x] = Time(f)[x] \/ Located(f, k)[x] = last_tc[x]
  BY DEF Located
<1>4. Located(f, k) = [frame |-> Located(f, k).frame, sec |-> Located(f, k).sec,
                       min |-> Located(f, k).min, hour |-> Located(f, k).hour,
                       tick |-> Located(f, k).tick]
  BY <1>2 DEF Located
<1> QED
  BY <1>1, <1>2, <1>3, <1>4 DEF Times

\* A full-frame message that has come as a whole is the time.
LEMMA LocatedWhole ==
  ASSUME ParserType, NEW f \in Nat
  PROVE  Located(f, 4) = Time(f)
<1>1. Time(f) \in Times /\ last_tc \in Times
  BY TimeType DEF ParserType
<1>2. DOMAIN last_tc = {"frame", "sec", "min", "hour", "tick"}
      /\ DOMAIN Time(f) = {"frame", "sec", "min", "hour", "tick"}
  BY <1>1 DEF Times
<1>3. \A x \in {"frame", "sec", "min", "hour"} : \E i \in 1 .. 4 : x = FieldsIn[i]
  <2>1. FieldsIn[1] = "hour" /\ FieldsIn[2] = "min" /\ FieldsIn[3] = "sec" /\ FieldsIn[4] = "frame"
    BY DEF FieldsIn
  <2> QED
    BY <2>1
<1>4. Located(f, 4) = [x \in DOMAIN last_tc |-> Time(f)[x]]
  BY <1>2, <1>3 DEF Located
<1>5. Time(f) = [x \in DOMAIN Time(f) |-> Time(f)[x]]
  BY <1>1 DEF Times
<1> QED
  BY <1>2, <1>4, <1>5

-----------------------------------------------------------------------------
(* The invariant: the types, and what the last full-frame message left.    *)

Inv ==
  /\ TypeOK /\ tc.tick \in 0 .. 7
  /\ located # NoFrame => last_tc = Time(located)
  /\ located # NoFrame /\ apart = 0 /\ mpc # "idle" => now = Time(located)
  /\ LocateIsShown

LEMMA Parameters ==
  /\ First \in Nat /\ Last \in Nat /\ First .. Last \subseteq Nat
  /\ StopLimit \in Nat /\ MaxChanges \in Nat
  /\ Starts \subseteq Nat /\ Targets \subseteq Nat /\ NoFrame \notin Int
  BY MtcAssumption

LEMMA InvInit ==
  ASSUME Init
  PROVE  Inv
<1>1. TypeOK
  BY Parameters, ZeroType DEF Init, TypeOK
<1> QED
  BY <1>1, ZeroType DEF Init, Inv, LocateIsShown

LEMMA AsideType ==
  ASSUME TypeOK, Aside
  PROVE  apart' \in {1, 2} /\ shown' \in Int
  BY DEF TypeOK, Aside

LEMMA ArriveInv ==
  ASSUME Inv, NEW p \in First .. Last, NEW c \in BOOLEAN, dir # 0, Arrive(p, c),
         changes' \in 0 .. MaxChanges
  PROVE  Inv'
<1>1. ParserType
  BY DEF Inv, TypeOK, ParserType
<1>2. p \in Nat /\ 2 * (p \div 8) \in Nat /\ Piece(p) \in 0 .. 7
  BY Parameters DEF Piece
<1>3. TimeAt(p) \in Times
  BY <1>2, TimeType DEF TimeAt
<1>4. ParserType'
  BY <1>1, <1>2, <1>3, ParseType DEF Arrive
<1>5. run' \in -17 .. 17
  <2>1. run \in -17 .. 17 /\ dir \in {-1, 1}
    BY DEF Inv, TypeOK
  <2>2. CASE dir = 1
    BY <2>1, <2>2 DEF Arrive, Longer
  <2>3. CASE dir = -1
    BY <2>1, <2>3 DEF Arrive, Longer
  <2> QED
    BY <2>1, <2>2, <2>3
<1>6. apart' \in {1, 2} /\ shown' \in Int
  BY AsideType DEF Inv, Arrive
<1>7. TypeOK'
  BY <1>2, <1>4, <1>5, <1>6 DEF Inv, TypeOK, ParserType, Arrive, callVars
<1> QED
  BY <1>4, <1>7 DEF Inv, Arrive, ParserType, LocateIsShown

LEMMA LocateInv ==
  ASSUME Inv, NEW f \in Targets, NEW k \in 0 .. 4, parse_sysex_urtm(f, k),
         located' = (IF k = 4 THEN f ELSE NoFrame), Aside,
         pos' \in Int, run' \in -17 .. 17, changes' \in 0 .. MaxChanges,
         UNCHANGED <<driver, dir, callVars>>
  PROVE  Inv'
<1>1. ParserType /\ f \in Nat
  BY Parameters DEF Inv, TypeOK, ParserType
<1>2. last_tc' = Located(f, k) /\ last_tc' \in Times /\ UNCHANGED <<tc, full_tc>>
      /\ half' \in Targets \cup {NoFrame}
  BY <1>1, LocatedType DEF parse_sysex_urtm
<1>3. located' # NoFrame => located' = f /\ last_tc' = Time(f)
  BY <1>1, <1>2, LocatedWhole
<1>4. apart' \in {1, 2} /\ shown' \in Int
  BY AsideType DEF Inv
<1>5. TypeOK'
  BY <1>2, <1>4 DEF Inv, TypeOK, callVars
<1> QED
  BY <1>2, <1>3, <1>4, <1>5 DEF Inv, LocateIsShown

LEMMA SenderInv ==
  ASSUME Inv, Sender
  PROVE  Inv'
<1>1. CASE Send
  <2>1. PICK p \in First .. Last : p = pos + dir
    BY <1>1 DEF Send
  <2> QED
    BY <1>1, <2>1, ArriveInv DEF Send, Inv, TypeOK
<1>2. ASSUME NEW n \in {1, Lap}, Lose(n)
      PROVE  Inv'
  <2>1. PICK p \in First .. Last : p = pos + dir * (n + 1)
    BY <1>2 DEF Lose
  <2>2. changes' \in 0 .. MaxChanges
    BY <1>2, Parameters DEF Lose, Disturb, Inv, TypeOK
  <2> QED
    BY <1>2, <2>1, <2>2, ArriveInv DEF Lose
<1>3. ASSUME NEW d \in {-1, 1}, Roll(d)
      PROVE  Inv'
  <2>1. changes' \in 0 .. MaxChanges
    BY <1>3, Parameters DEF Roll, Disturb, Inv, TypeOK
  <2>2. UNCHANGED <<driver, pos, tc, last_tc, full_tc, half, mpc, now, lastframe, stopcnt, shown,
                    apart, located>> /\ dir' = d /\ run' = 0
    BY <1>3 DEF Roll, parserVars, pollVars, callVars
  <2> QED
    BY <2>1, <2>2 DEF Inv, TypeOK, LocateIsShown
<1>4. CASE Stop
  <2>1. UNCHANGED <<driver, pos, changes, tc, last_tc, full_tc, half, mpc, now, lastframe, stopcnt,
                    shown, apart, located, run>> /\ dir' = 0
    BY <1>4 DEF Stop, parserVars, pollVars, callVars, histVars
  <2> QED
    BY <2>1 DEF Inv, TypeOK, LocateIsShown
<1>5. ASSUME NEW f \in Targets, Locate(f)
      PROVE  Inv'
  <2>1. PICK k \in 0 .. 4 : parse_sysex_urtm(f, k) /\ located' = IF k = 4 THEN f ELSE NoFrame
    BY <1>5 DEF Locate
  <2>2. changes' \in 0 .. MaxChanges /\ pos' \in Int /\ run' = 0
    BY <1>5, Parameters DEF Locate, Disturb, Inv, TypeOK
  <2> QED
    BY <1>5, <2>1, <2>2, LocateInv DEF Locate
<1>6. CASE LocateRest
  <2>1. PICK f \in Targets : f = half
    BY <1>6 DEF LocateRest, Inv, TypeOK
  <2>2. parse_sysex_urtm(f, 4) /\ located' = f /\ Aside /\ UNCHANGED <<driver, pos, dir, changes, callVars, run>>
    BY <1>6, <2>1 DEF LocateRest, senderVars
  <2>3. pos' \in Int /\ run' \in -17 .. 17 /\ changes' \in 0 .. MaxChanges
    BY <2>2 DEF Inv, TypeOK
  <2> QED
    BY <2>2, <2>3, LocateInv
<1> QED
  BY <1>1, <1>2, <1>3, <1>4, <1>5, <1>6 DEF Sender

LEMMA ShownTimes ==
  ASSUME Inv, located # NoFrame
  PROVE  /\ located \in Nat /\ last_tc = Time(located) /\ last_tc.tick = 0
         /\ Frame(Time(located)) = located /\ Time(located).tick = 0
         /\ [Time(located) EXCEPT !.tick = 0] = Time(located)
<1>1. located \in Nat
  BY Parameters DEF Inv, TypeOK
<1>2. Time(located) \in Times /\ Time(located).tick = 0
  BY <1>1, TimeType
<1>3. \A t \in Times : t.tick = 0 => [t EXCEPT !.tick = 0] = t
  BY DEF Times
<1> QED
  BY <1>1, <1>2, <1>3, FrameOfTime DEF Inv

LEMMA PollInv ==
  ASSUME Inv, Poll
  PROVE  Inv'
<1>0. TypeOK /\ Frame(last_tc) \in Int /\ Frame(now) \in Int
  BY FrameType DEF Inv, TypeOK
<1>1. CASE PollRead
  <2>1. UNCHANGED <<driver, pos, dir, changes, tc, last_tc, full_tc, half, lastframe, stopcnt, run,
                    located>> /\ apart' = 0
    BY <1>1 DEF PollRead, parserVars
  <2>2. CASE shown' = Frame(last_tc) /\ UNCHANGED <<mpc, now>>
    <3>1. TypeOK'
      BY <1>0, <2>1, <2>2 DEF TypeOK
    <3> QED
      BY <1>1, <2>1, <2>2, <3>1, ShownTimes DEF Inv, LocateIsShown, PollRead
  <2>3. CASE mpc' = "check" /\ now' = last_tc /\ shown' = 0
    <3>1. TypeOK'
      BY <1>0, <2>1, <2>3 DEF TypeOK
    <3> QED
      BY <2>1, <2>3, <3>1 DEF Inv, LocateIsShown
  <2> QED
    BY <1>1, <2>2, <2>3 DEF PollRead
<1>2. CASE PollCheck
  <2>1. UNCHANGED <<driver, pos, dir, changes, apart, located, tc, half>> /\ mpc = "check"
    BY <1>2 DEF PollCheck, senderVars, parserVars
  <2>2. CASE full_tc # AllTicks
    <3>1. /\ shown' = Frame(now) /\ mpc' = "idle" /\ now' = Zero
          /\ UNCHANGED <<last_tc, full_tc, lastframe, stopcnt, run>>
      BY <1>2, <2>2 DEF PollCheck, parserVars
    <3>2. TypeOK'
      BY <1>0, <2>1, <3>1, ZeroType DEF TypeOK
    <3> QED
      BY <2>1, <3>1, <3>2, ShownTimes DEF Inv, LocateIsShown
  <2>3. CASE full_tc = AllTicks
    <3>1. /\ lastframe' = Frame(now) /\ mpc' = "tick" /\ UNCHANGED shown
          /\ stopcnt' = IF lastframe # Frame(now) THEN 0
                        ELSE IF stopcnt > StopLimit THEN stopcnt ELSE stopcnt + 1
      BY <1>2, <2>3 DEF PollCheck
    <3>2. stopcnt' \in 0 .. StopLimit + 1
      BY <1>0, <3>1, Parameters DEF TypeOK
    <3>3. CASE UNCHANGED <<full_tc, last_tc, now, run>>
      <4>1. TypeOK'
        BY <1>0, <2>1, <3>1, <3>2, <3>3 DEF TypeOK
      <4> QED
        BY <2>1, <3>1, <3>3, <4>1 DEF Inv, LocateIsShown
    <3>4. CASE /\ full_tc' = {} /\ last_tc' = [last_tc EXCEPT !.tick = 0]
               /\ now' = [now EXCEPT !.tick = 0] /\ run' = 0
      <4>1. last_tc' \in Times /\ now' \in Times
        BY <1>0, <3>4 DEF TypeOK, Times
      <4>2. TypeOK'
        BY <1>0, <2>1, <3>1, <3>2, <3>4, <4>1 DEF TypeOK
      <4>3. located # NoFrame => last_tc' = Time(located)
        BY <3>4, ShownTimes
      <4>4. located # NoFrame /\ apart = 0 => now' = Time(located)
        BY <2>1, <3>4, ShownTimes DEF Inv
      <4> QED
        BY <2>1, <3>1, <4>2, <4>3, <4>4 DEF Inv, LocateIsShown
    <3> QED
      BY <1>2, <2>3, <3>3, <3>4 DEF PollCheck
  <2> QED
    BY <2>2, <2>3
<1>3. CASE PollTick
  <2> DEFINE t == IF driver = "PORTMIDI" THEN now.tick ELSE last_tc.tick
  <2>1. UNCHANGED <<driver, pos, dir, changes, tc, last_tc, full_tc, half, lastframe, stopcnt, run,
                    apart, located>> /\ mpc = "tick" /\ mpc' = "idle" /\ now' = Zero
    BY <1>3 DEF PollTick, senderVars, parserVars, histVars
  <2>2. shown' = Frame(now) + Rint(t)
    BY <1>3 DEF PollTick
  <2>3. t \in Int
    BY <1>0 DEF TypeOK, Times
  <2>4. TypeOK'
    <3> HIDE DEF t
    <3>1. Rint(t) \in Int
      BY <2>3, RintType
    <3> QED
      BY <1>0, <2>1, <2>2, <3>1, ZeroType DEF TypeOK
  <2>5. located # NoFrame /\ apart = 0 => shown' = located
    <3> SUFFICES ASSUME located # NoFrame, apart = 0 PROVE shown' = located
      OBVIOUS
    <3>1. now = Time(located) /\ t = 0 /\ located \in Nat /\ Frame(now) = located
      BY <2>1, ShownTimes DEF Inv
    <3>2. Rint(0) = 0
      BY DEF Rint
    <3> HIDE DEF t
    <3> QED
      BY <2>2, <3>1, <3>2
  <2> QED
    BY <2>1, <2>4, <2>5 DEF Inv, LocateIsShown
<1> QED
  BY <1>1, <1>2, <1>3 DEF Poll

LEMMA ReconnectInv ==
  ASSUME Inv, Reconnect
  PROVE  Inv'
<1>1. UNCHANGED <<driver, pos, dir, full_tc, mpc, now, lastframe, stopcnt, shown, apart>>
      /\ half' = NoFrame /\ located' = NoFrame /\ run' = 0
  BY DEF Reconnect, pollVars, callVars
<1>2. changes' \in 0 .. MaxChanges
  BY Parameters DEF Reconnect, Disturb, Inv, TypeOK
<1>3. tc' \in Times /\ last_tc' \in Times /\ tc'.tick \in 0 .. 7
  <2>1. \A k \in -7 .. 14 : [Zero EXCEPT !.tick = k] \in Times /\ [Zero EXCEPT !.tick = k].tick = k
    BY ZeroType DEF Times
  <2>2. tc.tick \in 0 .. 7 /\ last_tc.tick \in -7 .. 14
    BY DEF Inv, TypeOK, Times
  <2>3. PICK k \in 0 .. 7, l \in -7 .. 14 : k = tc.tick /\ l = last_tc.tick
    BY <2>2
  <2>4. tc' = [Zero EXCEPT !.tick = k] /\ last_tc' = [Zero EXCEPT !.tick = l] /\ k \in -7 .. 14
    BY <2>3 DEF Reconnect
  <2> QED
    BY <2>1, <2>3, <2>4
<1>4. TypeOK'
  BY <1>1, <1>2, <1>3 DEF Inv, TypeOK
<1> QED
  BY <1>1, <1>3, <1>4 DEF Inv, LocateIsShown

LEMMA InvNext ==
  ASSUME Inv, [Next]_vars
  PROVE  Inv'
<1>1. CASE Next
  BY <1>1, SenderInv, PollInv, ReconnectInv DEF Next
<1>2. CASE UNCHANGED vars
  BY <1>2 DEF Inv, TypeOK, LocateIsShown, vars, senderVars, parserVars, pollVars, callVars, histVars
<1> QED
  BY <1>1, <1>2

-----------------------------------------------------------------------------
(* The theorems. *)

\* The fields and the tick of every time that the parser assembles stay in
\* their ranges, whatever the order in which messages come (parse_timecode,
\* parse_sysex_urtm), and the polls count no further than to their limit.
THEOREM TypeCorrect == Spec => []TypeOK
<1>1. Inv => TypeOK
  BY DEF Inv
<1> QED
  BY <1>1, InvInit, InvNext, PTL DEF Spec

\* A full-frame message is what the next poll of any driver returns, whatever
\* was sent before and however its bytes are spread over polls
\* (parse_sysex_urtm, midi_poll_frame).
THEOREM LocateShown == Spec => []LocateIsShown
<1>1. Inv => LocateIsShown
  BY DEF Inv
<1> QED
  BY <1>1, InvInit, InvNext, PTL DEF Spec

-----------------------------------------------------------------------------
(* Digits. *)

FieldNames == {"frame", "sec", "min", "hour"}

SameFields(t, u) ==
  t.frame = u.frame /\ t.sec = u.sec /\ t.min = u.min /\ t.hour = u.hour

\* A time is known by its digits.
LEMMA KnownByDigits ==
  ASSUME NEW t \in Times, NEW u \in Times, \A m \in 0 .. 7 : Digit(m, t) = Digit(m, u)
  PROVE  SameFields(t, u)
<1>1. \A x, y \in Nat : x % 16 = y % 16 /\ x \div 16 = y \div 16 => x = y
  OBVIOUS
<1>2. ASSUME NEW m \in {0, 2, 4, 6}
      PROVE  t[Field(m)] % 16 = u[Field(m)] % 16 /\ t[Field(m)] \div 16 = u[Field(m)] \div 16
  <2>1. m \in 0 .. 7 /\ m + 1 \in 0 .. 7 /\ m % 2 = 0 /\ (m + 1) % 2 # 0 /\ Field(m + 1) = Field(m)
    BY DEF Field
  <2>2. Digit(m, t) = Digit(m, u) /\ Digit(m + 1, t) = Digit(m + 1, u)
    BY <2>1
  <2> QED
    BY <2>1, <2>2 DEF Digit
<1>3. Field(0) = "frame" /\ Field(2) = "sec" /\ Field(4) = "min" /\ Field(6) = "hour"
  BY DEF Field
<1>4. t.frame \in Nat /\ t.sec \in Nat /\ t.min \in Nat /\ t.hour \in Nat
      /\ u.frame \in Nat /\ u.sec \in Nat /\ u.min \in Nat /\ u.hour \in Nat
  BY DEF Times
<1>5. t.frame % 16 = u.frame % 16 /\ t.frame \div 16 = u.frame \div 16
  BY <1>2, <1>3
<1>6. t.sec % 16 = u.sec % 16 /\ t.sec \div 16 = u.sec \div 16
  BY <1>2, <1>3
<1>7. t.min % 16 = u.min % 16 /\ t.min \div 16 = u.min \div 16
  BY <1>2, <1>3
<1>8. t.hour % 16 = u.hour % 16 /\ t.hour \div 16 = u.hour \div 16
  BY <1>2, <1>3
<1> QED
  BY <1>1, <1>4, <1>5, <1>6, <1>7, <1>8 DEF SameFields

LEMMA SameTimes ==
  ASSUME NEW k
  PROVE  \A t, u \in Times : SameFields(t, u) => [t EXCEPT !.tick = k] = [u EXCEPT !.tick = k]
BY DEF Times, SameFields

\* A message writes its digit and leaves the others alone.
LEMMA DigitWritten ==
  ASSUME NEW t \in Times, NEW u \in Times, NEW n \in 0 .. 7
  PROVE  /\ Digit(n, WithDigit(t, n, Digit(n, u))) = Digit(n, u)
         /\ \A m \in 0 .. 7 \ {n} : Digit(m, WithDigit(t, n, Digit(n, u))) = Digit(m, t)
<1> DEFINE F == Field(n)
           d == Digit(n, u)
           x == t[F]
           w == WithDigit(t, n, d)
<1>1. F \in FieldNames /\ x \in Nat /\ u[F] \in Nat
  BY DEF Field, FieldNames, Times
<1>2. d \in Nat /\ (n % 2 = 0 => d \in 0 .. 15)
  <2>1. d = IF n % 2 = 0 THEN u[F] % 16 ELSE u[F] \div 16
    BY DEF Digit
  <2> HIDE DEF F, d
  <2> QED
    BY <1>1, <2>1
<1>3. w[F] = (IF n % 2 = 0 THEN (x \div 16) * 16 + d ELSE (x % 16) + d * 16)
      /\ \A G \in FieldNames : G # F => w[G] = t[G]
  <2>1. DOMAIN t = FieldNames \cup {"tick"}
    BY DEF Times, FieldNames
  <2> HIDE DEF F, d
  <2> QED
    BY <1>1, <2>1 DEF WithDigit, F
<1>4. \A a \in Nat, b \in 0 .. 15 :
        ((a \div 16) * 16 + b) % 16 = b /\ ((a \div 16) * 16 + b) \div 16 = a \div 16
  OBVIOUS
<1>5. \A a, b \in Nat : ((a % 16) + b * 16) % 16 = a % 16 /\ ((a % 16) + b * 16) \div 16 = b
  OBVIOUS
<1>6. Digit(n, w) = d
  <2>1. Digit(n, w) = IF n % 2 = 0 THEN w[F] % 16 ELSE w[F] \div 16
    BY DEF Digit
  <2> HIDE DEF F, d, x, w
  <2> QED
    BY <1>1, <1>2, <1>3, <1>4, <1>5, <2>1
<1>7. ASSUME NEW m \in 0 .. 7 \ {n}
      PROVE  Digit(m, w) = Digit(m, t)
  <2>1. Digit(m, w) = (IF m % 2 = 0 THEN w[Field(m)] % 16 ELSE w[Field(m)] \div 16)
        /\ Digit(m, t) = (IF m % 2 = 0 THEN t[Field(m)] % 16 ELSE t[Field(m)] \div 16)
    BY DEF Digit
  <2>2. Field(m) \in FieldNames
    BY DEF Field, FieldNames
  <2>3. Field(m) = F => m % 2 # n % 2
    BY DEF Field
  <2> HIDE DEF F, d, w
  <2>4. CASE Field(m) # F
    BY <2>1, <2>2, <2>4, <1>3
  <2>5. CASE Field(m) = F /\ n % 2 = 0
    <3>1. m % 2 # 0 /\ w[F] \div 16 = x \div 16
      BY <2>3, <2>5, <1>1, <1>2, <1>3, <1>4
    <3> QED
      BY <3>1, <2>1, <2>5
  <2>6. CASE Field(m) = F /\ n % 2 # 0
    <3>1. m % 2 = 0 /\ w[F] % 16 = x % 16
      BY <2>3, <2>6, <1>1, <1>2, <1>3, <1>5
    <3> QED
      BY <3>1, <2>1, <2>6
  <2> QED
    BY <2>4, <2>5, <2>6
<1> QED
  BY <1>6, <1>7

\* The digits of a time depend on its fields only.
LEMMA DigitOfFields ==
  ASSUME NEW t, NEW u, SameFields(t, u)
  PROVE  \A m \in 0 .. 7 : Digit(m, t) = Digit(m, u)
BY DEF SameFields, Digit, Field

\* The high digit of the hour never falls from one time to a later one.
LEMMA HighDigitRises ==
  ASSUME NEW p \in Nat, NEW r \in Nat, p <= r
  PROVE  /\ Digit(7, TimeAt(p)) \in Nat
         /\ Digit(7, TimeAt(p)) <= Digit(7, TimeAt(r))
<1> DEFINE c == 3600 * Fps
           Hour(x) == (2 * (x \div 8)) \div c
<1>1. c \in Nat \ {0}
  BY MtcAssumption
<1>2. \A x : Digit(7, TimeAt(x)) = Hour(x) \div 16
  BY DEF Digit, Field, TimeAt, Time
<1>3. PICK a, b \in Nat : a = 2 * (p \div 8) /\ b = 2 * (r \div 8)
  OBVIOUS
<1>4. a <= b
  BY <1>3
<1> HIDE DEF c
<1>5. a \div c \in Nat /\ b \div c \in Nat /\ a \div c <= b \div c
  <2>1. PICK i, j \in Nat : i = a \div c /\ j = b \div c
    BY <1>1, Division
  <2>2. i * c <= a /\ b < j * c + c
    <3>1. a % c \in Nat /\ a = i * c + (a % c) /\ b = j * c + (b % c) /\ b % c \in 0 .. c - 1
      BY <1>1, <2>1, Division
    <3>2. i * c \in Nat /\ j * c \in Nat
      BY <1>1
    <3> QED
      BY <1>1, <3>1, <3>2
  <2>3. ~ (j < i)
    <3> SUFFICES ASSUME j < i PROVE FALSE
      OBVIOUS
    <3>1. PICK e \in Nat : i = j + 1 + e
      BY i - j - 1 \in Nat
    <3>2. i * c = j * c + c + e * c /\ e * c \in Nat /\ j * c \in Nat
      BY <1>1, <3>1
    <3> QED
      BY <1>1, <1>4, <2>2, <3>2
  <2> QED
    BY <2>1, <2>3
<1>6. Hour(p) \in Nat /\ Hour(r) \in Nat /\ Hour(p) <= Hour(r)
  BY <1>3, <1>5
<1> HIDE DEF Hour
<1>7. \A x, y \in Nat : x <= y => x \div 16 \in Nat /\ x \div 16 <= y \div 16
  OBVIOUS
<1> QED
  BY <1>2, <1>6, <1>7

-----------------------------------------------------------------------------
(* What a message that comes in order does to the parser. *)

LEMMA InOrder ==
  ASSUME ParserType, NEW n \in 0 .. 7, NEW u \in Times, parse_timecode(n, Digit(n, u)),
         NEW t, t = (n + 1) % 8
  PROVE  /\ tc'.tick = t
         /\ n # 7 => /\ Digit(n, tc') = Digit(n, u)
                     /\ \A m \in 0 .. 7 \ {n} : Digit(m, tc') = Digit(m, tc)
         /\ t - tc.tick \in {7, -1, -7, 1} => full_tc' = full_tc \cup {t}
         /\ full_tc \cup {t} = AllTicks =>
              /\ n # 7 => last_tc' = [last_tc EXCEPT !.tick = Since(t, t - tc.tick)]
              /\ n = 7 => /\ last_tc'.tick = Since(t, t - tc.tick)
                          /\ \A v \in Times :
                               /\ \A m \in 0 .. 6 : Digit(m, tc) = Digit(m, v)
                               /\ Digit(7, u) = Digit(7, v)
                               => last_tc' = [v EXCEPT !.tick = Since(t, t - tc.tick)]
<1> DEFINE full == full_tc \cup {t}
           w == WithDigit(tc, n, Digit(n, u))
           r == [w EXCEPT !.tick = t]
           whole == IF Complete(n, full) THEN r ELSE last_tc
           k == Since(t, t - tc.tick)
<1>1. t \in 0 .. 7 /\ (n = 7 => t = 0)
  OBVIOUS
<1>2. w \in Times /\ r \in Times /\ r.tick = t /\ SameFields(r, w)
  <2>1. w \in Times
    BY DigitType DEF ParserType
  <2>2. \A x \in Times : [x EXCEPT !.tick = t] \in Times /\ [x EXCEPT !.tick = t].tick = t
                         /\ SameFields([x EXCEPT !.tick = t], x)
    BY <1>1 DEF Times, SameFields
  <2> HIDE DEF w
  <2> QED
    BY <2>1, <2>2
<1>3. /\ tc' = (IF Complete(n, full) THEN Zero ELSE r)
      /\ last_tc' = [whole EXCEPT !.tick = IF full = AllTicks THEN k ELSE 0]
      /\ full_tc' = IF full = AllTicks /\ t - tc.tick \notin {7, -1, -7, 1} THEN {} ELSE full
  BY DEF parse_timecode
<1>4. Digit(n, w) = Digit(n, u) /\ \A m \in 0 .. 7 \ {n} : Digit(m, w) = Digit(m, tc)
  BY DigitWritten DEF ParserType
<1>5. \A m \in 0 .. 7 : Digit(m, r) = Digit(m, w)
  <2> HIDE DEF r, w
  <2> QED
    BY <1>2, DigitOfFields
<1> HIDE DEF r, w
<1>6. tc'.tick = t
  BY <1>1, <1>2, <1>3, ZeroType DEF Complete
<1>7. n # 7 => /\ Digit(n, tc') = Digit(n, u)
               /\ \A m \in 0 .. 7 \ {n} : Digit(m, tc') = Digit(m, tc)
  BY <1>3, <1>4, <1>5 DEF Complete
<1> HIDE DEF k
<1>8. full = AllTicks /\ n # 7 => last_tc' = [last_tc EXCEPT !.tick = k]
  BY <1>3 DEF Complete
<1>9. full = AllTicks /\ n = 7 => last_tc' = [r EXCEPT !.tick = k] /\ last_tc'.tick = k
  <2>1. \A x \in Times : \A y : [x EXCEPT !.tick = y].tick = y
    BY DEF Times
  <2> QED
    BY <1>2, <1>3, <2>1 DEF Complete
<1>10. ASSUME full = AllTicks, n = 7, NEW v \in Times,
              \A m \in 0 .. 6 : Digit(m, tc) = Digit(m, v), Digit(7, u) = Digit(7, v)
       PROVE  last_tc' = [v EXCEPT !.tick = k]
  <2>1. \A m \in 0 .. 7 : Digit(m, r) = Digit(m, v)
    <3> TAKE m \in 0 .. 7
    <3>1. m = 7 \/ m \in 0 .. 6
      OBVIOUS
    <3>2. m \in 0 .. 6 => m \in 0 .. 7 \ {n}
      BY <1>10
    <3> QED
      BY <3>1, <3>2, <1>4, <1>5, <1>10
  <2>2. SameFields(r, v)
    BY <2>1, <1>2, KnownByDigits
  <2>3. [r EXCEPT !.tick = k] = [v EXCEPT !.tick = k]
    <3>1. r \in Times /\ v \in Times
      BY <1>2, <1>10
    <3>2. [r EXCEPT !.tick = k] = [v EXCEPT !.tick = k]
      <4>1. \A x, y \in Times : SameFields(x, y) => [x EXCEPT !.tick = k] = [y EXCEPT !.tick = k]
        BY SameTimes
      <4> QED
        BY <2>2, <3>1, <4>1
    <3> QED
      BY <3>2
  <2> QED
    BY <2>3, <1>9, <1>10
<1> QED
  BY <1>3, <1>6, <1>7, <1>8, <1>9, <1>10 DEF k

-----------------------------------------------------------------------------
(* The invariant of a sender that goes on: what the parser knows of the    *)
(* time it assembles, and which one was complete last; the poll's copy of  *)
(* it; and what was shown.                                                 *)

\* The tick after the message at position p.
Phase(p) == (p + 1) % 8

\* The time that is complete at position p, forwards and backwards, and its
\* latency.
Ahead(p)  == [TimeAt(p - Phase(p)) EXCEPT !.tick = Phase(p) + 7]
Behind(p) == [TimeAt(p + 8) EXCEPT !.tick = -Phase(p)]

\* The high digit of the hour is that of the time before.
SameHigh(p) == Digit(7, TimeAt(p)) = Digit(7, TimeAt(p + 8))

\* run messages have come forwards: they are in order, their ticks are known,
\* the digits of the time that is being assembled are those of one time, and
\* after 9 to 16 of them the last complete time is that of the group before.
ParserAhead ==
  run > 0 =>
    /\ dir # -1 /\ half = NoFrame
    /\ pos \in Nat /\ run <= pos + 1
    /\ tc.tick = Phase(pos)
    /\ \A i \in 0 .. 7 : i <= run - 2 => (pos - i + 1) % 8 \in full_tc
    /\ Piece(pos) < 7 /\ run > Piece(pos)
         => \A m \in 0 .. Piece(pos) : Digit(m, tc) = Digit(m, TimeAt(pos))
    /\ run >= 9 + Phase(pos) => last_tc = Ahead(pos)

\* The same backwards, where the high digit of the hour comes first and is
\* taken with the digits of the time before.
ParserBehind ==
  run < 0 =>
    /\ dir # 1 /\ pos \in Nat /\ half = NoFrame
    /\ tc.tick = Phase(pos)
    /\ \A i \in 0 .. 7 : i <= -run - 2 => (pos + i + 1) % 8 \in full_tc
    /\ Piece(pos) < 7 /\ -run >= 7 - Piece(pos)
         => \A m \in Piece(pos) .. 6 : Digit(m, tc) = Digit(m, TimeAt(pos))
    /\ -run >= 16 - Piece(pos) => /\ last_tc.tick = -Phase(pos)
                                  /\ SameHigh(pos) => last_tc = Behind(pos)

\* What a poll has copied was complete apart messages ago.
CopyInv ==
  mpc # "idle" =>
    /\ driver # "ALSA-RAW-MIDI"
    /\ driver = "JACK-MIDI" => apart = 0
    /\ apart <= 1 /\ run >= 16 + apart => now = Ahead(pos - apart)
    /\ apart <= 1 /\ -run >= 16 + apart /\ SameHigh(pos + apart) => now = Behind(pos + apart)

\* PositionIsFollowed, with a condition for one time to the next instead of
\* two: that one is kept by the next message.
ShownInv ==
  /\ Polled(1) => Far(shown, pos) <= LagForward + apart
  /\ Polled(-1) /\ SameHigh(pos + apart) => Far(shown, pos) <= 8 + 2 * apart

FollowInv == ParserAhead /\ ParserBehind /\ CopyInv /\ ShownInv

-----------------------------------------------------------------------------
(* Positions. *)

\* Position p is a place in a group of eight.
LEMMA Places ==
  ASSUME NEW p \in Nat
  PROVE  /\ Piece(p) \in 0 .. 7 /\ Phase(p) \in 0 .. 7
         /\ Phase(p) = (Piece(p) + 1) % 8
         /\ p = 8 * (p \div 8) + Piece(p) /\ p \div 8 \in Nat
BY DEF Piece, Phase

\* The next position, in the same group or in the next.
LEMMA NextPlace ==
  ASSUME NEW p \in Nat
  PROVE  \/ /\ Piece(p) < 7 /\ Piece(p + 1) = Piece(p) + 1 /\ (p + 1) \div 8 = p \div 8
            /\ Phase(p) = Piece(p) + 1
            /\ (p + 1 + 8) \div 8 = (p + 8) \div 8
         \/ /\ Piece(p) = 7 /\ Piece(p + 1) = 0 /\ (p + 1) \div 8 = p \div 8 + 1
            /\ Phase(p) = 0 /\ Phase(p + 1) = 1
            /\ (p + 8) \div 8 = (p + 1) \div 8
<1>1. PICK q, n \in Nat : q = p \div 8 /\ n = p % 8 /\ n \in 0 .. 7 /\ p = 8 * q + n
  OBVIOUS
<1>2. CASE n < 7
  <2>1. (p + 1) % 8 = n + 1 /\ (p + 1) \div 8 = q /\ (p + 8) \div 8 = q + 1 /\ (p + 1 + 8) \div 8 = q + 1
    BY <1>1, <1>2
  <2> QED
    BY <1>1, <1>2, <2>1 DEF Piece, Phase
<1>3. CASE n = 7
  <2>1. (p + 1) % 8 = 0 /\ (p + 1) \div 8 = q + 1 /\ (p + 2) % 8 = 1 /\ (p + 8) \div 8 = q + 1
    BY <1>1, <1>3
  <2> QED
    BY <1>1, <1>3, <2>1 DEF Piece, Phase
<1> QED
  BY <1>1, <1>2, <1>3

\* Eight messages in a row bring all ticks, in either direction.
LEMMA AllTicksCome ==
  ASSUME NEW p \in Nat, NEW S, S \subseteq AllTicks
  PROVE  /\ (\A i \in 0 .. 7 : (p - i + 1) % 8 \in S) => S = AllTicks
         /\ (\A i \in 0 .. 7 : (p + i + 1) % 8 \in S) => S = AllTicks
<1>1. \A t \in AllTicks : \E i \in 0 .. 7 : (p - i + 1) % 8 = t
  <2> SUFFICES ASSUME NEW t \in AllTicks PROVE \E i \in 0 .. 7 : (p - i + 1) % 8 = t
    OBVIOUS
  <2>1. PICK q \in Nat, n \in 0 .. 7 : p = 8 * q + n
    BY Places
  <2>2. CASE t <= n + 1 /\ n + 1 - t <= 7
    <3>1. (p - (n + 1 - t) + 1) % 8 = t
      BY <2>1, <2>2 DEF AllTicks
    <3> QED
      BY <3>1, <2>2 DEF AllTicks
  <2>3. CASE t > n + 1
    <3>1. (p - (n + 9 - t) + 1) % 8 = t
      BY <2>1, <2>3 DEF AllTicks
    <3> QED
      BY <3>1, <2>3 DEF AllTicks
  <2>4. CASE n = 7 /\ t = 0
    <3>1. (p - 0 + 1) % 8 = t
      BY <2>1, <2>4
    <3> QED
      BY <3>1
  <2> QED
    BY <2>2, <2>3, <2>4 DEF AllTicks
<1>2. \A t \in AllTicks : \E i \in 0 .. 7 : (p + i + 1) % 8 = t
  <2> SUFFICES ASSUME NEW t \in AllTicks PROVE \E i \in 0 .. 7 : (p + i + 1) % 8 = t
    OBVIOUS
  <2>1. PICK q \in Nat, n \in 0 .. 7 : p = 8 * q + n
    BY Places
  <2>2. CASE t >= n + 1
    <3>1. (p + (t - n - 1) + 1) % 8 = t /\ t - n - 1 \in 0 .. 7
      BY <2>1, <2>2 DEF AllTicks
    <3> QED
      BY <3>1
  <2>3. CASE t < n + 1
    <3>1. (p + (t - n - 1 + 8) + 1) % 8 = t /\ t - n - 1 + 8 \in 0 .. 7
      BY <2>1, <2>3 DEF AllTicks
    <3> QED
      BY <3>1
  <2> QED
    BY <2>2, <2>3 DEF AllTicks
<1> QED
  BY <1>1, <1>2

LEMMA TimeAtType ==
  ASSUME NEW p \in Nat
  PROVE  TimeAt(p) \in Times
<1>1. 2 * (p \div 8) \in Nat
  OBVIOUS
<1> QED
  BY <1>1, TimeType DEF TimeAt

\* Positions of one group are sent the digits of one time.
LEMMA OneTime ==
  ASSUME NEW p, NEW r, p \div 8 = r \div 8
  PROVE  TimeAt(p) = TimeAt(r)
BY DEF TimeAt

-----------------------------------------------------------------------------
(* A message arrives. *)

\* What the parser does with the message at position p, in terms of places.
LEMMA Arrived ==
  ASSUME Inv, NEW p \in First .. Last, NEW c, Arrive(p, c)
  PROVE  /\ p \in Nat /\ pos' = p
         /\ tc'.tick = Phase(p)
         /\ Piece(p) # 7 => /\ Digit(Piece(p), tc') = Digit(Piece(p), TimeAt(p))
                            /\ \A m \in 0 .. 7 \ {Piece(p)} : Digit(m, tc') = Digit(m, tc)
         /\ Phase(p) - tc.tick \in {7, -1, -7, 1} => full_tc' = full_tc \cup {Phase(p)}
         /\ full_tc \cup {Phase(p)} = AllTicks =>
              /\ Piece(p) # 7 => last_tc' = [last_tc EXCEPT !.tick = Since(Phase(p), Phase(p) - tc.tick)]
              /\ Piece(p) = 7 => /\ last_tc'.tick = Since(Phase(p), Phase(p) - tc.tick)
                                 /\ \A v \in Times :
                                      /\ \A m \in 0 .. 6 : Digit(m, tc) = Digit(m, v)
                                      /\ Digit(7, TimeAt(p)) = Digit(7, v)
                                      => last_tc' = [v EXCEPT !.tick = Since(Phase(p), Phase(p) - tc.tick)]
<1>1. ParserType
  BY DEF Inv, TypeOK, ParserType
<1>2. p \in Nat /\ Piece(p) \in 0 .. 7 /\ Phase(p) = (Piece(p) + 1) % 8
  BY Parameters, Places
<1>3. TimeAt(p) \in Times
  BY <1>2, TimeAtType
<1>4. parse_timecode(Piece(p), Digit(Piece(p), TimeAt(p))) /\ pos' = p
  BY DEF Arrive
<1> QED
  BY <1>1, <1>2, <1>3, <1>4, InOrder

LEMMA ArriveAhead ==
  ASSUME Inv, FollowInv, dir = 1, NEW p \in First .. Last, NEW c \in BOOLEAN, Arrive(p, c),
         c => p = pos + dir
  PROVE  ParserAhead' /\ run' > 0
<1>1. /\ run \in 0 .. 17 /\ dir' = 1 /\ half' = NoFrame
      /\ run' = (IF c THEN IF run < 17 THEN run + 1 ELSE run ELSE 1)
  <2>1. run \in -17 .. 17 /\ ~ (run < 0)
    BY DEF Inv, TypeOK, FollowInv, ParserBehind
  <2> QED
    BY <2>1 DEF Arrive, Longer
<1>2. /\ run' \in 1 .. 17
      /\ run' >= 2 => c /\ p = pos + 1 /\ run >= 1 /\ (run' = run + 1 \/ (run' = 17 /\ run = 17))
  <2>1. CASE c
    BY <1>1, <2>1
  <2>2. CASE ~ c
    <3>1. run' = 1
      BY <1>1, <2>2
    <3> QED
      BY <3>1
  <2> QED
    BY <2>1, <2>2
<1>3. p \in Nat /\ pos' = p /\ tc'.tick = Phase(p) /\ Piece(p) \in 0 .. 7 /\ Phase(p) \in 0 .. 7
  BY Arrived, Places
<1>4. run' <= p + 1
  <2>1. run >= 1 => pos \in Nat /\ run <= pos + 1
    BY <1>1 DEF FollowInv, ParserAhead
  <2> QED
    BY <2>1, <1>1, <1>2, <1>3
<1>5. CASE run' = 1
  <2>1. Piece(p) < 7 /\ run' > Piece(p) => \A m \in 0 .. Piece(p) : Digit(m, tc') = Digit(m, TimeAt(p))
    <3> SUFFICES ASSUME Piece(p) = 0 PROVE Digit(0, tc') = Digit(0, TimeAt(p))
      BY <1>3, <1>5
    <3> QED
      BY Arrived
  <2>2. ~ (run' >= 9 + Phase(p))
    BY <1>3, <1>5
  <2> QED
    BY <1>1, <1>3, <1>4, <1>5, <2>1, <2>2 DEF ParserAhead
<1>6. CASE run' >= 2
  <2>1. /\ c /\ p = pos + 1 /\ run >= 1 /\ run >= run' - 1
        /\ pos \in Nat /\ tc.tick = Phase(pos)
        /\ \A i \in 0 .. 7 : i <= run - 2 => (pos - i + 1) % 8 \in full_tc
    BY <1>1, <1>2, <1>6 DEF FollowInv, ParserAhead
  <2>2. Phase(pos) \in 0 .. 7 /\ Piece(pos) \in 0 .. 7
    BY <2>1, Places
  <2>3. /\ Phase(p) - tc.tick \in {-7, 1}
        /\ Piece(p) = 0 \/ (Piece(p) = Piece(pos) + 1 /\ TimeAt(p) = TimeAt(pos))
    <3>1. TimeAt(pos + 1) = TimeAt(pos) \/ (pos + 1) \div 8 # pos \div 8
      BY OneTime
    <3>2. Phase(pos + 1) = (Piece(pos + 1) + 1) % 8
      BY <2>1, Places
    <3> QED
      BY <2>1, <2>2, <3>1, <3>2, NextPlace
  <2>4. full_tc' = full_tc \cup {Phase(p)}
    BY <2>3, Arrived
  <2>5. \A i \in 0 .. 7 : i <= run' - 2 => (p - i + 1) % 8 \in full_tc'
    <3> TAKE i \in 0 .. 7
    <3>1. CASE i = 0
      BY <3>1, <2>4, <1>3 DEF Phase
    <3>2. CASE i # 0 /\ i <= run' - 2
      <4>1. i - 1 \in 0 .. 7 /\ i - 1 <= run - 2 /\ p - i + 1 = pos - (i - 1) + 1
        BY <3>2, <2>1, <1>1, <1>2
      <4> QED
        BY <4>1, <2>1, <2>4
    <3> QED
      BY <3>1, <3>2
  <2>6. Piece(p) < 7 /\ run' > Piece(p) => \A m \in 0 .. Piece(p) : Digit(m, tc') = Digit(m, TimeAt(p))
    <3> SUFFICES ASSUME Piece(p) < 7, run' > Piece(p), NEW m \in 0 .. Piece(p)
                 PROVE  Digit(m, tc') = Digit(m, TimeAt(p))
      OBVIOUS
    <3>1. CASE m = Piece(p)
      BY <3>1, Arrived, <1>3
    <3>2. CASE m # Piece(p)
      <4>1. Piece(p) = Piece(pos) + 1 /\ TimeAt(p) = TimeAt(pos) /\ m \in 0 .. Piece(pos)
        BY <3>2, <2>3, <1>3, <2>2
      <4>2. Piece(pos) < 7 /\ run > Piece(pos)
        BY <4>1, <2>1, <2>2, <1>1, <1>2
      <4>3. Digit(m, tc) = Digit(m, TimeAt(pos))
        BY <4>1, <4>2, <1>1, <2>1 DEF FollowInv, ParserAhead
      <4>4. m \in 0 .. 7 \ {Piece(p)} /\ Piece(p) # 7
        BY <3>2, <1>3
      <4>5. Digit(m, tc') = Digit(m, tc)
        BY <4>4, Arrived
      <4> QED
        BY <4>1, <4>3, <4>5
    <3> QED
      BY <3>1, <3>2
  <2>7. run' >= 9 + Phase(p) => last_tc' = Ahead(p)
    <3> SUFFICES ASSUME run' >= 9 + Phase(p) PROVE last_tc' = Ahead(p)
      OBVIOUS
    <3>1. run >= 8 + Phase(p) /\ run >= 8
      BY <1>1, <1>2, <1>3, <1>6
    <3>2. full_tc \cup {Phase(p)} = AllTicks
      <4>1. full_tc \cup {Phase(p)} \subseteq AllTicks
        BY <1>3 DEF Inv, TypeOK, AllTicks
      <4>2. \A i \in 0 .. 7 : (p - i + 1) % 8 \in full_tc \cup {Phase(p)}
        <5> SUFFICES ASSUME NEW i \in 0 .. 7 PROVE (p - i + 1) % 8 \in full_tc \cup {Phase(p)}
          OBVIOUS
        <5>1. i <= run' - 2
          <6>1. PICK k, h : k = run' /\ h = Phase(p)
            OBVIOUS
          <6>2. k \in Int /\ k >= 9 + h /\ h \in 0 .. 7
            BY <6>1, <1>2, <1>3
          <6>3. i <= k - 2
            BY <6>2
          <6> QED
            BY <6>1, <6>3
        <5> QED
          BY <5>1, <2>4, <2>5
      <4> QED
        BY <4>1, <4>2, <1>3, AllTicksCome
    <3>3. Since(Phase(p), Phase(p) - tc.tick) = Phase(p) + 7
      BY <2>3 DEF Since
    <3>4. CASE Piece(p) = 7
      <4>1. Phase(p) = 0 /\ p - Phase(p) = p
        BY <3>4, <1>3, Places
      <4>2. Piece(pos) = 6 /\ TimeAt(p) = TimeAt(pos)
        BY <3>4, <2>3, <2>2
      <4>3. \A m \in 0 .. 6 : Digit(m, tc) = Digit(m, TimeAt(p))
        BY <4>2, <3>1, <1>1, <2>1 DEF FollowInv, ParserAhead
      <4>4. TimeAt(p) \in Times
        BY <1>3, TimeAtType
      <4>5. last_tc' = [TimeAt(p) EXCEPT !.tick = Since(Phase(p), Phase(p) - tc.tick)]
        BY <3>2, <3>4, <4>3, <4>4, Arrived
      <4> QED
        BY <4>5, <3>3, <4>1 DEF Ahead
    <3>5. CASE Piece(p) # 7
      <4>1. Phase(p) = Phase(pos) + 1 /\ p - Phase(p) = pos - Phase(pos)
        BY <3>5, <2>1, <2>2, <1>3, Places, NextPlace
      <4>2. run >= 9 + Phase(pos)
        BY <4>1, <1>1, <1>2, <2>2, <1>6, <3>1
      <4>3. last_tc = Ahead(pos)
        BY <4>2, <1>1, <2>1 DEF FollowInv, ParserAhead
      <4>4. last_tc' = [last_tc EXCEPT !.tick = Phase(p) + 7]
        BY <3>2, <3>3, <3>5, Arrived
      <4>5. pos - Phase(pos) \in Nat
        <5>1. run <= pos + 1
          BY <2>1, <1>1 DEF FollowInv, ParserAhead
        <5> QED
          BY <5>1, <4>2, <1>1, <2>1, <2>2
      <4>6. TimeAt(pos - Phase(pos)) \in Times
        BY <4>5, TimeAtType
      <4>7. PICK w : w = TimeAt(pos - Phase(pos)) /\ w \in Times
        BY <4>6
      <4>8. \A x, y : [[w EXCEPT !.tick = x] EXCEPT !.tick = y] = [w EXCEPT !.tick = y]
        BY <4>7 DEF Times
      <4>9. last_tc' = [[w EXCEPT !.tick = Phase(pos) + 7] EXCEPT !.tick = Phase(p) + 7]
        BY <4>3, <4>4, <4>7 DEF Ahead
      <4>10. Ahead(p) = [w EXCEPT !.tick = Phase(p) + 7]
        BY <4>1, <4>7 DEF Ahead
      <4> QED
        BY <4>8, <4>9, <4>10
    <3> QED
      BY <3>4, <3>5
  <2> QED
    BY <1>1, <1>2, <1>3, <1>4, <2>5, <2>6, <2>7 DEF ParserAhead
<1> QED
  BY <1>2, <1>5, <1>6

LEMMA ArriveBehind ==
  ASSUME Inv, FollowInv, dir = -1, NEW p \in First .. Last, NEW c \in BOOLEAN, Arrive(p, c),
         c => p = pos + dir
  PROVE  ParserBehind' /\ run' < 0
<1>1. /\ run \in -17 .. 0 /\ dir' = -1 /\ half' = NoFrame
      /\ run' = (IF c THEN IF -run < 17 THEN run - 1 ELSE run ELSE -1)
  <2>1. run \in -17 .. 17 /\ ~ (run > 0)
    BY DEF Inv, TypeOK, FollowInv, ParserAhead
  <2>2. run * (-1) = -run
    BY <2>1
  <2> QED
    BY <2>1, <2>2 DEF Arrive, Longer
<1>2. /\ run' \in -17 .. -1
      /\ run' <= -2 => c /\ p = pos - 1 /\ run <= -1 /\ (run' = run - 1 \/ (run' = -17 /\ run = -17))
  <2>1. CASE c
    <3>1. p = pos - 1
      BY <2>1 DEF Inv, TypeOK
    <3> QED
      BY <1>1, <2>1, <3>1
  <2>2. CASE ~ c
    <3>1. run' = -1
      BY <1>1, <2>2
    <3> QED
      BY <3>1
  <2> QED
    BY <2>1, <2>2
<1>3. p \in Nat /\ pos' = p /\ tc'.tick = Phase(p) /\ Piece(p) \in 0 .. 7 /\ Phase(p) \in 0 .. 7
  BY Arrived, Places
<1>4. CASE run' = -1
  <2>1. Piece(p) < 7 /\ -run' >= 7 - Piece(p)
          => \A m \in Piece(p) .. 6 : Digit(m, tc') = Digit(m, TimeAt(p))
    <3> SUFFICES ASSUME Piece(p) = 6 PROVE Digit(6, tc') = Digit(6, TimeAt(p))
      BY <1>3, <1>4
    <3> QED
      BY Arrived
  <2>2. ~ (-run' >= 16 - Piece(p)) /\ \A i \in 0 .. 7 : ~ (i <= -run' - 2)
    BY <1>3, <1>4
  <2> QED
    BY <1>1, <1>3, <1>4, <2>1, <2>2 DEF ParserBehind
<1>5. CASE run' <= -2
  <2>1. /\ c /\ p = pos - 1 /\ pos = p + 1 /\ run <= -1 /\ -run >= -run' - 1
        /\ pos \in Nat /\ tc.tick = Phase(pos)
        /\ \A i \in 0 .. 7 : i <= -run - 2 => (pos + i + 1) % 8 \in full_tc
    <3>1. c /\ p = pos - 1 /\ run <= -1 /\ -run >= -run' - 1
      BY <1>1, <1>2, <1>5
    <3>2. /\ pos \in Nat /\ tc.tick = Phase(pos)
          /\ \A i \in 0 .. 7 : i <= -run - 2 => (pos + i + 1) % 8 \in full_tc
      BY <3>1, <1>1 DEF FollowInv, ParserBehind
    <3> QED
      BY <3>1, <3>2
  <2>2. Phase(pos) \in 0 .. 7 /\ Piece(pos) \in 0 .. 7
    BY <2>1, Places
  <2>3. \/ /\ Piece(p) < 7 /\ Piece(pos) = Piece(p) + 1 /\ Phase(p) = Piece(p) + 1
           /\ Phase(p) - tc.tick \in {7, -1}
           /\ TimeAt(p) = TimeAt(pos) /\ TimeAt(p + 8) = TimeAt(pos + 8)
        \/ /\ Piece(p) = 7 /\ Piece(pos) = 0 /\ Phase(p) = 0 /\ Phase(p) - tc.tick = -1
           /\ TimeAt(p + 8) = TimeAt(pos)
    <3>1. Phase(pos) = (Piece(pos) + 1) % 8
      BY <2>1, Places
    <3>2. CASE Piece(p) < 7
      <4>1. /\ Piece(pos) = Piece(p) + 1 /\ Phase(p) = Piece(p) + 1
            /\ pos \div 8 = p \div 8 /\ (pos + 8) \div 8 = (p + 8) \div 8
        BY <3>2, <2>1, <1>3, NextPlace
      <4>2. TimeAt(p) = TimeAt(pos) /\ TimeAt(p + 8) = TimeAt(pos + 8)
        BY <4>1, OneTime
      <4>3. Phase(p) - Phase(pos) \in {7, -1}
        BY <4>1, <3>1, <3>2, <1>3
      <4> QED
        BY <4>1, <4>2, <4>3, <3>2, <2>1
    <3>3. CASE Piece(p) = 7
      <4>1. Piece(pos) = 0 /\ Phase(p) = 0 /\ Phase(pos) = 1 /\ (p + 8) \div 8 = pos \div 8
        BY <3>3, <2>1, <1>3, NextPlace
      <4>2. TimeAt(p + 8) = TimeAt(pos)
        BY <4>1, OneTime
      <4> QED
        BY <4>1, <4>2, <3>3, <2>1
    <3> QED
      BY <3>2, <3>3, <1>3
  <2>4. full_tc' = full_tc \cup {Phase(p)}
    BY <2>3, Arrived
  <2>5. \A i \in 0 .. 7 : i <= -run' - 2 => (p + i + 1) % 8 \in full_tc'
    <3> TAKE i \in 0 .. 7
    <3>1. CASE i = 0
      BY <3>1, <2>4, <1>3 DEF Phase
    <3>2. CASE i # 0 /\ i <= -run' - 2
      <4>1. i - 1 \in 0 .. 7 /\ i - 1 <= -run - 2 /\ p + i + 1 = pos + (i - 1) + 1
        BY <3>2, <2>1, <1>1, <1>2
      <4> QED
        BY <4>1, <2>1, <2>4
    <3> QED
      BY <3>1, <3>2
  <2>6. Piece(p) < 7 /\ -run' >= 7 - Piece(p)
          => \A m \in Piece(p) .. 6 : Digit(m, tc') = Digit(m, TimeAt(p))
    <3> SUFFICES ASSUME Piece(p) < 7, -run' >= 7 - Piece(p), NEW m \in Piece(p) .. 6
                 PROVE  Digit(m, tc') = Digit(m, TimeAt(p))
      OBVIOUS
    <3>1. CASE m = Piece(p)
      BY <3>1, Arrived, <1>3
    <3>2. CASE m # Piece(p)
      <4>1. Piece(pos) = Piece(p) + 1 /\ TimeAt(p) = TimeAt(pos) /\ m \in Piece(pos) .. 6
        BY <3>2, <2>3, <1>3, <2>2
      <4>2. Piece(pos) < 7 /\ -run >= 7 - Piece(pos)
        <5>1. PICK x, y : x = run /\ y = run'
          OBVIOUS
        <5>2. x \in Int /\ y \in Int /\ -x >= -y - 1 /\ -y >= 7 - Piece(p)
          BY <5>1, <2>1, <1>1, <1>2
        <5>3. -x >= 7 - Piece(pos)
          BY <5>2, <4>1, <1>3
        <5> QED
          BY <4>1, <5>1, <5>3, <1>3
      <4>3. Digit(m, tc) = Digit(m, TimeAt(pos))
        <5>1. \A j \in Piece(pos) .. 6 : Digit(j, tc) = Digit(j, TimeAt(pos))
          BY <4>2, <1>1, <2>1 DEF FollowInv, ParserBehind
        <5> QED
          BY <5>1, <4>1
      <4>4. m \in 0 .. 7 \ {Piece(p)} /\ Piece(p) # 7
        BY <3>2, <1>3
      <4>5. Digit(m, tc') = Digit(m, tc)
        BY <4>4, Arrived
      <4> QED
        BY <4>1, <4>3, <4>5
    <3> QED
      BY <3>1, <3>2
  <2>7. -run' >= 16 - Piece(p) => /\ last_tc'.tick = -Phase(p)
                                  /\ SameHigh(p) => last_tc' = Behind(p)
    <3> SUFFICES ASSUME -run' >= 16 - Piece(p)
                 PROVE  last_tc'.tick = -Phase(p) /\ (SameHigh(p) => last_tc' = Behind(p))
      OBVIOUS
    <3>1. -run >= 15 - Piece(p) /\ -run >= 8 /\ -run' >= 9
      <4>1. PICK x, y : x = run /\ y = run'
        OBVIOUS
      <4>2. x \in Int /\ y \in Int /\ -x >= -y - 1 /\ -y >= 16 - Piece(p)
        BY <4>1, <2>1, <1>1, <1>2
      <4>3. -x >= 15 - Piece(p) /\ -x >= 8 /\ -y >= 9
        BY <4>2, <1>3
      <4> QED
        BY <4>1, <4>3
    <3>2. full_tc \cup {Phase(p)} = AllTicks
      <4>1. full_tc \cup {Phase(p)} \subseteq AllTicks
        BY <1>3 DEF Inv, TypeOK, AllTicks
      <4>2. \A i \in 0 .. 7 : (p + i + 1) % 8 \in full_tc \cup {Phase(p)}
        <5> SUFFICES ASSUME NEW i \in 0 .. 7 PROVE (p + i + 1) % 8 \in full_tc \cup {Phase(p)}
          OBVIOUS
        <5>1. i <= -run' - 2
          <6>1. PICK y : y = run'
            OBVIOUS
          <6>2. y \in Int /\ -y >= 9
            <7>1. y \in Int
              BY <6>1, <1>2
            <7>2. -y >= 9
              BY <6>1, <3>1
            <7> QED
              BY <7>1, <7>2
          <6>3. i <= -y - 2
            BY <6>2
          <6> QED
            BY <6>1, <6>3
        <5> QED
          BY <5>1, <2>4, <2>5
      <4> QED
        BY <4>1, <4>2, <1>3, AllTicksCome
    <3>3. Since(Phase(p), Phase(p) - tc.tick) = -Phase(p)
      BY <2>3 DEF Since
    <3>4. TimeAt(p + 8) \in Times
      BY <1>3, TimeAtType
    <3>5. CASE Piece(p) = 7
      <4>1. last_tc'.tick = -Phase(p)
        BY <3>2, <3>3, <3>5, Arrived
      <4>2. ASSUME SameHigh(p) PROVE last_tc' = Behind(p)
        <5>1. Piece(pos) = 0 /\ TimeAt(p + 8) = TimeAt(pos)
          BY <2>3, <3>5
        <5>2. \A m \in 0 .. 6 : Digit(m, tc) = Digit(m, TimeAt(p + 8))
          <6>1. Piece(pos) < 7 /\ -run >= 7 - Piece(pos)
            BY <5>1, <3>1, <1>1
          <6>2. \A m \in Piece(pos) .. 6 : Digit(m, tc) = Digit(m, TimeAt(pos))
            BY <6>1, <1>1, <2>1 DEF FollowInv, ParserBehind
          <6> QED
            BY <6>2, <5>1
        <5>3. Digit(7, TimeAt(p)) = Digit(7, TimeAt(p + 8))
          BY <4>2 DEF SameHigh
        <5>4. last_tc' = [TimeAt(p + 8) EXCEPT !.tick = Since(Phase(p), Phase(p) - tc.tick)]
          BY <3>2, <3>4, <3>5, <5>2, <5>3, Arrived
        <5> QED
          BY <5>4, <3>3 DEF Behind
      <4> QED
        BY <4>1, <4>2
    <3>6. CASE Piece(p) # 7
      <4>1. /\ Piece(pos) = Piece(p) + 1
            /\ TimeAt(p) = TimeAt(pos) /\ TimeAt(p + 8) = TimeAt(pos + 8)
        BY <2>3, <3>6
      <4>2. -run >= 16 - Piece(pos)
        BY <4>1, <3>1, <1>1, <1>3
      <4>3. last_tc' = [last_tc EXCEPT !.tick = -Phase(p)]
        BY <3>2, <3>3, <3>6, Arrived
      <4>4. \A x \in Times : \A y : [x EXCEPT !.tick = y].tick = y
        BY DEF Times
      <4>5. last_tc \in Times
        BY DEF Inv, TypeOK
      <4>6. last_tc'.tick = -Phase(p)
        BY <4>3, <4>4, <4>5
      <4>7. ASSUME SameHigh(p) PROVE last_tc' = Behind(p)
        <5>1. SameHigh(pos)
          BY <4>1, <4>7 DEF SameHigh
        <5>2. last_tc = Behind(pos)
          BY <5>1, <4>2, <1>1, <2>1 DEF FollowInv, ParserBehind
        <5>3. PICK w : w = TimeAt(p + 8) /\ w \in Times
          BY <3>4
        <5>4. \A x, y : [[w EXCEPT !.tick = x] EXCEPT !.tick = y] = [w EXCEPT !.tick = y]
          BY <5>3 DEF Times
        <5>5. last_tc' = [[w EXCEPT !.tick = -Phase(pos)] EXCEPT !.tick = -Phase(p)]
          BY <4>1, <4>3, <5>2, <5>3 DEF Behind
        <5>6. Behind(p) = [w EXCEPT !.tick = -Phase(p)]
          BY <5>3 DEF Behind
        <5> QED
          BY <5>4, <5>5, <5>6
      <4> QED
        BY <4>6, <4>7
    <3> QED
      BY <3>5, <3>6
  <2> QED
    BY <1>1, <1>2, <1>3, <2>5, <2>6, <2>7 DEF ParserBehind
<1> QED
  BY <1>2, <1>4, <1>5

\* The copy of a poll and what it has shown are those of a message before.
LEMMA ArriveFollows ==
  ASSUME Inv, FollowInv, dir # 0, NEW p \in First .. Last, NEW c \in BOOLEAN, Arrive(p, c),
         c => p = pos + dir
  PROVE  FollowInv'
<1>1. /\ MayParse /\ mpc' = mpc /\ now' = now /\ driver' = driver /\ pos' = p
      /\ apart' = (IF apart = 2 THEN 2 ELSE apart + 1)
      /\ shown' = (IF apart = 0 THEN shown ELSE 0)
      /\ run' = IF c THEN Longer(dir) ELSE dir
  BY DEF Arrive, Aside, callVars
<1>2. apart \in 0 .. 2 /\ dir \in {1, -1} /\ pos \in Int /\ run \in -17 .. 17 /\ shown \in Int
  BY DEF Inv, TypeOK
<1>3. apart' <= 1 => apart = 0 /\ apart' = 1
  BY <1>1, <1>2
<1>4. mpc' # "idle" => driver' # "ALSA-RAW-MIDI" /\ driver' # "JACK-MIDI"
  BY <1>1 DEF MayParse
<1>5. CASE dir = 1
  <2>1. ParserAhead' /\ run' > 0 /\ run' \in Int
    <3>1. Longer(1) \in Int
      BY <1>2 DEF Longer
    <3> QED
      BY <3>1, <1>1, <1>5, ArriveAhead
  <2>2. ParserBehind'
    BY <2>1 DEF ParserBehind
  <2>3. run' >= 17 => run >= 16 /\ pos' = pos + 1
    <3>1. CASE c
      BY <3>1, <1>1, <1>2, <1>5 DEF Longer
    <3>2. CASE ~ c
      BY <3>2, <1>1, <1>5
    <3> QED
      BY <3>1, <3>2
  <2>4. CopyInv'
    <3>1. CASE mpc' = "idle"
      BY <3>1 DEF CopyInv
    <3>2. CASE mpc' # "idle"
      <4>1. apart' <= 1 /\ run' >= 16 + apart' => now' = Ahead(pos' - apart')
        <5> SUFFICES ASSUME apart' <= 1, run' >= 16 + apart' PROVE now' = Ahead(pos' - apart')
          OBVIOUS
        <5>1. apart = 0 /\ apart' = 1 /\ run >= 16 /\ pos' = pos + 1
          BY <1>3, <2>3
        <5>2. pos' - apart' = pos - apart
          BY <5>1, <1>2
        <5>3. now = Ahead(pos - apart)
          BY <5>1, <3>2, <1>1 DEF FollowInv, CopyInv
        <5> QED
          BY <5>2, <5>3, <1>1
      <4>2. ~ (-run' >= 16 + apart')
        BY <1>1, <1>2, <2>1
      <4> QED
        BY <4>1, <4>2, <1>4 DEF CopyInv
    <3> QED
      BY <3>1, <3>2
  <2>5. ShownInv'
    <3>1. ~ Polled(-1)'
      <4>1. ~ (run' * (-1) >= 16 + apart')
        BY <1>1, <1>2, <2>1
      <4> QED
        BY <4>1 DEF Polled
    <3>2. ASSUME Polled(1)' PROVE Far(shown', pos') <= LagForward' + apart'
      <4>1. apart = 0 /\ apart' = 1 /\ run >= 16 /\ pos' = pos + 1 /\ shown' = shown
        <5>1. apart' <= 1 /\ run' * 1 >= 16 + apart'
          BY <3>2 DEF Polled
        <5> QED
          BY <5>1, <1>1, <1>3, <2>1, <2>3
      <4>2. Polled(1)
        BY <4>1, <3>2, <1>1, <1>2 DEF Polled
      <4>3. Far(shown, pos) <= LagForward + apart
        BY <4>2 DEF FollowInv, ShownInv
      <4>4. /\ LagForward \in Int /\ LagForward' \in Int /\ LagForward <= LagForward'
        BY <4>1, <1>1 DEF LagForward
      <4>5. Far(shown, pos + 1) <= Far(shown, pos) + 1 /\ Far(shown, pos) \in Int /\ Far(shown, pos + 1) \in Int
        BY <1>2 DEF Far
      <4> QED
        BY <4>1, <4>3, <4>4, <4>5
    <3> QED
      BY <3>1, <3>2 DEF ShownInv
  <2> QED
    BY <2>1, <2>2, <2>4, <2>5 DEF FollowInv
<1>6. CASE dir = -1
  <2>1. ParserBehind' /\ run' < 0 /\ run' \in Int
    <3>1. Longer(-1) \in Int
      BY <1>2 DEF Longer
    <3> QED
      BY <3>1, <1>1, <1>6, ArriveBehind
  <2>2. ParserAhead'
    BY <2>1 DEF ParserAhead
  <2>3. -run' >= 17 => -run >= 16 /\ pos' = pos - 1
    <3>0. run * (-1) = -run /\ pos + (-1) = pos - 1
      BY <1>2
    <3>1. CASE c
      BY <3>0, <3>1, <1>1, <1>2, <1>6 DEF Longer
    <3>2. CASE ~ c
      BY <3>2, <1>1, <1>6
    <3> QED
      BY <3>1, <3>2
  <2>4. CopyInv'
    <3>1. CASE mpc' = "idle"
      BY <3>1 DEF CopyInv
    <3>2. CASE mpc' # "idle"
      <4>1. apart' <= 1 /\ -run' >= 16 + apart' /\ SameHigh(pos' + apart') => now' = Behind(pos' + apart')
        <5> SUFFICES ASSUME apart' <= 1, -run' >= 16 + apart', SameHigh(pos' + apart')
                     PROVE  now' = Behind(pos' + apart')
          OBVIOUS
        <5>1. apart = 0 /\ apart' = 1 /\ -run >= 16 /\ pos' = pos - 1
          BY <1>3, <2>3
        <5>2. pos' + apart' = pos + apart
          BY <5>1, <1>2
        <5>3. now = Behind(pos + apart)
          BY <5>1, <5>2, <3>2, <1>1 DEF FollowInv, CopyInv
        <5> QED
          BY <5>2, <5>3, <1>1
      <4>2. ~ (run' >= 16 + apart')
        BY <1>1, <1>2, <2>1
      <4> QED
        BY <4>1, <4>2, <1>4 DEF CopyInv
    <3> QED
      BY <3>1, <3>2
  <2>5. ShownInv'
    <3>1. ~ Polled(1)'
      <4>1. ~ (run' * 1 >= 16 + apart')
        BY <1>1, <1>2, <2>1
      <4> QED
        BY <4>1 DEF Polled
    <3>2. ASSUME Polled(-1)', SameHigh(pos' + apart') PROVE Far(shown', pos') <= 8 + 2 * apart'
      <4>1. apart = 0 /\ apart' = 1 /\ -run >= 16 /\ pos' = pos - 1 /\ shown' = shown
        <5>1. apart' <= 1 /\ run' * (-1) >= 16 + apart'
          BY <3>2 DEF Polled
        <5>2. run' * (-1) = -run'
          BY <2>1
        <5> QED
          BY <5>1, <5>2, <1>1, <1>3, <2>3
      <4>2. Polled(-1) /\ SameHigh(pos + apart)
        <5>1. pos' + apart' = pos + apart /\ run * (-1) >= 16 + apart
          BY <4>1, <1>2
        <5> QED
          BY <5>1, <4>1, <3>2, <1>1 DEF Polled
      <4>3. Far(shown, pos) <= 8 + 2 * apart
        BY <4>2 DEF FollowInv, ShownInv
      <4>4. Far(shown, pos - 1) <= Far(shown, pos) + 1 /\ Far(shown, pos) \in Int /\ Far(shown, pos - 1) \in Int
        BY <1>2 DEF Far
      <4> QED
        BY <4>1, <4>3, <4>4
    <3>3. Polled(-1)' /\ SameHigh(pos + apart)' => Far(shown, pos)' <= (8 + 2 * apart)'
      BY <3>2
    <3> QED
      BY <3>1, <3>3 DEF ShownInv
  <2> QED
    BY <2>1, <2>2, <2>4, <2>5 DEF FollowInv
<1> QED
  BY <1>2, <1>5, <1>6

-----------------------------------------------------------------------------
(* What a poll makes of a complete time. *)

LEMMA FrameAt ==
  ASSUME NEW p \in Nat
  PROVE  \A k : Frame([TimeAt(p) EXCEPT !.tick = k]) = 2 * (p \div 8)
<1>1. 2 * (p \div 8) \in Nat
  OBVIOUS
<1>2. Frame(TimeAt(p)) = 2 * (p \div 8) /\ TimeAt(p) \in Times
  BY <1>1, FrameOfTime, TimeAtType DEF TimeAt
<1>3. \A t \in Times : \A k : Frame([t EXCEPT !.tick = k]) = Frame(t)
  BY DEF Frame, Times
<1> QED
  BY <1>2, <1>3

LEMMA TickAt ==
  ASSUME NEW p \in Nat
  PROVE  \A k : [TimeAt(p) EXCEPT !.tick = k].tick = k
<1>1. TimeAt(p) \in Times
  BY TimeAtType
<1>2. \A t \in Times : \A k : [t EXCEPT !.tick = k].tick = k
  BY DEF Times
<1> QED
  BY <1>1, <1>2

\* The time that is complete at p is that of the group of eight before it.
LEMMA AheadFrame ==
  ASSUME NEW p \in Nat, Phase(p) <= p
  PROVE  /\ Frame(Ahead(p)) \in Nat
         /\ 4 * Frame(Ahead(p)) = p - Phase(p) - 7
         /\ Ahead(p).tick = Phase(p) + 7
<1>1. p - Phase(p) \in Nat
  BY Places
<1>2. Frame(Ahead(p)) = 2 * ((p - Phase(p)) \div 8) /\ Ahead(p).tick = Phase(p) + 7
  BY <1>1, FrameAt, TickAt DEF Ahead
<1>3. PICK q \in Nat, n \in 0 .. 7 : p = 8 * q + n /\ n = Piece(p) /\ Phase(p) = (n + 1) % 8
  BY Places
<1>4. CASE n = 7
  <2>0. p = 8 * q + 7
    BY <1>3, <1>4
  <2>1. (p + 1) % 8 = 0
    BY <2>0, <1>3
  <2>2. Phase(p) = 0 /\ p - Phase(p) = 8 * q + 7
    BY <2>0, <2>1 DEF Phase
  <2>3. (8 * q + 7) \div 8 = q
    OBVIOUS
  <2> QED
    <3>1. (p - Phase(p)) \div 8 = q
      BY <2>2, <2>3
    <3>2. Frame(Ahead(p)) = 2 * q
      BY <3>1, <1>2
    <3> QED
      BY <3>2, <1>2, <1>3, <2>0, <2>2
<1>5. CASE n < 7
  <2>1. Phase(p) = n + 1 /\ p - Phase(p) = 8 * q - 1 /\ q >= 1
    BY <1>1, <1>3, <1>5
  <2>2. (p - Phase(p)) \div 8 = q - 1
    <3>1. PICK e \in Nat : e = q - 1
      BY <2>1, <1>3
    <3>2. p - Phase(p) = 8 * e + 7
      BY <3>1, <2>1, <1>3
    <3>3. (8 * e + 7) \div 8 = e
      BY <3>1
    <3> QED
      BY <3>1, <3>2, <3>3
  <2> QED
    BY <1>2, <1>3, <2>1, <2>2
<1> QED
  BY <1>3, <1>4, <1>5

LEMMA BehindFrame ==
  ASSUME NEW p \in Nat
  PROVE  /\ Frame(Behind(p)) \in Nat
         /\ 4 * Frame(Behind(p)) = p - Piece(p) + 8
         /\ Behind(p).tick = -Phase(p)
<1>1. p + 8 \in Nat
  OBVIOUS
<1>2. Frame(Behind(p)) = 2 * ((p + 8) \div 8) /\ Behind(p).tick = -Phase(p)
  BY <1>1, FrameAt, TickAt DEF Behind
<1>3. PICK q \in Nat, n \in 0 .. 7 : p = 8 * q + n /\ n = Piece(p)
  BY Places
<1>4. (p + 8) \div 8 = q + 1
  BY <1>3
<1> QED
  BY <1>2, <1>3, <1>4

LEMMA Rounded ==
  ASSUME NEW t \in Int
  PROVE  Rint(t) \in Int /\ 4 * Rint(t) \in t - 2 .. t + 2
BY DEF Rint

LEMMA RoundedBelow ==
  ASSUME NEW t \in -7 .. 0
  PROVE  Rint(t) = IF t >= -2 THEN 0 ELSE IF t >= -5 THEN -1 ELSE -2
BY DEF Rint

\* Forwards: the tick is that of the copy, or of one message later.
LEMMA AheadShown ==
  ASSUME NEW p \in Nat, Phase(p) <= p, NEW a \in {0, 1}, NEW t \in Int, NEW s,
         s = Frame(Ahead(p)) + Rint(t)
  PROVE  /\ s \in Int
         /\ t = Phase(p) + 7 => Far(s, p + a) <= 2 + a
         /\ t = Phase(p + a) + 7 => Far(s, p + a) <= (IF a = 1 THEN 10 ELSE 2) + a
<1>1. PICK f \in Nat : f = Frame(Ahead(p)) /\ 4 * f = p - Phase(p) - 7
  BY AheadFrame
<1>2. PICK g \in Nat : g = Phase(p) /\ g \in 0 .. 7
  BY Places
<1>3. Phase(p + 1) = g + 1 \/ Phase(p + 1) = g - 7
  BY <1>2 DEF Phase
<1>4. PICK r \in Int : r = Rint(t) /\ 4 * r \in t - 2 .. t + 2
  BY Rounded
<1>5. s = f + r /\ s \in Int
  BY <1>1, <1>4
<1>6. ASSUME t = g + 7 PROVE Far(s, p + a) <= 2 + a
  <2>1. 4 * s \in p - 2 .. p + 2
    BY <1>1, <1>2, <1>4, <1>5, <1>6
  <2> QED
    BY <2>1, <1>5 DEF Far
<1>7. ASSUME a = 1, t = Phase(p + 1) + 7 PROVE Far(s, p + a) <= 10 + a
  <2>1. 4 * s \in p - 9 .. p + 3
    BY <1>1, <1>2, <1>3, <1>4, <1>5, <1>7
  <2> QED
    BY <2>1, <1>5, <1>7 DEF Far
<1>8. a = 0 => Phase(p + a) = g
  BY <1>2
<1> QED
  BY <1>2, <1>5, <1>6, <1>7, <1>8

\* Backwards: the tick counts down to the time that is complete.
LEMMA BehindShown ==
  ASSUME NEW p \in Nat, NEW a \in {0, 1}, a <= p, NEW t, t \in {-Phase(p), -Phase(p - a)}, NEW s,
         s = Frame(Behind(p)) + Rint(t)
  PROVE  s \in Int /\ Far(s, p - a) <= 8 + 2 * a
<1>1. PICK f \in Nat, n \in 0 .. 7 : f = Frame(Behind(p)) /\ n = Piece(p) /\ 4 * f = p - n + 8
  <2>1. Piece(p) \in 0 .. 7
    BY Places
  <2> QED
    BY <2>1, BehindFrame
<1>2. Phase(p) = (IF n = 7 THEN 0 ELSE n + 1)
  BY <1>1, Places
<1>3. a = 1 => Phase(p - a) = n
  BY <1>1 DEF Phase, Piece
<1>4. t = (IF n = 7 THEN 0 ELSE -(n + 1)) \/ (a = 1 /\ t = -n)
  BY <1>1, <1>2, <1>3
<1>5. PICK r \in Int : r = Rint(t)
  <2>1. t \in Int
    BY <1>1, <1>4
  <2> QED
    BY <2>1, RintType
<1>6. s = f + r /\ s \in Int
  BY <1>1, <1>5
<1>7. t \in -7 .. 0 /\ r = IF t >= -2 THEN 0 ELSE IF t >= -5 THEN -1 ELSE -2
  <2>1. t \in -7 .. 0
    BY <1>1, <1>4
  <2> QED
    BY <2>1, <1>5, RoundedBelow
<1>8. 4 * s - (p - a) \in -(8 + 2 * a) .. 8 + 2 * a
  <2>1. CASE t = (IF n = 7 THEN 0 ELSE -(n + 1))
    BY <1>1, <1>6, <1>7, <2>1
  <2>2. CASE a = 1 /\ t = -n
    BY <1>1, <1>6, <1>7, <2>2
  <2> QED
    BY <1>4, <2>1, <2>2
<1> QED
  BY <1>6, <1>8 DEF Far

-----------------------------------------------------------------------------
(* The other steps. *)

LEMMA NoCount ==
  \A y \in Int, z \in Nat :
    y >= 0 /\ y <= 0 => /\ ~ (y > 0) /\ ~ (y < 0) /\ ~ (y >= 16 + z) /\ ~ (-y >= 16 + z)
                        /\ ~ (y * 1 >= 16 + z) /\ ~ (y * (-1) >= 16 + z)
OBVIOUS

\* Whatever begins the count of messages again keeps no promise.
LEMMA Restarted ==
  ASSUME run' = 0, apart' \in 0 .. 2,
         mpc' # "idle" => driver' # "ALSA-RAW-MIDI" /\ (driver' = "JACK-MIDI" => apart' = 0)
  PROVE  FollowInv'
<1>1. /\ ~ (run' > 0) /\ ~ (run' < 0) /\ ~ (run' >= 16 + apart') /\ ~ (-run' >= 16 + apart')
      /\ ~ (run' * 1 >= 16 + apart') /\ ~ (run' * (-1) >= 16 + apart')
  <2>1. run' \in Int /\ apart' \in Nat /\ run' >= 0 /\ run' <= 0
    OBVIOUS
  <2> QED
    BY <2>1, NoCount
<1>2. ~ Polled(1)' /\ ~ Polled(-1)'
  BY <1>1 DEF Polled
<1> QED
  BY <1>1, <1>2 DEF FollowInv, ParserAhead, ParserBehind, CopyInv, ShownInv

LEMMA FollowInit ==
  ASSUME Init
  PROVE  FollowInv
<1>1. ~ Polled(1) /\ ~ Polled(-1)
  BY DEF Init, Polled
<1> QED
  BY <1>1 DEF Init, FollowInv, ParserAhead, ParserBehind, CopyInv, ShownInv

LEMMA SenderFollows ==
  ASSUME Inv, FollowInv, Sender
  PROVE  FollowInv'
<1>0. apart \in 0 .. 2 /\ pos \in Int /\ dir \in {-1, 0, 1} /\ run \in -17 .. 17
  BY DEF Inv, TypeOK
<1>1. CASE Send
  <2>1. PICK p \in First .. Last : p = pos + dir /\ Arrive(p, TRUE)
    BY <1>1 DEF Send
  <2>2. dir # 0
    BY <1>1 DEF Send
  <2> QED
    BY <2>1, <2>2, ArriveFollows
<1>2. ASSUME NEW n \in {1, Lap}, Lose(n)
      PROVE  FollowInv'
  <2>1. PICK p \in First .. Last : Arrive(p, FALSE)
    BY <1>2 DEF Lose
  <2>2. dir # 0
    BY <1>2 DEF Lose
  <2> QED
    BY <2>1, <2>2, ArriveFollows
<1>3. ASSUME NEW d \in {-1, 1}, Roll(d)
      PROVE  FollowInv'
  <2>1. run' = 0 /\ mpc' = "idle" /\ apart' = apart
    BY <1>3 DEF Roll, pollVars, callVars
  <2> QED
    BY <2>1, <1>0, Restarted
<1>4. CASE Stop
  <2>1. UNCHANGED <<driver, pos, tc, last_tc, full_tc, half, mpc, now, shown, apart, run>> /\ dir' = 0
    BY <1>4 DEF Stop, parserVars, pollVars, callVars, histVars
  <2>2. ParserAhead' /\ ParserBehind'
    BY <2>1 DEF FollowInv, ParserAhead, ParserBehind
  <2>3. CopyInv' /\ ShownInv'
    BY <2>1 DEF FollowInv, CopyInv, ShownInv, Polled, LagForward, SameHigh
  <2> QED
    BY <2>2, <2>3 DEF FollowInv
<1>5. ASSUME NEW f \in Targets, Locate(f)
      PROVE  FollowInv'
  <2>1. run' = 0 /\ MayParse /\ Aside /\ UNCHANGED <<driver, mpc>>
    BY <1>5 DEF Locate, callVars
  <2>2. apart' \in 0 .. 2
    BY <2>1, <1>0 DEF Aside
  <2>3. mpc' # "idle" => driver' # "ALSA-RAW-MIDI" /\ driver' # "JACK-MIDI"
    BY <2>1 DEF MayParse
  <2> QED
    BY <2>1, <2>2, <2>3, Restarted
<1>6. CASE LocateRest
  <2>1. half # NoFrame /\ MayParse /\ Aside /\ UNCHANGED <<driver, mpc, run>>
    BY <1>6 DEF LocateRest, callVars
  <2>2. run = 0
    BY <2>1, <1>0 DEF FollowInv, ParserAhead, ParserBehind
  <2>3. apart' \in 0 .. 2
    BY <2>1, <1>0 DEF Aside
  <2>4. mpc' # "idle" => driver' # "ALSA-RAW-MIDI" /\ driver' # "JACK-MIDI"
    BY <2>1 DEF MayParse
  <2> QED
    BY <2>1, <2>2, <2>3, <2>4, Restarted
<1> QED
  BY <1>1, <1>2, <1>3, <1>4, <1>5, <1>6 DEF Sender

\* The parser is left alone by a poll that does not take it for stuck.
LEMMA ParserSame ==
  ASSUME FollowInv, UNCHANGED <<pos, dir, tc, last_tc, full_tc, half, run>>
  PROVE  ParserAhead' /\ ParserBehind'
BY DEF FollowInv, ParserAhead, ParserBehind

LEMMA PollReadFollows ==
  ASSUME Inv, FollowInv, PollRead
  PROVE  FollowInv'
<1>1. /\ UNCHANGED <<driver, pos, dir, tc, last_tc, full_tc, half, run>>
      /\ apart' = 0 /\ mpc = "idle"
  BY DEF PollRead, parserVars
<1>2. ParserAhead' /\ ParserBehind'
  BY <1>1, ParserSame
<1>3. run \in -17 .. 17 /\ pos \in Int
  BY DEF Inv, TypeOK
<1>4. run >= 16 => pos \in Nat /\ Phase(pos) \in 0 .. 7 /\ Phase(pos) <= pos /\ last_tc = Ahead(pos)
  <2> SUFFICES ASSUME run >= 16
               PROVE  pos \in Nat /\ Phase(pos) \in 0 .. 7 /\ Phase(pos) <= pos /\ last_tc = Ahead(pos)
    OBVIOUS
  <2>1. run > 0 /\ run >= 16
    BY <1>3
  <2>2. pos \in Nat /\ run <= pos + 1 /\ (run >= 9 + Phase(pos) => last_tc = Ahead(pos))
    BY <2>1 DEF FollowInv, ParserAhead
  <2>3. Phase(pos) \in 0 .. 7
    BY <2>2, Places
  <2> QED
    BY <1>3, <2>1, <2>2, <2>3
<1>5. -run >= 16 => pos \in Nat /\ (SameHigh(pos) => last_tc = Behind(pos))
  <2> SUFFICES ASSUME -run >= 16
               PROVE  pos \in Nat /\ (SameHigh(pos) => last_tc = Behind(pos))
    OBVIOUS
  <2>1. run < 0
    BY <1>3
  <2>2. pos \in Nat /\ (-run >= 16 - Piece(pos) => (SameHigh(pos) => last_tc = Behind(pos)))
    BY <2>1 DEF FollowInv, ParserBehind
  <2>3. Piece(pos) \in 0 .. 7
    BY <2>2, Places
  <2>4. -run >= 16 - Piece(pos)
    BY <1>3, <2>3
  <2> QED
    BY <2>2, <2>4
<1>6. run * 1 = run /\ run * (-1) = -run /\ pos + 0 = pos /\ pos - 0 = pos
  BY <1>3
<1>7. CASE driver = "ALSA-RAW-MIDI"
  <2>1. shown' = Frame(last_tc) /\ UNCHANGED <<mpc, now>>
    BY <1>7 DEF PollRead
  <2>2. CopyInv'
    BY <1>1, <2>1 DEF CopyInv
  <2>3. Polled(1)' => Far(shown', pos') <= LagForward' + apart'
    <3> SUFFICES ASSUME run >= 16 PROVE Far(Frame(last_tc), pos) <= 14
      BY <1>1, <1>6, <1>7, <2>1 DEF Polled, LagForward
    <3>1. PICK f \in Nat : f = Frame(last_tc) /\ 4 * f = pos - Phase(pos) - 7
      BY <1>4, AheadFrame
    <3> QED
      BY <1>4, <3>1 DEF Far
  <2>4. Polled(-1)' /\ SameHigh(pos' + apart') => Far(shown', pos') <= 8 + 2 * apart'
    <3> SUFFICES ASSUME -run >= 16, SameHigh(pos) PROVE Far(Frame(last_tc), pos) <= 8
      BY <1>1, <1>6, <2>1 DEF Polled
    <3>1. PICK f \in Nat : f = Frame(last_tc) /\ 4 * f = pos - Piece(pos) + 8
      BY <1>5, BehindFrame
    <3>2. Piece(pos) \in 0 .. 7
      BY <1>5, Places
    <3> QED
      BY <1>5, <3>1, <3>2 DEF Far
  <2>5. ShownInv'
    <3>1. Polled(-1)' /\ SameHigh(pos + apart)' => Far(shown, pos)' <= (8 + 2 * apart)'
      BY <2>4
    <3> QED
      BY <2>3, <3>1 DEF ShownInv
  <2> QED
    BY <1>2, <2>2, <2>5 DEF FollowInv
<1>8. CASE driver # "ALSA-RAW-MIDI"
  <2>1. mpc' = "check" /\ now' = last_tc
    BY <1>8 DEF PollRead
  <2>2. run' >= 16 + apart' => now' = Ahead(pos' - apart')
    BY <1>1, <1>3, <1>4, <1>6, <2>1
  <2>3. -run' >= 16 + apart' /\ SameHigh(pos' + apart') => now' = Behind(pos' + apart')
    <3> SUFFICES ASSUME -run >= 16, SameHigh(pos) PROVE last_tc = Behind(pos)
      BY <1>1, <1>3, <1>6, <2>1
    <3> QED
      BY <1>5
  <2>4. CopyInv'
    <3>1. -run' >= 16 + apart' /\ SameHigh(pos + apart)' => now' = Behind(pos + apart)'
      BY <2>3
    <3>2. run' >= 16 + apart' => now' = Ahead(pos - apart)'
      BY <2>2
    <3> QED
      BY <1>1, <1>8, <3>1, <3>2 DEF CopyInv
  <2>5. ShownInv'
    BY <2>1 DEF ShownInv, Polled
  <2> QED
    BY <1>2, <2>4, <2>5 DEF FollowInv
<1> QED
  BY <1>7, <1>8

LEMMA PollCheckFollows ==
  ASSUME Inv, FollowInv, PollCheck
  PROVE  FollowInv'
<1>1. /\ UNCHANGED <<driver, pos, dir, tc, half, apart>> /\ mpc = "check"
      /\ run \in -17 .. 17 /\ apart \in 0 .. 2 /\ full_tc \subseteq AllTicks
  BY DEF PollCheck, senderVars, parserVars, Inv, TypeOK
<1>2. CASE full_tc # AllTicks
  <2>1. mpc' = "idle" /\ UNCHANGED <<last_tc, full_tc, run>>
    BY <1>2 DEF PollCheck, parserVars
  <2>2. ~ (run >= 16)
    <3> SUFFICES ASSUME run >= 16 PROVE FALSE
      OBVIOUS
    <3>1. run > 0 /\ \A i \in 0 .. 7 : i <= run - 2
      BY <1>1
    <3>2. pos \in Nat /\ \A i \in 0 .. 7 : (pos - i + 1) % 8 \in full_tc
      BY <3>1 DEF FollowInv, ParserAhead
    <3> QED
      BY <3>2, <1>1, <1>2, AllTicksCome
  <2>3. ~ (-run >= 16)
    <3> SUFFICES ASSUME -run >= 16 PROVE FALSE
      OBVIOUS
    <3>1. run < 0 /\ \A i \in 0 .. 7 : i <= -run - 2
      BY <1>1
    <3>2. pos \in Nat /\ \A i \in 0 .. 7 : (pos + i + 1) % 8 \in full_tc
      BY <3>1 DEF FollowInv, ParserBehind
    <3> QED
      BY <3>2, <1>1, <1>2, AllTicksCome
  <2>4. ~ Polled(1)' /\ ~ Polled(-1)'
    BY <1>1, <2>1, <2>2, <2>3 DEF Polled
  <2>5. ParserAhead' /\ ParserBehind'
    BY <1>1, <2>1, ParserSame
  <2> QED
    BY <2>1, <2>4, <2>5 DEF FollowInv, CopyInv, ShownInv
<1>3. CASE full_tc = AllTicks
  <2>1. mpc' = "tick"
    BY <1>3 DEF PollCheck
  <2>2. CASE run' = 0
    <3>1. mpc' # "idle" => driver' # "ALSA-RAW-MIDI" /\ (driver' = "JACK-MIDI" => apart' = 0)
      BY <1>1 DEF FollowInv, CopyInv
    <3> QED
      BY <1>1, <2>2, <3>1, Restarted
  <2>3. CASE UNCHANGED <<full_tc, last_tc, now, run>>
    <3>1. ParserAhead' /\ ParserBehind'
      BY <1>1, <2>3, ParserSame
    <3>2. CopyInv'
      BY <1>1, <2>3 DEF FollowInv, CopyInv, SameHigh
    <3>3. ShownInv'
      BY <2>1 DEF ShownInv, Polled
    <3> QED
      BY <3>1, <3>2, <3>3 DEF FollowInv
  <2> QED
    BY <1>3, <2>2, <2>3 DEF PollCheck
<1> QED
  BY <1>2, <1>3

LEMMA PollTickFollows ==
  ASSUME Inv, FollowInv, PollTick
  PROVE  FollowInv'
<1>1. /\ UNCHANGED <<driver, pos, dir, tc, last_tc, full_tc, half, run, apart>>
      /\ mpc = "tick" /\ mpc' = "idle"
      /\ shown' = Frame(now) + Rint(IF driver = "PORTMIDI" THEN now.tick ELSE last_tc.tick)
  BY DEF PollTick, senderVars, parserVars, histVars
<1>2. ParserAhead' /\ ParserBehind' /\ CopyInv'
  BY <1>1, ParserSame DEF CopyInv
<1>3. run \in -17 .. 17 /\ apart \in 0 .. 2 /\ pos \in Int /\ driver \in Drivers
  BY DEF Inv, TypeOK
<1>4. /\ driver # "ALSA-RAW-MIDI"
      /\ driver = "JACK-MIDI" => apart = 0
      /\ apart <= 1 /\ run >= 16 + apart => now = Ahead(pos - apart)
      /\ apart <= 1 /\ -run >= 16 + apart /\ SameHigh(pos + apart) => now = Behind(pos + apart)
  BY <1>1 DEF FollowInv, CopyInv
<1>5. PICK t : t = IF driver = "PORTMIDI" THEN now.tick ELSE last_tc.tick
  OBVIOUS
<1>6. ASSUME apart <= 1, run >= 16 + apart
      PROVE  Far(shown', pos) <= LagForward + apart
  <2>1. PICK a \in {0, 1} : a = apart
    BY <1>3, <1>6
  <2>2. run > 0 /\ run >= 16
    BY <1>3, <1>6
  <2>3. pos \in Nat /\ run <= pos + 1 /\ (run >= 9 + Phase(pos) => last_tc = Ahead(pos))
    BY <2>2 DEF FollowInv, ParserAhead
  <2>4. PICK p \in Nat : p = pos - a /\ pos = p + a /\ p >= 14
    <3>1. pos - a \in Nat /\ pos = (pos - a) + a /\ pos - a >= 14
      BY <1>3, <2>1, <2>2, <2>3
    <3> QED
      BY <3>1
  <2>5. Phase(p) \in 0 .. 7 /\ Phase(pos) \in 0 .. 7 /\ Phase(p) <= p /\ Phase(pos) <= pos
    <3>1. Phase(p) \in 0 .. 7 /\ Phase(pos) \in 0 .. 7
      BY <2>3, <2>4, Places
    <3> QED
      BY <3>1, <2>4
  <2>6. last_tc = Ahead(pos)
    BY <1>3, <2>2, <2>3, <2>5
  <2>7. last_tc.tick = Phase(p + a) + 7
    BY <2>3, <2>4, <2>5, <2>6, AheadFrame
  <2>8. now = Ahead(p) /\ now.tick = Phase(p) + 7
    BY <1>4, <1>6, <2>1, <2>4, <2>5, AheadFrame
  <2>9. t = Phase(p) + 7 \/ (t = Phase(p + a) + 7 /\ (a = 1 => driver = "ALSA-Sequencer"))
    BY <1>3, <1>4, <1>5, <2>1, <2>7, <2>8 DEF Drivers
  <2>10. t \in Int
    BY <2>4, <2>5, <2>9
  <2>11. shown' = Frame(Ahead(p)) + Rint(t)
    BY <1>1, <1>5, <2>8
  <2>12. /\ t = Phase(p) + 7 => Far(shown', p + a) <= 2 + a
         /\ t = Phase(p + a) + 7 => Far(shown', p + a) <= (IF a = 1 THEN 10 ELSE 2) + a
         /\ shown' \in Int
    BY <2>5, <2>10, <2>11, AheadShown
  <2>13. Far(shown', p + a) \in Int
    <3>1. \A x, y \in Int : Far(x, y) \in Int
      BY DEF Far
    <3>2. shown' \in Int /\ p + a \in Int
      BY <2>4, <2>12
    <3> QED
      BY <3>1, <3>2
  <2>14. LagForward \in {2, 10} /\ (a = 1 /\ driver = "ALSA-Sequencer" => LagForward = 10)
    BY <1>4, <2>1 DEF LagForward
  <2>15. Far(shown', p + a) <= LagForward + a
    BY <2>9, <2>12, <2>13, <2>14
  <2> QED
    BY <2>1, <2>4, <2>15
<1>7. ASSUME apart <= 1, -run >= 16 + apart, SameHigh(pos + apart)
      PROVE  Far(shown', pos) <= 8 + 2 * apart
  <2>1. PICK a \in {0, 1} : a = apart
    BY <1>3, <1>7
  <2>2. run < 0 /\ -run >= 16
    BY <1>3, <1>7
  <2>3. pos \in Nat /\ (-run >= 16 - Piece(pos) => last_tc.tick = -Phase(pos))
    BY <2>2 DEF FollowInv, ParserBehind
  <2>4. PICK p \in Nat : p = pos + a /\ pos = p - a /\ a <= p
    <3>1. pos + a \in Nat /\ pos = (pos + a) - a /\ a <= pos + a
      BY <2>3
    <3> QED
      BY <3>1
  <2>5. last_tc.tick = -Phase(p - a)
    <3>1. Piece(pos) \in 0 .. 7
      BY <2>3, Places
    <3>2. -run >= 16 - Piece(pos)
      BY <3>1, <2>2, <1>3
    <3> QED
      BY <3>2, <2>3, <2>4
  <2>6. now = Behind(p) /\ now.tick = -Phase(p)
    BY <1>4, <1>7, <2>1, <2>4, BehindFrame
  <2>7. t \in {-Phase(p), -Phase(p - a)}
    BY <1>5, <2>5, <2>6
  <2>8. shown' = Frame(Behind(p)) + Rint(t)
    BY <1>1, <1>5, <2>6
  <2>9. Far(shown', p - a) <= 8 + 2 * a
    BY <2>4, <2>7, <2>8, BehindShown
  <2> QED
    BY <2>1, <2>4, <2>9
<1>8. ShownInv'
  <2>1. run * 1 = run /\ run * (-1) = -run
    BY <1>3
  <2>2. Polled(1)' => Far(shown, pos)' <= (LagForward + apart)'
    BY <1>1, <1>6, <2>1 DEF Polled, LagForward
  <2>3. Polled(-1)' /\ SameHigh(pos + apart)' => Far(shown, pos)' <= (8 + 2 * apart)'
    BY <1>1, <1>7, <2>1 DEF Polled, SameHigh
  <2> QED
    BY <2>2, <2>3 DEF ShownInv
<1> QED
  BY <1>2, <1>8 DEF FollowInv

LEMMA FollowNext ==
  ASSUME Inv, FollowInv, [Next]_vars
  PROVE  FollowInv'
<1>1. CASE Sender
  BY <1>1, SenderFollows
<1>2. CASE Poll
  BY <1>2, PollReadFollows, PollCheckFollows, PollTickFollows DEF Poll
<1>3. CASE Reconnect
  <2>1. run' = 0 /\ mpc' = "idle" /\ apart' = apart /\ apart \in 0 .. 2
    BY <1>3 DEF Reconnect, pollVars, callVars, Inv, TypeOK
  <2> QED
    BY <2>1, Restarted
<1>4. CASE UNCHANGED vars
  <2>1. UNCHANGED <<driver, pos, dir, tc, last_tc, full_tc, half, mpc, now, shown, apart, run>>
    BY <1>4 DEF vars, senderVars, parserVars, pollVars, callVars, histVars
  <2>2. ParserAhead' /\ ParserBehind'
    BY <2>1, ParserSame
  <2>3. CopyInv' /\ ShownInv'
    BY <2>1 DEF FollowInv, CopyInv, ShownInv, Polled, LagForward, SameHigh
  <2> QED
    BY <2>2, <2>3 DEF FollowInv
<1> QED
  BY <1>1, <1>2, <1>3, <1>4 DEF Next

\* What is close while the high digit of the hour stays from one time to the
\* next is close while it stays over two.
LEMMA ShownFollows ==
  ASSUME Inv, FollowInv
  PROVE  PositionIsFollowed
<1>1. ForwardIsExact
  BY DEF FollowInv, ShownInv, ForwardIsExact
<1>2. ReverseIsClose
  <2> SUFFICES ASSUME Polled(-1), Digit(7, TimeAt(pos)) = Digit(7, TimeAt(pos + 16))
               PROVE  Far(shown, pos) <= 8 + 2 * apart
    BY DEF ReverseIsClose
  <2>1. apart \in {0, 1} /\ run < 0
    <3>1. run \in -17 .. 17 /\ apart \in 0 .. 2 /\ apart <= 1 /\ run * (-1) >= 16 + apart
      BY DEF Polled, Inv, TypeOK
    <3> QED
      BY <3>1
  <2>2. pos \in Nat
    BY <2>1 DEF FollowInv, ParserBehind
  <2>3. PICK p, r, e \in Nat : p = pos + apart /\ r = p + 8 /\ e = pos + 16 /\ pos <= p /\ p <= r /\ r <= e
    <3>1. pos + apart \in Nat /\ pos + apart + 8 \in Nat /\ pos + 16 \in Nat
          /\ pos <= pos + apart /\ pos + apart <= pos + apart + 8 /\ pos + apart + 8 <= pos + 16
      BY <2>1, <2>2
    <3> QED
      BY <3>1
  <2>4. /\ Digit(7, TimeAt(pos)) \in Nat /\ Digit(7, TimeAt(p)) \in Nat
        /\ Digit(7, TimeAt(r)) \in Nat /\ Digit(7, TimeAt(e)) \in Nat
        /\ Digit(7, TimeAt(pos)) <= Digit(7, TimeAt(p))
        /\ Digit(7, TimeAt(p)) <= Digit(7, TimeAt(r))
        /\ Digit(7, TimeAt(r)) <= Digit(7, TimeAt(e))
    BY <2>2, <2>3, HighDigitRises
  <2>5. Digit(7, TimeAt(p)) = Digit(7, TimeAt(r))
    BY <2>3, <2>4
  <2>6. SameHigh(pos + apart)
    BY <2>3, <2>5 DEF SameHigh
  <2> QED
    BY <2>6 DEF FollowInv, ShownInv
<1> QED
  BY <1>1, <1>2 DEF PositionIsFollowed

\* Once 16 messages in a row have come, a poll of any driver returns the frame
\* nearest to the sender's position, within the driver's latency, forwards; and
\* within two frames backwards - whatever was lost, turned round or reconnected
\* before (parse_timecode, midi_poll_frame).
THEOREM PositionFollowed == Spec => []PositionIsFollowed
<1>1. Init => Inv /\ FollowInv
  BY InvInit, FollowInit
<1>2. (Inv /\ FollowInv) /\ [Next]_vars => (Inv /\ FollowInv)'
  BY InvNext, FollowNext
<1>3. Inv /\ FollowInv => PositionIsFollowed
  BY ShownFollows
<1> QED
  BY <1>1, <1>2, <1>3, PTL DEF Spec

=============================================================================
