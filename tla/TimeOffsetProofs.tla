-------------------------- MODULE TimeOffsetProofs --------------------------
(***************************************************************************)
(* Proofs about Timecode and TimeOffset, for any frame rates from 1 to     *)
(* 1000 and any positions, texts and times.                                *)
(***************************************************************************)
EXTENDS TimeOffset, TLAPS

-----------------------------------------------------------------------------
(* Arithmetic.                                                             *)

LEMMA Quotient ==
  ASSUME NEW d \in Nat \ {0}, NEW n \in Nat, d <= n, n < 1001 * d
  PROVE  n \div d \in 1 .. 1000
OBVIOUS

LEMMA BaseInRange == ASSUME NEW r, IsRate(r) PROVE Base(r) \in 1 .. 1000
  <1> DEFINE d == r.den
             n == r.num + r.den - 1
  <1>1. d \in Nat \ {0} /\ r.num \in Nat \ {0}
    BY DEF IsRate
  <1>2. n \in Nat /\ d <= n
    BY <1>1
  <1>3. n < 1001 * d
    BY <1>1 DEF IsRate
  <1>4. n \div d \in 1 .. 1000
    <2> HIDE DEF n, d
    <2> QED BY <1>1, <1>2, <1>3
  <1> QED BY <1>4 DEF Base

\* The next number is in the same unit of b, or the first of the next unit.
LEMMA DivisionNext ==
  ASSUME NEW b \in Nat \ {0}, NEW n \in Nat
  PROVE  /\ (n + 1) % b = IF n % b = b - 1 THEN 0 ELSE (n % b) + 1
         /\ (n + 1) \div b = IF n % b = b - 1 THEN (n \div b) + 1 ELSE n \div b
OBVIOUS

-----------------------------------------------------------------------------
(* Counting with dropped numbers.                                          *)

\* The numbers that are dropped: two at each minute except the tenth.
LEMMA NoDroppedNumber ==
  ASSUME NEW n \in Nat
  PROVE  LET k == InsertDropFrames(n)
         IN  k \in Nat /\ (k % 1800 >= 2 \/ k % 18000 < 1800)
BY DEF InsertDropFrames, Truncated

\* The next frame has the next number, or the first that is not dropped.
LEMMA NextNumber ==
  ASSUME NEW n \in Nat
  PROVE  LET k == InsertDropFrames(n) + 1
         IN  InsertDropFrames(n + 1) =
               IF k % 1800 = 0 /\ k % 18000 # 0 THEN k + 2 ELSE k
BY DEF InsertDropFrames, Truncated

-----------------------------------------------------------------------------
(* A position and its time code.                                           *)

Clock(b, k) ==
  LET s == k \div b
  IN  Fields(k % b, s % 60, (s \div 60) % 60, ((s \div 60) \div 60) % 24)

LEMMA CarriedFields ==
  ASSUME NEW b, NEW f, NEW s, NEW m, NEW h
  PROVE  LET x == s + f \div b
             y == m + x \div 60
             z == h + y \div 60
         IN  Carried(b, Fields(f, s, m, h)) =
               [frame |-> f % b, sec |-> x % 60, min |-> y % 60,
                hour |-> z % 24, overflow |-> z \div 24]
BY DEF Carried, Fields

LEMMA DigitsOfNumber ==
  ASSUME NEW b \in Nat \ {0}, NEW k \in Int
  PROVE  Digits(ParseInt(b, k)) = Clock(b, k)
  <1> DEFINE s == k \div b
  <1>1. s \in Int
    OBVIOUS
  <1>2. ParseInt(b, k) =
          [frame |-> k % b, sec |-> (0 + s) % 60, min |-> (0 + (0 + s) \div 60) % 60,
           hour |-> (0 + (0 + (0 + s) \div 60) \div 60) % 24,
           overflow |-> (0 + (0 + (0 + s) \div 60) \div 60) \div 24]
    BY CarriedFields, Zenon DEF ParseInt
  <1>3. /\ 0 + s = s /\ 0 + s \div 60 = s \div 60
        /\ 0 + (s \div 60) \div 60 = (s \div 60) \div 60
    <2> HIDE DEF s
    <2> QED BY <1>1
  <1> HIDE DEF s
  <1>4. Digits(ParseInt(b, k)) =
          Fields(k % b, s % 60, (s \div 60) % 60, ((s \div 60) \div 60) % 24)
    BY <1>2, <1>3 DEF Digits
  <1> QED BY <1>4 DEF Clock, s

LEMMA NextOfFields ==
  ASSUME NEW b, NEW f, NEW s, NEW m, NEW h
  PROVE  LET x == s + (f + 1) \div b
             y == m + x \div 60
         IN  NextTimecode(b, FALSE, Fields(f, s, m, h)) =
               Fields((f + 1) % b, x % 60, y % 60, (h + y \div 60) % 24)
BY DEF NextTimecode, Carried, Fields

\* Without dropped numbers the next number has the next time code.
LEMMA NextWithoutDropping ==
  ASSUME NEW b \in Nat \ {0}, NEW k \in Nat
  PROVE  Clock(b, k + 1) = NextTimecode(b, FALSE, Clock(b, k))
  <1> DEFINE s == k \div b
             f == k % b
             c == (f + 1) \div b
             x == (s % 60) + c
             y == ((s \div 60) % 60) + x \div 60
             z == (((s \div 60) \div 60) % 24) + y \div 60
  <1>1. s \in Nat /\ f \in 0 .. b - 1
    OBVIOUS
  <1>2. /\ c \in 0 .. 1
        /\ (k + 1) % b = (f + 1) % b /\ (k + 1) \div b = s + c
    <2>1. /\ (k + 1) % b = IF f = b - 1 THEN 0 ELSE f + 1
          /\ (k + 1) \div b = IF f = b - 1 THEN s + 1 ELSE s
      BY DivisionNext, Zenon
    <2>2. /\ (f + 1) % b = IF f = b - 1 THEN 0 ELSE f + 1
          /\ c = IF f = b - 1 THEN 1 ELSE 0
      <3> HIDE DEF f
      <3> QED BY <1>1
    <2> HIDE DEF c, f, s
    <2> QED BY <1>1, <2>1, <2>2
  <1>3. Clock(b, k + 1) =
          Fields((f + 1) % b, (s + c) % 60, ((s + c) \div 60) % 60,
                 (((s + c) \div 60) \div 60) % 24)
    BY <1>2 DEF Clock
  <1>4. NextTimecode(b, FALSE, Clock(b, k)) =
          Fields((f + 1) % b, x % 60, y % 60, z % 24)
    BY Zenon, NextOfFields DEF Clock
  <1>5. /\ (s + c) % 60 = x % 60 /\ ((s + c) \div 60) % 60 = y % 60
        /\ (((s + c) \div 60) \div 60) % 24 = z % 24
    <2> HIDE DEF s, c
    <2> QED BY <1>1, <1>2
  <1> HIDE DEF s, f, c, x, y, z
  <1> QED BY <1>3, <1>4, <1>5

\* With dropped numbers the next frame has the next time code that exists.
LEMMA NextWithDropping ==
  ASSUME NEW n \in Nat
  PROVE  Clock(30, InsertDropFrames(n + 1)) =
           NextTimecode(30, TRUE, Clock(30, InsertDropFrames(n)))
  <1> DEFINE k == InsertDropFrames(n)
             t == Clock(30, k)
             u == Clock(30, k + 1)
             skip == (k + 1) % 1800 = 0 /\ (k + 1) % 18000 # 0
  <1>1. k \in Nat /\ (k % 1800 >= 2 \/ k % 18000 < 1800)
    BY NoDroppedNumber
  <1>2. InsertDropFrames(n + 1) = IF skip THEN k + 3 ELSE k + 1
    BY <1>1, NextNumber
  <1> HIDE DEF k
  <1>3. u = NextTimecode(30, FALSE, t)
    <2>1. k \in Nat /\ 30 \in Nat \ {0}
      BY <1>1
    <2> QED BY <2>1, NextWithoutDropping, Zenon
  <1>4. IsDropped(u) <=> skip
    BY <1>1 DEF IsDropped, Clock, Fields
  <1>5. skip => Clock(30, k + 3) = [u EXCEPT !.frame = 2]
    BY <1>1 DEF Clock, Fields
  <1> HIDE DEF t, u, skip
  <1>6. NextTimecode(30, TRUE, t) =
          IF IsDropped(u) THEN [u EXCEPT !.frame = 2] ELSE u
    BY <1>3 DEF NextTimecode
  <1>7. CASE skip
    <2>1. NextTimecode(30, TRUE, t) = Clock(30, k + 3)
      BY <1>4, <1>5, <1>6, <1>7
    <2>2. InsertDropFrames(n + 1) = k + 3
      BY <1>2, <1>7
    <2> QED BY <2>1, <2>2 DEF t, k
  <1>8. CASE ~skip
    <2>1. NextTimecode(30, TRUE, t) = u
      BY <1>4, <1>6, <1>8
    <2>2. InsertDropFrames(n + 1) = k + 1
      BY <1>2, <1>8
    <2> QED BY <2>1, <2>2 DEF t, u, k
  <1> QED BY <1>7, <1>8

-----------------------------------------------------------------------------
(* Types of the conversions.                                               *)

LEMMA ScaledType ==
  ASSUME NEW n \in Int, NEW a \in Nat, NEW d \in Nat \ {0}
  PROVE  Scaled(n, a, d) \in Int /\ ScaledNearest(n, a, d) \in Int
  <1> DEFINE q == n \div d
             r == (n % d) * a
  <1>1. q \in Int /\ n % d \in Nat
    OBVIOUS
  <1>2. q * a \in Int /\ r \in Int
    BY <1>1
  <1>3. r \div d \in Int
    <2> HIDE DEF r
    <2> QED BY <1>2
  <1>4. Scaled(n, a, d) \in Int
    <2> HIDE DEF q, r
    <2> QED BY <1>2, <1>3 DEF Scaled, q, r
  <1> QED BY <1>4 DEF ScaledNearest

LEMMA MtcRateType ==
  ASSUME NEW type \in 0 .. 3
  PROVE  MtcRate(type).num \in Nat \ {0} /\ MtcRate(type).den \in Nat \ {0}
BY DEF MtcRate

LEMMA SmpteToFrameType ==
  ASSUME NEW r, IsRate(r), NEW type \in 0 .. 3, NEW t, IsTime(t),
         NEW dropped \in BOOLEAN, NEW mode
  PROVE  SmpteToFrame(r, type, t, dropped, mode) \in Int
  <1> DEFINE fps == MtcRate(type)
             all == Seconds(t)
             tens == 3600 * t.hour + 600 * (t.min \div 10)
             count == IF dropped THEN DropCount(fps, t)
                      ELSE t.frame + Scaled(all, fps.num, fps.den)
             per == IF dropped THEN 30 ELSE fps.num
  <1>1. r.num \in Nat /\ r.den \in Nat \ {0}
    BY DEF IsRate
  <1>2. fps.num \in Nat /\ fps.num # 0 /\ fps.den \in Nat \ {0}
    BY MtcRateType
  <1>3. all \in Int /\ tens \in Int
    BY DEF Seconds, IsTime
  <1> HIDE DEF fps, all, tens
  <1>4. /\ Scaled(all, r.num, r.den) \in Int
        /\ Scaled(all, fps.num, fps.den) \in Int
        /\ Scaled(tens, fps.num, fps.den) \in Int
    BY <1>1, <1>2, <1>3, ScaledType, Zenon
  <1>5. DropCount(fps, t) \in Int
    BY <1>4 DEF DropCount, IsTime, tens
  <1>6. count \in Int /\ per * r.den \in Nat \ {0}
    BY <1>1, <1>2, <1>4, <1>5 DEF IsTime
  <1> HIDE DEF count, per
  <1>7. ScaledNearest(count, r.num, per * r.den) \in Int
    BY <1>1, <1>6, ScaledType, Zenon
  <1>8. t.frame + Scaled(all, r.num, r.den) \in Int
    BY <1>4 DEF IsTime
  <1>9. SmpteToFrame(r, type, t, dropped, mode) =
          CASE mode = 1 -> t.frame + Scaled(all, r.num, r.den)
            [] mode = 2 -> ScaledNearest(count, r.num, per * r.den)
            [] OTHER    -> count
    BY DEF SmpteToFrame, count, per, fps, all
  <1> QED BY <1>6, <1>7, <1>8, <1>9

LEMMA CarriedType ==
  ASSUME NEW b \in Nat \ {0}, NEW u, IsTime(u)
  PROVE  IsTimecode(b, Carried(b, u)) /\ Carried(b, u).overflow \in Int
  <1> DEFINE x == u.sec + u.frame \div b
             y == u.min + x \div 60
             z == u.hour + y \div 60
  <1>1. Carried(b, u) =
          [frame |-> u.frame % b, sec |-> x % 60, min |-> y % 60,
           hour |-> z % 24, overflow |-> z \div 24]
    BY DEF Carried
  <1>2. x \in Int /\ u.frame % b \in 0 .. b - 1
    BY DEF IsTime
  <1>3. y \in Int
    <2> HIDE DEF x
    <2> QED BY <1>2 DEF IsTime
  <1>4. z \in Int
    <2> HIDE DEF y
    <2> QED BY <1>3 DEF IsTime
  <1> HIDE DEF x, y, z
  <1>5. /\ x % 60 \in 0 .. 59 /\ y % 60 \in 0 .. 59 /\ z % 24 \in 0 .. 23
        /\ z \div 24 \in Int
    BY <1>2, <1>3, <1>4
  <1> QED BY <1>1, <1>2, <1>5 DEF IsTimecode

LEMMA TextFieldsType == ASSUME NEW text, IsText(text) PROVE IsTime(TextFields(text))
  <1> DEFINE h == text.hour
             m == text.min
             c == text.sec
             f == text.frame
  <1>1. h \in Int /\ m \in Int /\ c \in Int /\ f \in Int /\ 0 \in Int
    BY DEF IsText, IsTime
  <1>2. TextFields(text) \in {Fields(f, c, m, h), Fields(c, m, h, 0),
                             Fields(f, 0, 0, 0)}
    BY DEF TextFields
  <1> HIDE DEF h, m, c, f
  <1> QED BY <1>1, <1>2 DEF Fields, IsTime

LEMMA FrameOfTextType ==
  ASSUME NEW r, IsRate(r), NEW text, IsText(text), NEW have \in BOOLEAN
  PROVE  FrameOfText(r, text, have) \in Int
  <1> DEFINE b == Base(r)
             t == Carried(b, TextFields(text))
             d == DropParsed(text, have)
             n == SmpteToFrame(r, 2, t, TRUE, midi_clkconvert)
  <1>1. b \in Nat \ {0}
    BY BaseInRange
  <1> HIDE DEF b
  <1>2. IsTime(TextFields(text))
    BY TextFieldsType, Zenon
  <1>3. IsTimecode(b, t) /\ t.overflow \in Int
    BY <1>1, <1>2, CarriedType, Zenon
  <1> HIDE DEF t
  <1>4. IsTime(t)
    BY <1>1, <1>3 DEF IsTimecode, IsTime
  <1>5. n \in Int
    <2>1. 2 \in 0 .. 3
      OBVIOUS
    <2> QED BY <1>4, <2>1, SmpteToFrameType, Zenon
  <1>6. ToFrame(b, t) \in Int
    BY <1>1, <1>3, <1>4 DEF ToFrame, Seconds, IsTime
  <1> HIDE DEF n
  <1>7. FrameOfText(r, text, have) =
          IF ~d THEN ToFrame(b, t)
          ELSE IF t.overflow < 0 THEN n - 30 * 86400 ELSE n
    BY DEF FrameOfText, SmpteStringToFrame, b, t, n
  <1> QED BY <1>5, <1>6, <1>7

-----------------------------------------------------------------------------
(* Type correctness.                                                       *)

LEMMA ShownType ==
  ASSUME TypeOK, NEW n \in Int
  PROVE  IsTimecode(1000, TextOf(n)) /\ TextOf(n).sep \in {"colon", "semicolon"}
  <1> DEFINE b == Base(framerate)
             k == IF DropShown THEN InsertDropFrames(n) ELSE n
             t == ParseInt(b, k)
  <1>1. b \in 1 .. 1000
    BY BaseInRange DEF TypeOK, NumbersOK
  <1>2. k \in Int
    BY DEF InsertDropFrames, Truncated
  <1> HIDE DEF b, k
  <1>3. IsTime(Fields(k, 0, 0, 0))
    BY <1>2 DEF IsTime, Fields
  <1>4. IsTimecode(b, t)
    <2>1. b \in Nat \ {0}
      BY <1>1
    <2> QED BY <1>3, <2>1, CarriedType, Zenon DEF ParseInt
  <1> HIDE DEF t
  <1>5. TextOf(n) =
          [hour |-> t.hour, min |-> t.min, sec |-> t.sec, frame |-> t.frame,
           sep |-> IF DropShown THEN "semicolon" ELSE "colon"]
    BY DEF TextOf, ShownWith, FrameToSmpteString, b, k, t
  <1>6. TextOf(n).sep \in {"colon", "semicolon"}
    BY <1>5
  <1>7. t.frame \in 0 .. 999
    <2> DEFINE f == t.frame
    <2>1. f \in 0 .. b - 1
      BY <1>4 DEF IsTimecode
    <2> HIDE DEF f
    <2>2. f \in 0 .. 999
      BY <1>1, <2>1
    <2> QED BY <2>2 DEF f
  <1> QED BY <1>4, <1>5, <1>6, <1>7 DEF IsTimecode

LEMMA RecalculateType ==
  ASSUME TypeOK, NEW r, IsRate(r), NEW have \in BOOLEAN, Recalculate(r, have)
  PROVE  ts_offset' \in Int /\ have_dropframes' \in BOOLEAN
  <1>1. CASE smpte_offset = NoText
    <2>1. ts_offset' = ts_offset /\ have_dropframes' = have
      BY <1>1 DEF Recalculate
    <2> QED BY <2>1 DEF TypeOK, NumbersOK
  <1>2. CASE smpte_offset # NoText
    <2>1. IsText(smpte_offset)
      BY <1>2, TimeOffsetAssumption
         DEF TypeOK, TextOK, IsTimecode, IsText, IsTime
    <2>2. FrameOfText(r, smpte_offset, have) \in Int
      BY <2>1, FrameOfTextType, Zenon DEF TypeOK
    <2> QED BY <1>2, <2>2 DEF Recalculate
  <1> QED BY <1>1, <1>2

LEMMA Limits == Starts \subseteq Int /\ MaxSteps \in Nat
BY TimeOffsetAssumption

LEMMA TypeInit == Init => TypeOK
  <1> SUFFICES ASSUME Init PROVE TypeOK
    OBVIOUS
  <1>1. FlagsOK
    <2>1. have_dropframes \in BOOLEAN
      BY DEF Init, DropParsed
    <2> QED BY <2>1 DEF Init, FlagsOK
  <1>2. TextOK /\ HistoryOK
    BY Zenon DEF Init, TextOK, HistoryOK
  <1>3. IsRate(DefaultRate)
    BY DEF IsRate, DefaultRate
  <1>4. ts_offset \in Int
    <2>1. CASE smpte_offset = NoText
      BY <2>1 DEF Init
    <2>2. CASE smpte_offset # NoText
      <3>1. IsText(smpte_offset) /\ FALSE \in BOOLEAN
        BY <2>2, TimeOffsetAssumption DEF Init
      <3>2. FrameOfText(DefaultRate, smpte_offset, FALSE) \in Int
        BY <1>3, <3>1, FrameOfTextType
      <3> QED BY <2>2, <3>2 DEF Init
    <2> QED BY <2>1, <2>2
  <1>5. NumbersOK
    <2>1. framerate = DefaultRate /\ midi_clkconvert \in 0 .. 2
          /\ newFrame = 0 /\ step = 0
      BY Zenon DEF Init
    <2> QED BY <1>3, <1>4, <2>1, Limits DEF NumbersOK
  <1> QED BY <1>1, <1>2, <1>5 DEF TypeOK

LEMMA TypeStep == TypeOK /\ [Next]_vars => TypeOK'
  <1> SUFFICES ASSUME TypeOK, [Next]_vars PROVE TypeOK'
    OBVIOUS
  <1> USE DEF vars, optVars, histVars
  <1>1. ASSUME NEW r \in Rates, OpenMovie(r) PROVE TypeOK'
    <2>1. IsRate(r) /\ RateDrops(r) \in BOOLEAN
      BY TimeOffsetAssumption DEF RateDrops, TypeOK, FlagsOK
    <2>2. ts_offset' \in Int /\ have_dropframes' \in BOOLEAN
      BY <1>1, <2>1, RecalculateType DEF OpenMovie
    <2>3. FlagsOK'
      BY <1>1, <2>2 DEF OpenMovie, TypeOK, FlagsOK
    <2>4. TextOK'
      BY <1>1 DEF OpenMovie, TypeOK, TextOK
    <2>5. NumbersOK'
      BY <1>1, <2>1, <2>2, Limits DEF OpenMovie, Steps, TypeOK, NumbersOK
    <2>6. HistoryOK'
      BY <1>1 DEF OpenMovie, MeaningChanges, TypeOK, HistoryOK
    <2> QED BY <2>3, <2>4, <2>5, <2>6 DEF TypeOK
  <1>2. CASE OpenFails
    <2>1. IsRate(DefaultRate) /\ have_dropframes \in BOOLEAN
      BY DEF IsRate, DefaultRate, TypeOK, FlagsOK
    <2>2. ts_offset' \in Int /\ have_dropframes' \in BOOLEAN
      BY <1>2, <2>1, RecalculateType DEF OpenFails
    <2>3. FlagsOK'
      BY <1>2, <2>2 DEF OpenFails, TypeOK, FlagsOK
    <2>4. TextOK'
      BY <1>2 DEF OpenFails, TypeOK, TextOK
    <2>5. NumbersOK'
      BY <1>2, <2>1, <2>2, Limits DEF OpenFails, Steps, TypeOK, NumbersOK
    <2>6. HistoryOK'
      BY <1>2 DEF OpenFails, MeaningChanges, TypeOK, HistoryOK
    <2> QED BY <2>3, <2>4, <2>5, <2>6 DEF TypeOK
  <1>3. CASE TimeOffsetKey
    <2>1. PICK n \in Int : KeySets(n)
      <3>1. \A d \in {-1, 1} : ts_offset + d \in Int
        BY DEF TypeOK, NumbersOK
      <3>2. \A s \in {-60, 60, -3600, 3600} : After(ts_offset, s) \in Int
        BY DEF After, TypeOK, NumbersOK, IsRate
      <3> QED BY <1>3, <3>1, <3>2 DEF TimeOffsetKey
    <2>2. ts_offset' = n /\ (keyed' = TRUE \/ UNCHANGED keyed)
          /\ (asked' = NoText \/ UNCHANGED asked)
          /\ (smpte_offset' = TextOf(n) \/ UNCHANGED smpte_offset)
      BY <2>1 DEF KeySets
    <2>3. UNCHANGED <<framerate, have_dropframes, optVars, midi_clkconvert,
                    newFrame, received>> /\ Steps
      BY <1>3 DEF TimeOffsetKey
    <2>4. FlagsOK'
      BY <2>2, <2>3 DEF TypeOK, FlagsOK
    <2>5. TextOK'
      BY <2>2, ShownType DEF TypeOK, TextOK
    <2>6. NumbersOK'
      BY <2>2, <2>3, Limits DEF Steps, TypeOK, NumbersOK
    <2>7. HistoryOK'
      BY <2>2, <2>3 DEF TypeOK, HistoryOK
    <2> QED BY <2>4, <2>5, <2>6, <2>7 DEF TypeOK
  <1>4. ASSUME NEW text \in Texts, SetOffsetText(text) PROVE TypeOK'
    <2>1. IsRate(framerate) /\ IsText(text) /\ have_dropframes \in BOOLEAN
      BY TimeOffsetAssumption DEF TypeOK, FlagsOK, NumbersOK
    <2>2. ts_offset' \in Int
      BY <1>4, <2>1, FrameOfTextType DEF SetOffsetText
    <2>3. FlagsOK'
      BY <1>4 DEF SetOffsetText, TypeOK, FlagsOK
    <2>4. TextOK'
      BY <1>4 DEF SetOffsetText, TypeOK, TextOK
    <2>5. NumbersOK'
      BY <1>4, <2>2, Limits DEF SetOffsetText, Steps, TypeOK, NumbersOK
    <2>6. HistoryOK'
      BY <1>4 DEF SetOffsetText, TypeOK, HistoryOK
    <2> QED BY <2>3, <2>4, <2>5, <2>6 DEF TypeOK
  <1>5. ASSUME NEW text \in Texts, Seek(text) PROVE TypeOK'
    <2>1. IsRate(framerate) /\ IsText(text) /\ have_dropframes \in BOOLEAN
      BY TimeOffsetAssumption DEF TypeOK, FlagsOK, NumbersOK
    <2>2. newFrame' \in Int
      BY <1>5, <2>1, FrameOfTextType DEF Seek
    <2>3. FlagsOK'
      BY <1>5 DEF Seek, TypeOK, FlagsOK
    <2>4. TextOK'
      BY <1>5 DEF Seek, TypeOK, TextOK
    <2>5. NumbersOK'
      BY <1>5, <2>2, Limits DEF Seek, Steps, TypeOK, NumbersOK
    <2>6. HistoryOK'
      BY <1>5 DEF Seek, TypeOK, HistoryOK
    <2> QED BY <2>3, <2>4, <2>5, <2>6 DEF TypeOK
  <1>6. ASSUME NEW n \in {-1, 1}, SetOffsetNumber(n) PROVE TypeOK'
    <2>1. FlagsOK'
      BY <1>6 DEF SetOffsetNumber, TypeOK, FlagsOK
    <2>2. TextOK'
      BY <1>6 DEF SetOffsetNumber, TypeOK, TextOK
    <2>3. NumbersOK'
      BY <1>6, Limits DEF SetOffsetNumber, Steps, TypeOK, NumbersOK
    <2>4. HistoryOK'
      BY <1>6 DEF SetOffsetNumber, TypeOK, HistoryOK
    <2> QED BY <2>1, <2>2, <2>3, <2>4 DEF TypeOK
  <1>7. ASSUME NEW mode \in 0 .. 2, SetMidiSync(mode) PROVE TypeOK'
    <2>1. FlagsOK'
      BY <1>7 DEF SetMidiSync, TypeOK, FlagsOK
    <2>2. TextOK'
      BY <1>7 DEF SetMidiSync, TypeOK, TextOK
    <2>3. NumbersOK'
      BY <1>7, Limits DEF SetMidiSync, Steps, TypeOK, NumbersOK
    <2>4. HistoryOK'
      BY <1>7 DEF SetMidiSync, MeaningChanges, TypeOK, HistoryOK
    <2> QED BY <2>1, <2>2, <2>3, <2>4 DEF TypeOK
  <1>8. ASSUME NEW type \in 0 .. 3, NEW t \in MtcTimes, MtcPoll(type, t)
        PROVE  TypeOK'
    <2> DEFINE d == type = 2 \/ want_dropframes
    <2>1. d \in BOOLEAN /\ have_dropframes' = d
      BY <1>8 DEF MtcPoll, TypeOK, FlagsOK
    <2>2. IsTime(t)
      BY TimeOffsetAssumption DEF IsTimecode, IsTime
    <2>3. newFrame' = SmpteToFrame(framerate, type, t, d, midi_clkconvert)
      BY <1>8 DEF MtcPoll
    <2>4. newFrame' \in Int
      <3> HIDE DEF d
      <3> QED BY <2>1, <2>2, <2>3, SmpteToFrameType DEF TypeOK, NumbersOK
    <2>5. FlagsOK'
      BY <1>8, <2>1 DEF MtcPoll, TypeOK, FlagsOK
    <2>6. TextOK'
      BY <1>8 DEF MtcPoll, TypeOK, TextOK
    <2>7. NumbersOK'
      BY <1>8, <2>4, Limits DEF MtcPoll, Steps, TypeOK, NumbersOK
    <2>8. HistoryOK'
      BY <1>8 DEF MtcPoll, TypeOK, HistoryOK
    <2> QED BY <2>5, <2>6, <2>7, <2>8 DEF TypeOK
  <1>9. ASSUME NEW n \in Starts \cup {newFrame + 1}, Transport(n)
        PROVE  TypeOK'
    <2>1. n \in Int
      BY Limits DEF TypeOK, NumbersOK
    <2>2. FlagsOK'
      BY <1>9 DEF Transport, TypeOK, FlagsOK
    <2>3. TextOK'
      BY <1>9 DEF Transport, TypeOK, TextOK
    <2>4. NumbersOK'
      BY <1>9, <2>1, Limits DEF Transport, Steps, TypeOK, NumbersOK
    <2>5. HistoryOK'
      BY <1>9 DEF Transport, TypeOK, HistoryOK
    <2> QED BY <2>2, <2>3, <2>4, <2>5 DEF TypeOK
  <1>10. CASE UNCHANGED vars
    <2>1. FlagsOK' /\ TextOK'
      BY <1>10 DEF TypeOK, FlagsOK, TextOK
    <2>2. NumbersOK' /\ HistoryOK'
      BY <1>10 DEF TypeOK, NumbersOK, HistoryOK
    <2> QED BY <2>1, <2>2 DEF TypeOK
  <1> QED BY <1>1, <1>2, <1>3, <1>4, <1>5, <1>6, <1>7, <1>8, <1>9, <1>10
          DEF Next

\* At any step the flags, numbers and texts are what the code takes them for.
THEOREM TypeCorrect == Spec => []TypeOK
BY TypeInit, TypeStep, PTL DEF Spec

-----------------------------------------------------------------------------
(* The time code on the screen.                                            *)

\* What is shown of a position is its time code.
LEMMA ShownDigits ==
  ASSUME NEW b \in Nat \ {0}, NEW drop \in BOOLEAN, NEW n \in Int
  PROVE  Digits(FrameToSmpteString(b, drop, n, FALSE)) =
           Clock(b, IF drop THEN InsertDropFrames(n) ELSE n)
  <1> DEFINE k == IF drop THEN InsertDropFrames(n) ELSE n
             t == ParseInt(b, k)
  <1>1. k \in Int
    BY DEF InsertDropFrames, Truncated
  <1> HIDE DEF k
  <1>2. Digits(t) = Clock(b, k)
    BY <1>1, DigitsOfNumber, Zenon
  <1> HIDE DEF t
  <1>3. Digits(FrameToSmpteString(b, drop, n, FALSE)) = Digits(t)
    BY DEF FrameToSmpteString, Digits, k, t
  <1> QED BY <1>2, <1>3 DEF k

\* The next frame is shown as the next time code.
LEMMA NextShown ==
  ASSUME NEW b \in Nat \ {0}, NEW drop \in BOOLEAN, NEW n \in Nat,
         drop => b = 30
  PROVE  Digits(FrameToSmpteString(b, drop, n + 1, FALSE)) =
           NextTimecode(b, drop, Digits(FrameToSmpteString(b, drop, n, FALSE)))
  <1>1. n \in Int /\ n + 1 \in Int
    OBVIOUS
  <1>2. CASE drop
    <2>1. /\ Digits(FrameToSmpteString(b, drop, n, FALSE)) =
               Clock(b, InsertDropFrames(n))
          /\ Digits(FrameToSmpteString(b, drop, n + 1, FALSE)) =
               Clock(b, InsertDropFrames(n + 1))
      BY <1>1, <1>2, ShownDigits
    <2>2. b = 30 /\ drop = TRUE
      BY <1>2
    <2> QED BY <2>1, <2>2, NextWithDropping
  <1>3. CASE ~drop
    <2>1. /\ Digits(FrameToSmpteString(b, drop, n, FALSE)) = Clock(b, n)
          /\ Digits(FrameToSmpteString(b, drop, n + 1, FALSE)) = Clock(b, n + 1)
      BY <1>1, <1>3, ShownDigits
    <2>2. drop = FALSE
      BY <1>3
    <2> QED BY <2>1, <2>2, NextWithoutDropping
  <1> QED BY <1>2, <1>3

\* For every file, position and setting of the flags, the time code that is
\* shown advances by one as the transport does: frame_to_smptestring and
\* insert_drop_frames leave out the dropped numbers and no other.
THEOREM ShownTimecodeAdvances == Spec => TimecodeAdvances
  <1> DEFINE Here == Digits(ShownWith(newFrame, FALSE))
             Step == newFrame >= 0 /\ newFrame' = newFrame + 1 /\ DropFits
                       /\ UNCHANGED <<framerate, DropShown>>
             Advances == Here' =
                           NextTimecode(Base(framerate), DropShown, Here)
  <1>1. TypeOK /\ [Next]_vars => [Step => Advances]_vars
    <2> SUFFICES ASSUME TypeOK, Step PROVE Advances
      OBVIOUS
    <2>1. newFrame \in Nat /\ Base(framerate) \in Nat \ {0}
          /\ DropShown \in BOOLEAN
      BY BaseInRange DEF TypeOK, NumbersOK, DropShown
    <2>2. DropShown => Base(framerate) = 30
      BY DEF DropFits
    <2>3. Digits(FrameToSmpteString(Base(framerate), DropShown, newFrame + 1,
                                    FALSE)) =
            NextTimecode(Base(framerate), DropShown, Here)
      BY <2>1, <2>2, NextShown, Zenon DEF ShownWith
    <2>4. Here' = Digits(FrameToSmpteString(Base(framerate), DropShown,
                                            newFrame + 1, FALSE))
      BY DEF ShownWith
    <2> QED BY <2>3, <2>4
  <1> HIDE DEF Here, Step, Advances
  <1>2. []TypeOK /\ [][Next]_vars => [][Step => Advances]_vars
    BY <1>1, PTL
  <1>3. TimecodeAdvances <=> [][Step => Advances]_vars
    BY DEF TimecodeAdvances, Here, Step, Advances
  <1> QED BY <1>2, <1>3, TypeCorrect, PTL DEF Spec

-----------------------------------------------------------------------------
(* A time code as a frame number, and back.                                *)

LEMMA DivisionUnique ==
  ASSUME NEW b \in Nat \ {0}, NEW q \in Int, NEW r \in 0 .. b - 1
  PROVE  (q * b + r) \div b = q /\ (q * b + r) % b = r
OBVIOUS

LEMMA ClockOfSeconds ==
  ASSUME NEW b \in Nat \ {0}, NEW t, IsTimecode(b, t)
  PROVE  Clock(b, Seconds(t) * b + t.frame) = Digits(t)
  <1> DEFINE s == Seconds(t)
             h == t.hour
             m == t.min
             c == t.sec
             f == t.frame
  <1>1. /\ h \in 0 .. 23 /\ m \in 0 .. 59 /\ c \in 0 .. 59
        /\ s = c + 60 * m + 3600 * h
    BY DEF IsTimecode, Seconds
  <1>f. f \in 0 .. b - 1
    BY DEF IsTimecode
  <1> HIDE DEF s, h, m, c, f
  <1>2. s \in Int
    BY <1>1
  <1>3. (s * b + f) \div b = s /\ (s * b + f) % b = f
    BY <1>2, <1>f, DivisionUnique, Zenon
  <1>4. /\ s % 60 = c /\ (s \div 60) % 60 = m
        /\ ((s \div 60) \div 60) % 24 = h
    <2>1. s % 60 = c /\ s \div 60 = m + 60 * h
      BY <1>1
    <2>2. (m + 60 * h) % 60 = m /\ (m + 60 * h) \div 60 = h
      BY <1>1
    <2>3. h % 24 = h
      BY <1>1
    <2> QED BY <2>1, <2>2, <2>3
  <1>5. Clock(b, s * b + f) = Fields(f, c, m, h)
    <2>1. Clock(b, s * b + f) =
            Fields((s * b + f) % b, ((s * b + f) \div b) % 60,
                   (((s * b + f) \div b) \div 60) % 60,
                   ((((s * b + f) \div b) \div 60) \div 60) % 24)
      BY DEF Clock
    <2> QED BY <1>3, <1>4, <2>1
  <1> QED BY <1>5 DEF Digits, s, h, m, c, f

\* Whole groups of ten minutes at 29.97 frames per second.
LEMMA TenMinutes ==
  ASSUME NEW u \in 0 .. 53
  PROVE  Scaled(600 * u, 30000, 1001) = 17982 * u
BY DEF Scaled

\* With dropped numbers, for the times that exist and are not too late.
LEMMA ClockOfDropCount ==
  ASSUME NEW t, IsTimecode(30, t), ~IsDropped(t), t.hour < 9
  PROVE  /\ DropCount(MtcRate(2), t) \in Nat
         /\ Clock(30, InsertDropFrames(DropCount(MtcRate(2), t))) = Digits(t)
  <1> DEFINE h == t.hour
             m == t.min
             c == t.sec
             f == t.frame
             n == DropCount(MtcRate(2), t)
  <1>1. /\ h \in 0 .. 8 /\ m \in 0 .. 59 /\ c \in 0 .. 59 /\ f \in 0 .. 29
        /\ ~(c = 0 /\ f < 2 /\ m % 10 # 0)
    BY DEF IsTimecode, IsDropped
  <1>2. n = Scaled(3600 * h + 600 * (m \div 10), 30000, 1001)
              + 30 * (60 * (m % 10) + c) + f - 2 * (m % 10)
    BY DEF DropCount, MtcRate
  <1>3. Seconds(t) = c + 60 * m + 3600 * h
    BY DEF Seconds
  <1> HIDE DEF h, m, c, f, n
  <1> DEFINE e == m \div 10
             r == m % 10
  <1>4. e \in 0 .. 5 /\ r \in 0 .. 9 /\ m = 10 * e + r
    BY <1>1
  <1>5. n = Scaled(3600 * h + 600 * e, 30000, 1001) + 30 * (60 * r + c) + f - 2 * r
    BY <1>2
  <1>6. ~(c = 0 /\ f < 2 /\ r # 0)
    BY <1>1
  <1> HIDE DEF e, r
  <1> DEFINE u == 6 * h + e
             x == 30 * (60 * r + c) + f
             off == x - 2 * r
             k == Seconds(t) * 30 + f
  <1>7. u \in 0 .. 53 /\ 3600 * h + 600 * e = 600 * u
    BY <1>1, <1>4
  <1>8. k = 18000 * u + x
    <2>1. Seconds(t) = c + 60 * r + 600 * u
      BY <1>1, <1>3, <1>4
    <2> HIDE DEF u
    <2> QED BY <1>1, <1>4, <1>7, <2>1
  <1>9. /\ off \in 0 .. 17981
        /\ off + (IF off >= 1800 THEN 2 + 2 * ((off - 1800) \div 1798) ELSE 0) = x
    <2>1. x \in 1800 * r .. 1800 * r + 1799 /\ (r # 0 => x >= 1800 * r + 2)
      BY <1>1, <1>4, <1>6
    <2> HIDE DEF x
    <2> QED BY <1>4, <2>1
  <1> HIDE DEF u
  <1>10. n = 17982 * u + off
    BY <1>1, <1>4, <1>5, <1>7, TenMinutes
  <1>x. x \in Int
    BY <1>1, <1>4
  <1> HIDE DEF off, k, x
  <1>11. n \in Nat /\ Truncated(n, 17982) = u /\ n - 17982 * u = off
    BY <1>7, <1>9, <1>10 DEF Truncated
  <1>12. InsertDropFrames(n) =
          18000 * u + off + (IF off >= 1800
                               THEN 2 + 2 * ((off - 1800) \div 1798) ELSE 0)
    BY <1>11 DEF InsertDropFrames
  <1>13. InsertDropFrames(n) = k
    BY <1>7, <1>8, <1>9, <1>12, <1>x
  <1>14. Clock(30, k) = Digits(t)
    <2>1. 30 \in Nat \ {0}
      OBVIOUS
    <2> QED BY <2>1, ClockOfSeconds DEF f, k
  <1> QED BY <1>11, <1>13, <1>14 DEF n

-----------------------------------------------------------------------------
(* What was entered or received is what is shown.                          *)

\* The offset and the position are still the ones that the text and the time
\* of the histories mean.
AskedInForce ==
  asked # NoText => ts_offset = FrameOfText(framerate, asked, have_dropframes)

ReceivedInForce ==
  received # NoTime =>
    newFrame = SmpteToFrame(framerate, received.type, received.time,
                            received.type = 2 \/ want_dropframes,
                            midi_clkconvert)

\* smptestring_to_frame may set have_dropframes, but only where the flag
\* changes the meaning of no text.
LEMMA SameMeaning ==
  ASSUME NEW r, NEW text, NEW seen, NEW have \in BOOLEAN
  PROVE  FrameOfText(r, text, have \/ DropParsed(seen, have)) =
           FrameOfText(r, text, have)
  <1>1. DropParsed(text, have \/ DropParsed(seen, have)) <=> DropParsed(text, have)
    BY DEF DropParsed
  <1>2. DropParsed(text, have \/ DropParsed(seen, have)) = DropParsed(text, have)
    BY <1>1 DEF DropParsed
  <1> QED BY <1>2 DEF FrameOfText

LEMMA InForceInit == Init => AskedInForce /\ ReceivedInForce
BY DEF Init, AskedInForce, ReceivedInForce

LEMMA AskedStep == TypeOK /\ AskedInForce /\ [Next]_vars => AskedInForce'
  <1> SUFFICES ASSUME TypeOK, AskedInForce, [Next]_vars PROVE AskedInForce'
    OBVIOUS
  <1> USE DEF optVars, histVars
  <1>1. CASE asked' = NoText
    BY <1>1 DEF AskedInForce
  <1>2. ASSUME UNCHANGED <<asked, ts_offset, framerate, midi_clkconvert, optVars>>,
               \/ UNCHANGED have_dropframes
               \/ \E text : have_dropframes' =
                              (have_dropframes \/ DropParsed(text, have_dropframes))
        PROVE  AskedInForce'
    <2>1. FrameOfText(framerate, asked, have_dropframes') =
            FrameOfText(framerate, asked, have_dropframes)
      BY <1>2, SameMeaning DEF TypeOK, FlagsOK
    <2>2. FrameOfText(framerate, asked, have_dropframes)' =
            FrameOfText(framerate, asked, have_dropframes')
      BY <1>2 DEF FrameOfText, DropParsed
    <2> QED BY <1>2, <2>1, <2>2 DEF AskedInForce
  <1>3. ASSUME NEW text \in Texts, SetOffsetText(text) PROVE AskedInForce'
    <2>1. FrameOfText(framerate, text, have_dropframes') =
            FrameOfText(framerate, text, have_dropframes)
      BY <1>3, SameMeaning DEF SetOffsetText, TypeOK, FlagsOK
    <2>2. FrameOfText(framerate, asked, have_dropframes)' =
            FrameOfText(framerate, text, have_dropframes')
      BY <1>3 DEF SetOffsetText, FrameOfText, DropParsed
    <2> QED BY <1>3, <2>1, <2>2 DEF SetOffsetText, AskedInForce
  <1>4. CASE \/ \E r \in Rates : OpenMovie(r)
             \/ OpenFails
             \/ \E n \in {-1, 1} : SetOffsetNumber(n)
             \/ \E mode \in 0 .. 2 : SetMidiSync(mode)
             \/ \E type \in 0 .. 3, t \in MtcTimes : MtcPoll(type, t)
    BY <1>1, <1>4 DEF OpenMovie, OpenFails, SetOffsetNumber, SetMidiSync,
                      MtcPoll, MeaningChanges
  <1>5. CASE TimeOffsetKey
    <2>1. PICK n : KeySets(n)
      BY <1>5 DEF TimeOffsetKey
    <2> QED BY <1>1, <1>2, <1>5, <2>1 DEF TimeOffsetKey, KeySets
  <1>6. CASE \E text \in Texts : Seek(text)
    BY <1>2, <1>6 DEF Seek
  <1>7. CASE \E n \in Starts \cup {newFrame + 1} : Transport(n)
    BY <1>2, <1>7 DEF Transport
  <1>8. CASE UNCHANGED vars
    BY <1>2, <1>8 DEF vars
  <1> QED BY <1>3, <1>4, <1>5, <1>6, <1>7, <1>8 DEF Next

LEMMA ReceivedStep ==
  TypeOK /\ ReceivedInForce /\ [Next]_vars => ReceivedInForce'
  <1> SUFFICES ASSUME TypeOK, ReceivedInForce, [Next]_vars
               PROVE  ReceivedInForce'
    OBVIOUS
  <1> USE DEF optVars, histVars
  <1>1. CASE received' = NoTime
    BY <1>1 DEF ReceivedInForce
  <1>2. CASE UNCHANGED <<received, newFrame, framerate, midi_clkconvert, optVars>>
    BY <1>2 DEF ReceivedInForce
  <1>3. ASSUME NEW type \in 0 .. 3, NEW t \in MtcTimes, MtcPoll(type, t)
        PROVE  ReceivedInForce'
    BY <1>3 DEF MtcPoll, ReceivedInForce
  <1>4. CASE \/ \E r \in Rates : OpenMovie(r)
             \/ OpenFails
             \/ \E text \in Texts : SetOffsetText(text)
             \/ \E text \in Texts : Seek(text)
             \/ \E mode \in 0 .. 2 : SetMidiSync(mode)
             \/ \E n \in Starts \cup {newFrame + 1} : Transport(n)
    BY <1>1, <1>4 DEF OpenMovie, OpenFails, SetOffsetText, Seek, SetMidiSync,
                      Transport, MeaningChanges
  <1>5. CASE TimeOffsetKey \/ \E n \in {-1, 1} : SetOffsetNumber(n)
    BY <1>2, <1>5 DEF TimeOffsetKey, SetOffsetNumber
  <1>6. CASE UNCHANGED vars
    BY <1>2, <1>6 DEF vars
  <1> QED BY <1>3, <1>4, <1>5, <1>6 DEF Next

\* A time code whose fields are in range is left as it is.
LEMMA CarriedSame ==
  ASSUME NEW b \in Nat \ {0}, NEW u, IsTimecode(b, u)
  PROVE  Carried(b, u) = [frame |-> u.frame, sec |-> u.sec, min |-> u.min,
                          hour |-> u.hour, overflow |-> 0]
  <1> DEFINE h == u.hour
             m == u.min
             c == u.sec
             f == u.frame
  <1>1. h \in 0 .. 23 /\ m \in 0 .. 59 /\ c \in 0 .. 59
    BY DEF IsTimecode
  <1>2. f \in 0 .. b - 1
    BY DEF IsTimecode
  <1>3. Carried(b, u) =
          [frame |-> f % b, sec |-> (c + f \div b) % 60,
           min |-> (m + (c + f \div b) \div 60) % 60,
           hour |-> (h + (m + (c + f \div b) \div 60) \div 60) % 24,
           overflow |-> (h + (m + (c + f \div b) \div 60) \div 60) \div 24]
    BY DEF Carried
  <1> HIDE DEF h, m, c, f
  <1>4. f % b = f /\ f \div b = 0
    BY <1>2
  <1>5. /\ (c + 0) % 60 = c /\ (c + 0) \div 60 = 0
        /\ (m + 0) % 60 = m /\ (m + 0) \div 60 = 0
        /\ (h + 0) % 24 = h /\ (h + 0) \div 24 = 0
    BY <1>1
  <1>6. Carried(b, u) = [frame |-> f, sec |-> c, min |-> m, hour |-> h,
                         overflow |-> 0]
    BY <1>3, <1>4, <1>5
  <1> QED BY <1>6 DEF h, m, c, f

LEMMA WholeSeconds ==
  ASSUME NEW n \in Int, NEW a \in Nat PROVE Scaled(n, a, 1) = n * a
  <1>1. n \div 1 = n /\ n % 1 = 0
    OBVIOUS
  <1>2. (0 * a) \div 1 = 0 /\ n * a \in Int
    OBVIOUS
  <1> QED BY <1>1, <1>2 DEF Scaled

\* smpte_to_frame counts the whole seconds of a time and its frames, at a rate
\* of a whole number of frames per second.
LEMMA CountedByType ==
  ASSUME NEW r, NEW type \in {0, 1, 3}, NEW t, IsTime(t)
  PROVE  SmpteToFrame(r, type, t, FALSE, 0) =
           Seconds(t) * Base(MtcRate(type)) + t.frame
  <1> DEFINE s == Seconds(t)
             a == MtcRate(type).num
  <1>1. s \in Int /\ t.frame \in Int
    BY DEF Seconds, IsTime
  <1>2. MtcRate(type).den = 1 /\ a \in {24, 25, 30} /\ Base(MtcRate(type)) = a
    BY DEF MtcRate, Base
  <1>3. SmpteToFrame(r, type, t, FALSE, 0) = t.frame + Scaled(s, a, 1)
    BY <1>2 DEF SmpteToFrame
  <1> HIDE DEF s, a
  <1>4. Scaled(s, a, 1) = s * a /\ s * a \in Int
    BY <1>1, <1>2, WholeSeconds
  <1>5. t.frame + s * a = s * a + t.frame
    BY <1>1, <1>4
  <1> QED BY <1>2, <1>3, <1>4, <1>5 DEF s

LEMMA CountedByVideo ==
  ASSUME NEW r, IsRate(r), r.den = 1, NEW type, NEW t, IsTime(t), NEW d
  PROVE  SmpteToFrame(r, type, t, d, 1) = Seconds(t) * Base(r) + t.frame
  <1> DEFINE s == Seconds(t)
             a == r.num
  <1>1. s \in Int /\ t.frame \in Int /\ a \in Nat
    BY DEF Seconds, IsTime, IsRate
  <1>2. Base(r) = a
    BY <1>1 DEF Base
  <1>3. SmpteToFrame(r, type, t, d, 1) = t.frame + Scaled(s, a, 1)
    BY DEF SmpteToFrame
  <1> HIDE DEF s, a
  <1>4. Scaled(s, a, 1) = s * a /\ s * a \in Int
    BY <1>1, WholeSeconds
  <1>5. t.frame + s * a = s * a + t.frame
    BY <1>1, <1>4
  <1> QED BY <1>2, <1>3, <1>4, <1>5 DEF s

LEMMA CountedWithDropping ==
  ASSUME NEW r, NEW t
  PROVE  SmpteToFrame(r, 2, t, TRUE, 0) = DropCount(MtcRate(2), t)
BY DEF SmpteToFrame

\* n is the number of time t in the count that is shown.
ShownAs(b, drop, n, t) ==
  /\ n \in Nat
  /\ Clock(b, IF drop THEN InsertDropFrames(n) ELSE n) = Digits(t)

\* Then n is shown as t, with add_sign and without.
LEMMA ShownTime ==
  ASSUME NEW b \in Nat \ {0}, NEW drop \in BOOLEAN, NEW n, NEW t,
         NEW add_sign \in BOOLEAN, ShownAs(b, drop, n, t)
  PROVE  LET v == FrameToSmpteString(b, drop, n, add_sign)
         IN  Digits(v) = Digits(t) /\ ~v.negative
  <1> DEFINE k == IF drop THEN InsertDropFrames(n) ELSE n
             p == ParseInt(b, k)
  <1>1. k \in Nat /\ ~(k < 0)
    BY NoDroppedNumber DEF ShownAs
  <1>2. FrameToSmpteString(b, drop, n, add_sign) =
          [negative |-> FALSE, hour |-> p.hour, min |-> p.min, sec |-> p.sec,
           frame |-> p.frame, sep |-> IF drop THEN "semicolon" ELSE "colon"]
    <2> HIDE DEF k
    <2>1. (add_sign /\ k < 0) = FALSE
      BY <1>1
    <2> QED BY <2>1 DEF FrameToSmpteString, k, p
  <1>3. Clock(b, k) = Digits(t)
    BY DEF ShownAs
  <1> HIDE DEF k
  <1>4. Digits(p) = Clock(b, k)
    BY <1>1, DigitsOfNumber
  <1> HIDE DEF p
  <1>5. Digits(FrameToSmpteString(b, drop, n, add_sign)) = Digits(p)
    BY <1>2 DEF Digits
  <1> QED BY <1>2, <1>3, <1>4, <1>5

LEMMA ShownPosition ==
  ASSUME NEW b \in Nat \ {0}, NEW drop \in BOOLEAN, NEW n, NEW t,
         ShownAs(b, drop, n, t)
  PROVE  Digits(FrameToSmpteString(b, drop, n, FALSE)) = Digits(t)
  <1> DEFINE v == FrameToSmpteString(b, drop, n, FALSE)
  <1>1. n \in Int
    BY DEF ShownAs
  <1>2. Digits(v) = Clock(b, IF drop THEN InsertDropFrames(n) ELSE n)
    BY <1>1, ShownDigits
  <1> HIDE DEF v
  <1>3. Digits(v) = Digits(t)
    BY <1>2 DEF ShownAs
  <1> QED BY <1>3 DEF v

LEMMA PlainShownAs ==
  ASSUME NEW b \in Nat \ {0}, NEW t, IsTimecode(b, t)
  PROVE  ShownAs(b, FALSE, Seconds(t) * b + t.frame, t)
  <1> DEFINE s == Seconds(t)
             f == t.frame
  <1>1. s \in Nat
    <2>1. t.hour \in Nat /\ t.min \in Nat /\ t.sec \in Nat
      BY DEF IsTimecode
    <2> QED BY <2>1 DEF Seconds
  <1>2. f \in 0 .. b - 1
    BY DEF IsTimecode
  <1>3. s * b + f \in Nat
    <2> HIDE DEF s, f
    <2> QED BY <1>1, <1>2
  <1> QED BY <1>3, ClockOfSeconds DEF ShownAs

LEMMA DroppedShownAs ==
  ASSUME NEW t, IsTimecode(30, t), ~IsDropped(t), t.hour < 9
  PROVE  ShownAs(30, TRUE, DropCount(MtcRate(2), t), t)
BY ClockOfDropCount DEF ShownAs

\* smptestring_to_frame and frame_to_smptestring are inverse: the offset that
\* is entered as a time code is the one that is displayed.
THEOREM OffsetShown == Spec => []OffsetIsShown
  <1>1. TypeOK /\ AskedInForce => OffsetIsShown
    <2> SUFFICES ASSUME TypeOK, AskedInForce, asked.sep = "colon", Exists(asked),
                        DropFits, midi_clkconvert = 0
                 PROVE  Digits(ShownWith(ts_offset, TRUE)) = Digits(asked)
                        /\ ~ShownWith(ts_offset, TRUE).negative
      BY DEF OffsetIsShown
    <2> DEFINE b == Base(framerate)
               u == Fields(asked.frame, asked.sec, asked.min, asked.hour)
               t == Carried(b, u)
    <2>1. b \in Nat \ {0}
      BY BaseInRange DEF TypeOK, NumbersOK
    <2>2. IsTimecode(b, u) /\ (DropShown => ~IsDropped(u) /\ u.hour < 9)
      BY DEF Exists, IsTimecode, IsDropped, Fields
    <2>3. Digits(u) = Digits(asked) /\ TextFields(asked) = u
      BY DEF Digits, TextFields, Fields
    <2> HIDE DEF b, u
    <2>4. t = [frame |-> u.frame, sec |-> u.sec, min |-> u.min,
               hour |-> u.hour, overflow |-> 0]
      BY <2>1, <2>2, CarriedSame
    <2> HIDE DEF t
    <2>5. /\ IsTimecode(b, t) /\ Digits(t) = Digits(u)
          /\ DropShown => ~IsDropped(t) /\ t.hour < 9
      BY <2>2, <2>4 DEF IsTimecode, Digits, IsDropped
    <2>6. DropParsed(asked, have_dropframes) = DropShown
      BY DEF DropParsed, DropShown, HasColon
    <2> DEFINE n == SmpteToFrame(framerate, 2, t, TRUE, 0)
    <2>7. ts_offset = IF ~DropShown THEN ToFrame(b, t) ELSE n
      <3>1. asked # NoText
        BY DEF NoText
      <3>2. ts_offset = FrameOfText(framerate, asked, have_dropframes)
        BY <3>1 DEF AskedInForce
      <3>3. ts_offset = SmpteStringToFrame(framerate, asked, DropShown, 0)
        BY <2>6, <3>2, Zenon DEF FrameOfText
      <3>4. SmpteStringToFrame(framerate, asked, DropShown, 0) =
              IF ~DropShown THEN ToFrame(b, t)
              ELSE IF t.overflow < 0 THEN n - 30 * 86400 ELSE n
        BY <2>3 DEF SmpteStringToFrame, b, t
      <3>5. ~(t.overflow < 0)
        BY <2>4
      <3> HIDE DEF n
      <3> QED BY <3>3, <3>4, <3>5
    <2>8. n = DropCount(MtcRate(2), t)
      BY CountedWithDropping, Zenon
    <2> HIDE DEF n
    <2>9. ShownAs(b, DropShown, ts_offset, t)
      <3>1. CASE DropShown
        <4>1. b = 30 /\ DropShown = TRUE
          BY <3>1 DEF DropFits, DropShown, b
        <4>2. ts_offset = DropCount(MtcRate(2), t)
          BY <2>7, <2>8, <3>1
        <4> QED BY <2>5, <3>1, <4>1, <4>2, DroppedShownAs
      <3>2. CASE ~DropShown
        <4>1. ts_offset = Seconds(t) * b + t.frame /\ DropShown = FALSE
          BY <2>4, <2>7, <3>2 DEF ToFrame, DropShown
        <4> QED BY <2>1, <2>5, <4>1, PlainShownAs
      <3> QED BY <3>1, <3>2
    <2>10. DropShown \in BOOLEAN
      BY DEF DropShown
    <2>11. /\ Digits(ShownWith(ts_offset, TRUE)) = Digits(t)
           /\ ~ShownWith(ts_offset, TRUE).negative
      <3>1. TRUE \in BOOLEAN
        OBVIOUS
      <3> QED BY <2>1, <2>9, <2>10, <3>1, ShownTime, Zenon DEF ShownWith, b
    <2> QED BY <2>3, <2>5, <2>11
  <1> QED BY <1>1, TypeCorrect, InForceInit, AskedStep, PTL DEF Spec

\* The time that MTC sends is the time that is shown, if both count alike.
THEOREM MtcShown == Spec => []MtcIsShown
  <1>1. TypeOK /\ ReceivedInForce => MtcIsShown
    <2> DEFINE b == Base(framerate)
               type == received.type
               t == received.time
               d == type = 2 \/ want_dropframes
    <2>0. SUFFICES ASSUME TypeOK, ReceivedInForce, received # NoTime,
                        \/ midi_clkconvert = 0
                        \/ midi_clkconvert = 1 /\ framerate.den = 1 /\ type # 2,
                        Base(MtcRate(type)) = b, Exists(t), DropShown <=> type = 2
                 PROVE  Digits(ShownWith(newFrame, FALSE)) = Digits(t)
      BY DEF MtcIsShown
    <2>1. b \in Nat \ {0} /\ IsRate(framerate)
      BY <2>0, BaseInRange DEF TypeOK, NumbersOK
    <2>2. type \in 0 .. 3
      BY <2>0 DEF TypeOK, HistoryOK
    <2>3. IsTimecode(b, t) /\ (DropShown => ~IsDropped(t) /\ t.hour < 9)
      BY <2>0 DEF Exists
    <2> HIDE DEF b, t
    <2>4. IsTime(t)
      BY <2>1, <2>3 DEF IsTimecode, IsTime
    <2>5. newFrame = SmpteToFrame(framerate, type, t, d, midi_clkconvert)
      BY <2>0 DEF ReceivedInForce, t
    <2>6. ShownAs(b, DropShown, newFrame, t)
      <3>1. CASE type = 2
        <4>1. DropShown = TRUE /\ d = TRUE /\ midi_clkconvert = 0
          BY <2>0, <3>1 DEF DropShown
        <4>2. b = 30
          BY <2>0, <3>1 DEF MtcRate, Base, b
        <4>3. newFrame = DropCount(MtcRate(2), t)
          BY <2>5, <3>1, <4>1, CountedWithDropping
        <4> QED BY <2>3, <4>1, <4>2, <4>3, DroppedShownAs
      <3>2. CASE type # 2
        <4>1. DropShown = FALSE /\ d = FALSE /\ type \in {0, 1, 3}
          BY <2>0, <2>2, <3>2 DEF DropShown
        <4>2. newFrame = Seconds(t) * b + t.frame
          <5>1. CASE midi_clkconvert = 0
            BY <2>0, <2>4, <2>5, <4>1, <5>1, CountedByType
          <5>2. CASE midi_clkconvert = 1 /\ framerate.den = 1
            BY <2>1, <2>4, <2>5, <5>2, CountedByVideo DEF b
          <5> QED BY <2>0, <3>2, <5>1, <5>2
        <4> QED BY <2>1, <2>3, <4>1, <4>2, PlainShownAs
      <3> QED BY <3>1, <3>2
    <2>7. DropShown \in BOOLEAN
      BY DEF DropShown
    <2>8. Digits(FrameToSmpteString(b, DropShown, newFrame, FALSE)) = Digits(t)
      BY <2>1, <2>6, <2>7, ShownPosition, Zenon
    <2> QED BY <2>8, Zenon DEF ShownWith, b
  <1> QED BY <1>1, TypeCorrect, InForceInit, ReceivedStep, PTL DEF Spec
=============================================================================
