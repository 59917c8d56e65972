--------------------------- MODULE SeekFrameProofs ---------------------------
(***************************************************************************)
(* Proofs about SeekFrame, for movies of any length, frame rate, decoder   *)
(* delay and keyframe distance: types; the assertions in seek_frame cannot *)
(* fail; and, for movies whose frames are in order, the cache of the frame *)
(* decoded last is true, the frame that is shown is the one asked for, and *)
(* no frame that the read loop can reach is refused.                       *)
(*                                                                         *)
(* The invariants build on each other: SeekInv (the table's time stamps,   *)
(* the two cache variables), TypeOK, OrderInv (what comes out of the       *)
(* decoder next), FrameInv (the frame that is looked for is still to come, *)
(* wherever the table leads) and ReachInv (it comes before bailout is 0).  *)
(***************************************************************************)
EXTENDS SeekFrame, FiniteSetTheorems, WellFoundedInduction, TLAPS

\* The first frame number that the seek table's time stamps count from.
Base == IF DirectMode(movie, want_noindex) THEN movie.start ELSE 0

\* Every entry that a frame of the movie is looked up in has the time stamp
\* of its place in the table.
Stamped ==
  \A i \in 0 .. fcnt - 1 :
    i < movie.frames => fidx[i].timestamp = Rescale(movie, Base + i)

\* The two variables of the cache agree.
CacheAgrees ==
  \/ last_decoded_pts = -1 /\ last_decoded_frameno = -1
  \/ /\ last_decoded_frameno \in 0 .. fcnt - 1
     /\ last_decoded_frameno < movie.frames
     /\ last_decoded_pts = fidx[last_decoded_frameno].timestamp

\* Inside seek_frame the entry is one of a frame of the movie.
Reading ==
  pc = "reading" => /\ framenumber \in 0 .. fcnt - 1
                    /\ framenumber < movie.frames

SeekInv == /\ movie \in Movies /\ fcnt \in Nat
           /\ Stamped /\ CacheAgrees /\ Reading /\ AssertionsHold

-----------------------------------------------------------------------------
(* Time stamps.                                                            *)

LEMMA MovieType ==
  ASSUME NEW m \in Movies
  PROVE  m.frames \in Nat \ {0} /\ m.start \in Nat /\ m.step \in Nat \ {0}
BY SeekFrameAssumption

\* The time stamps of the frames increase strictly.
LEMMA RescaleIncreases ==
  ASSUME NEW m \in Movies, NEW i \in Int, NEW j \in Int
  PROVE  /\ Rescale(m, i) \in Int
         /\ i < j <=> Rescale(m, i) < Rescale(m, j)
  <1> DEFINE s == m.step
  <1>1. s \in Nat \ {0}
    BY MovieType
  <1>2. i * s \in Int /\ j * s \in Int
    BY <1>1
  <1>3. (j - i) * s = j * s - i * s
    BY <1>1
  <1>4. i < j => (j - i) * s > 0
    BY <1>1
  <1>5. j < i => (i - j) * s > 0
    BY <1>1
  <1>6. (i - j) * s = i * s - j * s
    BY <1>1
  <1> HIDE DEF s
  <1> QED BY <1>2, <1>3, <1>4, <1>5, <1>6 DEF Rescale, s

LEMMA MinOfTwo ==
  ASSUME NEW a \in Int, NEW b \in Int
  PROVE  Min({a, b}) = IF a <= b THEN a ELSE b
  <1>1. \E x \in {a, b} : \A y \in {a, b} : x =< y
    BY SMT
  <1>2. Min({a, b}) \in {a, b} /\ \A y \in {a, b} : Min({a, b}) =< y
    BY <1>1, Zenon DEF Min
  <1> QED BY <1>2, SMT

\* The table has one entry for each packet, or each frame that the header
\* announces, and perhaps one more behind the last of these frames.
LEMMA CountType ==
  ASSUME NEW m \in Movies, NEW noindex \in BOOLEAN
  PROVE  /\ EntryCount(m, noindex) \in Nat
         /\ \/ DirectMode(m, noindex)
            \/ EntryCount(m, noindex) = Entered(m)
            \/ EntryCount(m, noindex) = Entered(m) + 1 /\ Entered(m) = m.frames
  <1>1. m.frames \in Nat /\ m.pts \in Seq(Int)
    BY SeekFrameAssumption
  <1>2. Len(m.pts) \in Nat
    BY <1>1
  <1> DEFINE n == Len(m.pts)
  <1>3. Entered(m) = IF n <= m.frames THEN n ELSE m.frames
    BY <1>1, <1>2, MinOfTwo DEF Entered
  <1> HIDE DEF n
  <1> QED BY <1>1, <1>2, <1>3 DEF EntryCount, n

-----------------------------------------------------------------------------
(* Least and greatest numbers.*)

Less == OpToRel(<, Nat)

\* Every set of natural numbers that is not empty has a least element.
LEMMA LeastElement ==
  ASSUME NEW T, T \subseteq Nat, T # {}
  PROVE  \E x \in T : \A y \in T : x <= y
  <1>1. IsWellFoundedOn(Less, Nat)
    BY NatLessThanWellFounded DEF Less
  <1>2. \A x, y \in Nat : x < y => <<x, y>> \in Less
    BY DEF Less, OpToRel
  <1>3. PICK x \in T : \A y \in T : ~ (<<y, x>> \in Less)
    BY <1>1, WFMin
  <1>4. \A y \in T : ~ (y < x)
    BY <1>2, <1>3
  <1>5. \A y \in T : x <= y
    BY <1>4, <1>3
  <1> QED BY <1>3, <1>5

LEMMA Induction ==
  ASSUME NEW S, 0 \in S, \A n \in Nat : n \in S => n + 1 \in S
  PROVE  Nat \subseteq S
  <1> SUFFICES ASSUME Nat \ S # {} PROVE FALSE
    OBVIOUS
  <1>1. PICK x \in Nat \ S : \A y \in Nat \ S : x <= y
    BY LeastElement
  <1> QED BY <1>1

\* A set of integers with an upper bound has a maximum, ...
LEMMA MaxOf ==
  ASSUME NEW S, S \subseteq Int, S # {}, NEW hi \in Int, \A x \in S : x <= hi
  PROVE  Max(S) \in S /\ \A x \in S : x <= Max(S)
  <1> DEFINE T == {n \in Nat : hi - n \in S}
  <1>1. \A x \in S : hi - x \in T
    OBVIOUS
  <1>2. PICK t \in T : \A y \in T : t <= y
    BY <1>1, LeastElement
  <1>3. hi - t \in S /\ \A x \in S : hi - t >= x
    BY <1>1, <1>2
  <1>5. Max(S) \in S /\ \A x \in S : Max(S) >= x
    BY <1>3, Zenon DEF Max
  <1> QED BY <1>5

\* ... and one with a lower bound a minimum.
LEMMA MinOf ==
  ASSUME NEW S, S \subseteq Int, S # {}, NEW lo \in Int, \A x \in S : lo <= x
  PROVE  Min(S) \in S /\ \A x \in S : Min(S) <= x
  <1> DEFINE T == {n \in Nat : n + lo \in S}
  <1>1. \A x \in S : x - lo \in T
    OBVIOUS
  <1>2. PICK t \in T : \A y \in T : t <= y
    BY <1>1, LeastElement
  <1>3. t + lo \in S /\ \A x \in S : t + lo =< x
    BY <1>1, <1>2
  <1>5. Min(S) \in S /\ \A x \in S : Min(S) =< x
    BY <1>3, Zenon DEF Min
  <1> QED BY <1>5

\* The elements of a sequence of integers have a lower bound.
LEMMA LowerBound ==
  ASSUME NEW s \in Seq(Int)
  PROVE  \E lo \in Int : \A p \in 1 .. Len(s) : lo <= s[p]
  <1> DEFINE Bounded(n) == \E lo \in Int : \A p \in 1 .. Len(s) : p <= n => lo <= s[p]
             S == {n \in Nat : Bounded(n)}
  <1>0. Len(s) \in Nat /\ \A p \in 1 .. Len(s) : s[p] \in Int
    OBVIOUS
  <1>1. 0 \in S
    <2>1. \A p \in 1 .. Len(s) : p <= 0 => 0 <= s[p]
      BY <1>0
    <2> QED BY <2>1
  <1>2. ASSUME NEW n \in Nat, n \in S
        PROVE  n + 1 \in S
    <2>1. PICK lo \in Int : \A p \in 1 .. Len(s) : p <= n => lo <= s[p]
      BY <1>2
    <2>2. CASE n + 1 <= Len(s) /\ s[n + 1] < lo
      <3>1. s[n + 1] \in Int /\ \A p \in 1 .. Len(s) : p <= n + 1 => s[n + 1] <= s[p]
        BY <1>0, <2>1, <2>2
      <3>2. Bounded(n + 1)
        BY <3>1
      <3> HIDE DEF Bounded
      <3> QED BY <3>2
    <2>3. CASE ~ (n + 1 <= Len(s) /\ s[n + 1] < lo)
      <3>1. \A p \in 1 .. Len(s) : p <= n + 1 => lo <= s[p]
        BY <1>0, <2>1, <2>3
      <3>2. Bounded(n + 1)
        BY <3>1
      <3> HIDE DEF Bounded
      <3> QED BY <3>2
    <2> QED BY <2>2, <2>3
  <1>3. Nat \subseteq S
    <2> HIDE DEF S
    <2> QED BY <1>1, <1>2, Induction
  <1>4. Bounded(Len(s))
    BY <1>0, <1>3
  <1>5. PICK lo \in Int : \A p \in 1 .. Len(s) : p <= Len(s) => lo <= s[p]
    BY <1>4
  <1>6. \A p \in 1 .. Len(s) : lo <= s[p]
    BY <1>0, <1>5
  <1> QED BY <1>6
-----------------------------------------------------------------------------
(* What the operators of the table return.                                 *)

LEMMA MovieFacts ==
  ASSUME NEW m \in Movies
  PROVE  /\ Len(m.pts) \in Nat \ {0} /\ Packets(m) = 1 .. Len(m.pts)
         /\ \A p \in Packets(m) : m.pts[p] \in Int /\ m.key[p] \in BOOLEAN
         /\ DOMAIN m.pts = Packets(m)
         /\ m.pts \in Seq(Int)
         /\ m.delay \in Nat /\ m.frames \in Nat \ {0} /\ m.start \in Nat
         /\ m.step \in Nat \ {0} /\ m.bad \subseteq Packets(m)
  <1>1. m.pts \in Seq(Int) /\ Len(m.pts) > 0
    BY SeekFrameAssumption
  <1>2. Len(m.pts) \in Nat /\ DOMAIN m.pts = 1 .. Len(m.pts)
    BY <1>1
  <1> QED BY <1>1, <1>2, SeekFrameAssumption DEF Packets

TimesOf(m) == {m.pts[p] : p \in Packets(m)}

LEMMA MinOfTimes ==
  ASSUME NEW m \in Movies, NEW S, S \subseteq TimesOf(m), S # {}
  PROVE  Min(S) \in S /\ \A t \in S : Min(S) <= t
  <1>1. PICK lo \in Int : \A p \in 1 .. Len(m.pts) : lo <= m.pts[p]
    BY MovieFacts, LowerBound
  <1>2. \A t \in TimesOf(m) : t \in Int /\ lo <= t
    BY <1>1, MovieFacts DEF TimesOf
  <1>3. S \subseteq Int /\ \A t \in S : lo <= t
    BY <1>2
  <1> QED BY <1>3, MinOf

LEMMA IntervalType ==
  ASSUME NEW m \in Movies, NEW n \in Nat
  PROVE  MaxKeyframeInterval(m, n) \in 0 .. n
  <1>1. ASSUME NEW p \in 1 .. n
        PROVE  KeyframeInterval(m, p) \in 0 .. n
    <2> DEFINE S == {0} \cup {q \in 1 .. p - 1 : m.key[q]}
    <2>1. S \subseteq Int /\ S # {} /\ p - 1 \in Int
          /\ \A x \in S : 0 <= x /\ x <= p - 1
      OBVIOUS
    <2>2. Max(S) \in 0 .. p - 1
      <3> HIDE DEF S
      <3>1. Max(S) \in S
        BY <2>1, MaxOf
      <3>2. Max(S) \in Int /\ 0 <= Max(S) /\ Max(S) <= p - 1
        BY <2>1, <3>1
      <3> QED BY <2>1, <3>2
    <2>3. KeyframeInterval(m, p) = p - Max(S)
      BY DEF KeyframeInterval
    <2> HIDE DEF S
    <2> QED BY <2>2, <2>3
  <1> DEFINE S == {0} \cup {KeyframeInterval(m, p) : p \in 1 .. n}
  <1>2. S \subseteq 0 .. n /\ S \subseteq Int /\ S # {} /\ n \in Int
        /\ \A x \in S : x <= n
    BY <1>1
  <1>3. Max(S) \in S
    <2> HIDE DEF S
    <2> QED BY <1>2, MaxOf
  <1>4. MaxKeyframeInterval(m, n) = Max(S)
    BY DEF MaxKeyframeInterval
  <1> HIDE DEF S
  <1> QED BY <1>2, <1>3, <1>4

LEMMA PassIntervalType ==
  ASSUME NEW m \in Movies, NEW noindex \in BOOLEAN
  PROVE  PassInterval(m, noindex) \in Nat
  <1> DEFINE n == Len(m.pts)
             n1 == IF KeyframesOnly(m) THEN ProbedAt(m) ELSE Entered(m)
  <1>1. n \in Nat /\ m.frames \in Nat /\ ProbeCount \in Nat
    BY MovieFacts, SeekFrameAssumption
  <1>2. ProbedAt(m) \in Nat
    BY <1>1, MinOfTwo DEF ProbedAt
  <1>3. Entered(m) = IF n <= m.frames THEN n ELSE m.frames
    <2> HIDE DEF n
    <2> QED BY <1>1, MinOfTwo DEF Entered, n
  <1>4. n1 \in Nat
    <2> HIDE DEF n
    <2> QED BY <1>1, <1>2, <1>3
  <1>5. PassInterval(m, noindex) =
          IF noindex THEN 0 ELSE MaxKeyframeInterval(m, n1)
    BY DEF PassInterval
  <1>6. MaxKeyframeInterval(m, n1) \in Nat
    <2> HIDE DEF n1
    <2>1. MaxKeyframeInterval(m, n1) \in 0 .. n1
      BY <1>4, IntervalType
    <2> QED BY <1>4, <2>1
  <1> QED BY <1>5, <1>6

LEMMA ThresholdType ==
  ASSUME NEW interval \in Nat
  PROVE  SeekThreshold(interval) \in Nat
  <1> DEFINE S == {2, interval - 1}
  <1>1. S \subseteq Int /\ S # {} /\ 2 \in S
        /\ interval + 2 \in Int /\ \A x \in S : x <= interval + 2
    OBVIOUS
  <1>2. Max(S) \in S /\ 2 <= Max(S)
    <2> HIDE DEF S
    <2> QED BY <1>1, MaxOf
  <1> QED BY <1>2 DEF SeekThreshold

LEMMA LookupType ==
  ASSUME NEW entries, NEW last \in Int, -1 <= last, NEW ts
  PROVE  LET j == KeyframeLookup(entries, last, ts)
         IN  /\ j \in -1 .. last
             /\ j >= 0 => entries[j].key /\ entries[j].frame_pts <= ts
             /\ \A i \in 0 .. last :
                  entries[i].key /\ entries[i].frame_pts <= ts => i <= j
  <1> DEFINE S == {-1} \cup {j \in 0 .. last : entries[j].key /\ entries[j].frame_pts <= ts}
  <1>1. S \subseteq -1 .. last /\ S \subseteq Int /\ S # {}
        /\ \A x \in S : x <= last
    OBVIOUS
  <1>2. Max(S) \in S /\ \A x \in S : x <= Max(S)
    <2> HIDE DEF S
    <2> QED BY <1>1, MaxOf
  <1>3. KeyframeLookup(entries, last, ts) = Max(S)
    BY DEF KeyframeLookup
  <1>4. Max(S) >= 0 => entries[Max(S)].key /\ entries[Max(S)].frame_pts <= ts
    BY <1>2
  <1>5. \A i \in 0 .. last :
          entries[i].key /\ entries[i].frame_pts <= ts => i <= Max(S)
    BY <1>2
  <1> HIDE DEF S
  <1> QED BY <1>1, <1>2, <1>3, <1>4, <1>5

\* Every entry has the type of the table, the one that nobody wrote too.
EntryType == [pkt_pts : Int, key : BOOLEAN, frame_pts : Int, timestamp : Int]

LEMMA EntriesType ==
  ASSUME NEW m \in Movies, NEW noindex \in BOOLEAN, NEW garbage \in Garbage(m)
  PROVE  Entries(m, noindex, garbage) \in
           [0 .. EntryCount(m, noindex) - 1 -> EntryType]
  <1>1. ASSUME NEW i \in Int, NEW first \in Int
        PROVE  first + Rescale(m, i) \in Int /\ Rescale(m, m.start + i) \in Int
               /\ Rescale(m, i) \in Int
    BY MovieFacts, RescaleIncreases
  <1>2. garbage \in EntryType
    <2>1. \A p \in Packets(m) : m.pts[p] \in Int
      BY MovieFacts
    <2> QED BY <2>1 DEF Garbage, EntryType
  <1>3. ASSUME NEW i \in Nat
        PROVE  Computed(m, noindex, i) \in EntryType
    <2>1. m.pts[1] \in Int
      BY MovieFacts
    <2> DEFINE first == IF noindex THEN -1 ELSE m.pts[1]
               t == first + Rescale(m, i)
    <2>2. first \in Int
      BY <2>1
    <2>3. t \in Int /\ Rescale(m, m.start + i) \in Int
      <3> HIDE DEF first
      <3> QED BY <1>1, <2>2
    <2>4. Computed(m, noindex, i) =
            [pkt_pts |-> t, key |-> TRUE, frame_pts |-> t,
             timestamp |-> Rescale(m, m.start + i)]
      BY DEF Computed
    <2> HIDE DEF t
    <2> QED BY <2>3, <2>4 DEF EntryType
  <1>4. ASSUME NEW i \in Nat, i < Entered(m)
        PROVE  Verified(m, i) \in EntryType
    <2> DEFINE p == i + 1
               reach == p .. p + m.delay
    <2>1. p \in Packets(m) /\ m.delay \in Nat
      <3>1. Entered(m) <= Len(m.pts) /\ Len(m.pts) \in Nat
        BY MovieFacts, MinOfTwo DEF Entered
      <3>2. Entered(m) \in Int
        BY MovieFacts, MinOfTwo DEF Entered
      <3> QED BY <1>4, <3>1, <3>2, MovieFacts
    <2>2. m.pts[p] \in Int /\ m.key[p] \in BOOLEAN
      BY <2>1, MovieFacts
    <2>3. reach \subseteq Packets(m) => FirstDecoded(m, p) \in Int
      <3> DEFINE S == {m.pts[q] : q \in reach}
      <3> SUFFICES ASSUME reach \subseteq Packets(m) PROVE Min(S) \in Int
        BY DEF FirstDecoded
      <3>1. S \subseteq TimesOf(m)
        BY DEF TimesOf
      <3>2. m.pts[p] \in S
        BY <2>1
      <3>3. Min(S) \in S
        <4> HIDE DEF S
        <4> QED BY <3>1, <3>2, MinOfTimes
      <3> QED BY <3>3, MovieFacts
    <2>4. Verified(m, i) =
            [pkt_pts   |-> m.pts[p],
             key       |-> /\ m.key[p]
                           /\ reach \subseteq Packets(m) \/ reach \cap m.bad # {},
             frame_pts |-> IF m.key[p] /\ reach \subseteq Packets(m) \ m.bad
                             THEN FirstDecoded(m, p) ELSE -1,
             timestamp |-> Rescale(m, i)]
      BY DEF Verified
    <2>5. (/\ m.key[p]
           /\ reach \subseteq Packets(m) \/ reach \cap m.bad # {}) \in BOOLEAN
      OBVIOUS
    <2>6. (IF m.key[p] /\ reach \subseteq Packets(m) \ m.bad
             THEN FirstDecoded(m, p) ELSE -1) \in Int
      <3>1. reach \subseteq Packets(m) \ m.bad => reach \subseteq Packets(m)
        OBVIOUS
      <3> HIDE DEF reach
      <3> QED BY <2>3, <3>1
    <2>7. Rescale(m, i) \in Int
      BY <1>1
    <2> HIDE DEF p, reach
    <2> QED BY <2>2, <2>4, <2>5, <2>6, <2>7 DEF EntryType
  <1>5. \A i \in 0 .. EntryCount(m, noindex) - 1 : i \in Nat
    BY CountType
  <1> QED BY <1>2, <1>3, <1>4, <1>5 DEF Entries

LEMMA TableType ==
  ASSUME NEW entries, NEW count \in Nat, NEW interval \in Nat,
         entries \in [0 .. count - 1 -> EntryType]
  PROVE  SeekTable(entries, count, interval) \in
           [0 .. count - 1 -> [timestamp : Int, seekpts : Int]]
  <1>1. ASSUME NEW i \in 0 .. count - 1, NEW kfi \in -1 .. count - 1
        PROVE  [timestamp |-> entries[i].timestamp,
                seekpts   |-> IF kfi < 0 THEN 0 ELSE entries[kfi].pkt_pts]
                 \in [timestamp : Int, seekpts : Int]
    BY DEF EntryType
  <1>2. ASSUME NEW i \in 0 .. count - 1
        PROVE  KeyframeLookup(entries, Min({count - 1, i + 2 + interval}),
                              entries[i].timestamp) \in -1 .. count - 1
    <2>1. /\ Min({count - 1, i + 2 + interval}) \in Int
          /\ Min({count - 1, i + 2 + interval}) <= count - 1
          /\ -1 <= Min({count - 1, i + 2 + interval})
      <3>1. count - 1 \in Int /\ i + 2 + interval \in Nat
        OBVIOUS
      <3> QED BY <3>1, MinOfTwo
    <2> DEFINE last == Min({count - 1, i + 2 + interval})
               ts == entries[i].timestamp
    <2>2. KeyframeLookup(entries, last, ts) \in -1 .. last
      <3> HIDE DEF last, ts
      <3> QED BY <2>1, LookupType DEF last
    <2> QED BY <2>1, <2>2
  <1> QED BY <1>1, <1>2 DEF SeekTable

LEMMA InitInv == Init => SeekInv
  <1> SUFFICES ASSUME Init PROVE SeekInv
    OBVIOUS
  <1>1. movie \in Movies /\ want_noindex \in BOOLEAN /\ fcnt \in Nat
    BY CountType DEF Init
  <1>2. Stamped
    <2> SUFFICES ASSUME NEW i \in 0 .. fcnt - 1, i < movie.frames
                 PROVE  fidx[i].timestamp = Rescale(movie, Base + i)
      BY DEF Stamped
    <2>1. PICK garbage \in Garbage(movie) :
            fidx = SeekTable(Entries(movie, want_noindex, garbage), fcnt,
                             PassInterval(movie, want_noindex))
      BY DEF Init
    <2> DEFINE entries == Entries(movie, want_noindex, garbage)
    <2>2. fidx[i].timestamp = entries[i].timestamp
      BY <2>1 DEF SeekTable
    <2>3. fcnt = EntryCount(movie, want_noindex)
      BY DEF Init
    <2>4. entries[i] = IF DirectMode(movie, want_noindex)
                         THEN Computed(movie, want_noindex, i)
                         ELSE IF i < Entered(movie) THEN Verified(movie, i)
                              ELSE garbage
      BY <2>3 DEF Entries
    <2>5. CASE DirectMode(movie, want_noindex)
      BY <2>2, <2>4, <2>5 DEF Computed, Base
    <2>6. CASE ~DirectMode(movie, want_noindex)
      <3>1. i \in Int /\ movie.frames \in Nat
        BY <1>1, MovieType
      <3>2. i < Entered(movie)
        BY <1>1, <2>3, <2>6, <3>1, CountType
      <3>3. fidx[i].timestamp = Rescale(movie, i)
        BY <2>2, <2>4, <2>6, <3>2 DEF Verified
      <3>4. Base + i = i
        BY <2>6, <3>1 DEF Base
      <3> QED BY <3>3, <3>4
    <2> QED BY <2>5, <2>6
  <1>3. CacheAgrees /\ Reading /\ AssertionsHold
    BY DEF Init, CacheAgrees, Reading, AssertionsHold
  <1> QED BY <1>1, <1>2, <1>3 DEF SeekInv

-----------------------------------------------------------------------------
(* The steps.                                                              *)

\* The time stamps in the table are those of its places, increase strictly
\* and are not negative.
LEMMA Stamps ==
  ASSUME SeekInv,
         NEW i \in 0 .. fcnt - 1, i < movie.frames,
         NEW j \in 0 .. fcnt - 1, j < movie.frames
  PROVE  /\ fidx[i].timestamp \in Nat /\ fidx[j].timestamp \in Nat
         /\ i < j <=> fidx[i].timestamp < fidx[j].timestamp
  <1>1. movie \in Movies /\ fcnt \in Nat /\ movie.start \in Nat
        /\ movie.step \in Nat
    BY MovieType DEF SeekInv
  <1>2. Base \in Nat
    BY <1>1 DEF Base
  <1>3. i \in Nat /\ j \in Nat
    BY <1>1
  <1>4. /\ fidx[i].timestamp = Rescale(movie, Base + i)
        /\ fidx[j].timestamp = Rescale(movie, Base + j)
    BY DEF SeekInv, Stamped
  <1>5. Base + i \in Nat /\ Base + j \in Nat
    BY <1>2, <1>3
  <1>6. Rescale(movie, Base + i) \in Nat /\ Rescale(movie, Base + j) \in Nat
    BY <1>1, <1>5 DEF Rescale
  <1>7. Base + i < Base + j
          <=> Rescale(movie, Base + i) < Rescale(movie, Base + j)
    BY <1>1, <1>5, RescaleIncreases
  <1> QED BY <1>2, <1>3, <1>4, <1>6, <1>7

\* The entry that display_frame's frame is looked up in.
LEMMA AskedInside ==
  ASSUME SeekInv, NEW n \in 0 .. movie.frames - 1, Inside(n)
  PROVE  Asked(n) \in 0 .. fcnt - 1 /\ Asked(n) < movie.frames
  <1>1. fcnt \in Nat /\ movie.frames \in Nat /\ movie.start \in Nat
    BY MovieType DEF SeekInv
  <1> QED BY <1>1 DEF Inside, Asked

\* Nothing that has been decoded makes the assertions before the seek fail.
LEMMA NoAssertionFails ==
  ASSUME SeekInv, NEW k \in 0 .. fcnt - 1, k < movie.frames
  PROVE  ~AssertionFails(k)
  <1>1. CASE last_decoded_pts = -1 /\ last_decoded_frameno = -1
    BY <1>1 DEF AssertionFails, Nothing
  <1>2. CASE /\ last_decoded_frameno \in 0 .. fcnt - 1
             /\ last_decoded_frameno < movie.frames
             /\ last_decoded_pts = fidx[last_decoded_frameno].timestamp
    <2>1. /\ fidx[k].timestamp \in Nat /\ last_decoded_pts \in Nat
          /\ k < last_decoded_frameno
               <=> fidx[k].timestamp < last_decoded_pts
      BY <1>2, Stamps
    <2>2. fcnt \in Nat
      BY DEF SeekInv
    <2> QED BY <1>2, <2>1, <2>2 DEF AssertionFails, Nothing, Backwards
  <1> QED BY <1>1, <1>2 DEF SeekInv, CacheAgrees

\* A frame that has the time stamp of the last one is the last one.
LEMMA SameStampSameFrame ==
  ASSUME SeekInv, NEW k \in 0 .. fcnt - 1, k < movie.frames,
         last_decoded_pts = fidx[k].timestamp
  PROVE  last_decoded_frameno = k
  <1>1. fcnt \in Nat
    BY DEF SeekInv
  <1>2. fidx[k].timestamp \in Nat
    BY Stamps
  <1>3. /\ last_decoded_frameno \in 0 .. fcnt - 1
        /\ last_decoded_frameno < movie.frames
        /\ last_decoded_pts = fidx[last_decoded_frameno].timestamp
    BY <1>2 DEF SeekInv, CacheAgrees
  <1>4. last_decoded_frameno < k
          <=> fidx[last_decoded_frameno].timestamp < fidx[k].timestamp
    BY <1>3, Stamps
  <1>5. k < last_decoded_frameno
          <=> fidx[k].timestamp < fidx[last_decoded_frameno].timestamp
    BY <1>3, Stamps
  <1>6. ~(last_decoded_frameno < k) /\ ~(k < last_decoded_frameno)
    BY <1>2, <1>3, <1>4, <1>5
  <1> QED BY <1>1, <1>3, <1>6

\* No step writes the movie or its table.
LEMMA TableStays ==
  ASSUME [Next]_vars
  PROVE  UNCHANGED <<optVars, tableVars>>
BY DEF Next, Loop, Call, CallOutside, CallAgain, CallRead, ReadDecode, PassOver,
       Drain, DrainAt, BailOut, vars, optVars, tableVars

LEMMA StampedStays ==
  ASSUME SeekInv, UNCHANGED <<optVars, tableVars>>,
         CacheAgrees', Reading', AssertionsHold'
  PROVE  SeekInv'
BY DEF SeekInv, Stamped, Base, DirectMode, optVars, tableVars

\* The frame that is decoded is the one that the table was asked for, or the
\* cache is cleared, or the loop goes on with the cache as it is.
LEMMA GotFrameCache ==
  ASSUME SeekInv, pc = "reading", UNCHANGED <<optVars, tableVars>>,
         UNCHANGED framenumber, NEW pts, NEW left, GotFrame(pts, left)
  PROVE  CacheAgrees' /\ Reading' /\ AssertionsHold'
  <1>1. framenumber \in 0 .. fcnt - 1 /\ framenumber < movie.frames
    BY DEF SeekInv, Reading
  <1> QED BY <1>1 DEF GotFrame, SeekInv, CacheAgrees, Reading, AssertionsHold,
                      FailWith, ForgetDecoded, optVars, tableVars, lastVars

LEMMA SeekStep == SeekInv /\ [Next]_vars => SeekInv'
  <1> SUFFICES ASSUME SeekInv, [Next]_vars
               PROVE  SeekInv'
    OBVIOUS
  <1> USE TableStays, StampedStays
  <1>1. CASE UNCHANGED vars
    BY <1>1 DEF SeekInv, CacheAgrees, Reading, AssertionsHold, vars, optVars,
                tableVars, callVars, lastVars
  <1>2. ASSUME NEW n \in 0 .. movie.frames - 1, CallOutside(n)
        PROVE  SeekInv'
    BY <1>2 DEF CallOutside, FailWith, ForgetDecoded, CacheAgrees, Reading,
                AssertionsHold
  <1>3. ASSUME NEW n \in 0 .. movie.frames - 1, CallAgain(n)
        PROVE  SeekInv'
    <2>1. Asked(n) \in 0 .. fcnt - 1 /\ Asked(n) < movie.frames
      BY <1>3, AskedInside DEF CallAgain
    <2>2. last_decoded_frameno = Asked(n)
      BY <1>3, <2>1, SameStampSameFrame DEF CallAgain
    <2> QED BY <1>3, <2>2 DEF CallAgain, SeekInv, CacheAgrees, Reading,
                              AssertionsHold, optVars, tableVars, lastVars
  <1>4. ASSUME NEW n \in 0 .. movie.frames - 1, CallRead(n)
        PROVE  SeekInv'
    <2>1. Asked(n) \in 0 .. fcnt - 1 /\ Asked(n) < movie.frames
      BY <1>4, AskedInside DEF CallRead
    <2>2. ~AssertionFails(Asked(n))
      BY <2>1, NoAssertionFails
    <2>3. framenumber' = Asked(n) /\ (FailWith(-3) \/ EnterLoop(Asked(n)))
      BY <1>4 DEF CallRead
    <2>4. UNCHANGED <<optVars, tableVars>>
      BY TableStays
    <2>5. CacheAgrees' /\ Reading' /\ AssertionsHold'
      BY <2>1, <2>2, <2>3, <2>4
         DEF FailWith, EnterLoop, ForgetDecoded, CacheAgrees, Reading,
             AssertionsHold, optVars, tableVars
    <2> QED BY <2>4, <2>5
  <1>5. CASE ReadDecode
    <2>1. pc = "reading" /\ UNCHANGED framenumber
      BY <1>5 DEF ReadDecode
    <2>2. CASE \E err \in {-1, -7, -10} : FailWith(err)
      BY <2>2 DEF FailWith, ForgetDecoded, CacheAgrees, Reading,
                  AssertionsHold
    <2>3. CASE \E pts : GotFrame(pts, bailout)
      BY <2>1, <2>3, GotFrameCache
    <2>4. CASE NoFrameYet(bailout)
      BY <2>1, <2>4 DEF NoFrameYet, SeekInv, CacheAgrees, Reading,
                        AssertionsHold, optVars, tableVars, lastVars
    <2> QED BY <1>5, <2>2, <2>3, <2>4 DEF ReadDecode
  <1>6. CASE Drain
    <2>1. pc = "reading" /\ UNCHANGED framenumber
      BY <1>6 DEF Drain, DrainAt, AtEnd
    <2>2. CASE \E pts : GotFrame(pts, bailout - 1)
      BY <2>1, <2>2, GotFrameCache
    <2>3. CASE NoFrameYet(bailout - 1)
      BY <2>1, <2>3 DEF NoFrameYet, SeekInv, CacheAgrees, Reading,
                        AssertionsHold, optVars, tableVars, lastVars
    <2> QED BY <1>6, <2>2, <2>3 DEF Drain, DrainAt, AtEnd
  <1>7. CASE BailOut
    BY <1>7 DEF BailOut, FailWith, ForgetDecoded, CacheAgrees, Reading,
                AssertionsHold
  <1>8. CASE PassOver
    BY <1>8 DEF PassOver, AtEnd, NoFrameYet, SeekInv, CacheAgrees, Reading,
                AssertionsHold, optVars, tableVars, lastVars
  <1> QED BY <1>1, <1>2, <1>3, <1>4, <1>5, <1>6, <1>7, <1>8 DEF Next, Loop, Call

-----------------------------------------------------------------------------
\* The assertions of seek_frame (xjadeo.c:536-546) hold, whatever the movie,
\* the options and the frames asked for: the cached frame number and its time
\* stamp always agree with the seek table.
THEOREM AssertionsNeverFail == Spec => []AssertionsHold
  <1>1. SeekInv => AssertionsHold
    BY DEF SeekInv
  <1> QED BY <1>1, InitInv, SeekStep, PTL DEF Spec

-----------------------------------------------------------------------------
(* Types.                                                                  *)

LEMMA SeekPosition ==
  ASSUME NEW m \in Movies, NEW ts, NEW p \in SeekPositions(m, ts), p # 0
  PROVE  /\ p \in Packets(m)
         /\ IF KeyframesUpTo(m, ts) = {} THEN p = 1
            ELSE /\ p \in KeyframesUpTo(m, ts)
                 /\ \A q \in KeyframesUpTo(m, ts) : q <= p
  <1> DEFINE S == KeyframesUpTo(m, ts)
  <1>1. Len(m.pts) \in Nat \ {0} /\ Packets(m) = 1 .. Len(m.pts)
    BY MovieFacts
  <1>2. CASE S = {}
    BY <1>1, <1>2 DEF SeekPositions
  <1>3. CASE S # {}
    <2>1. S \subseteq Packets(m) /\ S \subseteq Int
          /\ Len(m.pts) \in Int /\ \A x \in S : x <= Len(m.pts)
      BY <1>1 DEF KeyframesUpTo
    <2>2. p = Max(S)
      BY <1>3 DEF SeekPositions
    <2>3. Max(S) \in S /\ \A x \in S : x <= Max(S)
      <3> HIDE DEF S
      <3> QED BY <1>3, <2>1, MaxOf
    <2> QED BY <1>3, <2>1, <2>2, <2>3
  <1> QED BY <1>2, <1>3

LEMMA TypeInit == Init => TypeOK
  <1> SUFFICES ASSUME Init PROVE TypeOK
    OBVIOUS
  <1>1. movie \in Movies /\ want_noindex \in BOOLEAN /\ want_ignstart \in BOOLEAN
    BY DEF Init
  <1>2. fcnt = EntryCount(movie, want_noindex) /\ fcnt \in Nat
    BY <1>1, CountType DEF Init
  <1> DEFINE interval == PassInterval(movie, want_noindex)
  <1>3. interval \in Nat
    BY <1>1, PassIntervalType
  <1>4. fidx \in [0 .. fcnt - 1 -> [timestamp : Int, seekpts : Int]]
    <2>1. PICK garbage \in Garbage(movie) :
            fidx = SeekTable(Entries(movie, want_noindex, garbage), fcnt,
                             interval)
      BY DEF Init
    <2> DEFINE entries == Entries(movie, want_noindex, garbage)
    <2>2. entries \in [0 .. fcnt - 1 -> EntryType]
      BY <1>1, <1>2, EntriesType
    <2>3. SeekTable(entries, fcnt, interval)
            \in [0 .. fcnt - 1 -> [timestamp : Int, seekpts : Int]]
      <3> HIDE DEF entries, interval
      <3> QED BY <1>2, <1>3, <2>2, TableType
    <2> QED BY <2>1, <2>3
  <1>5. seek_threshold \in Nat
    <2>1. KeyframeLimit \in Nat
      BY SeekFrameAssumption
    <2> DEFINE i == IF want_noindex THEN KeyframeLimit ELSE interval
    <2>2. i \in Nat
      BY <1>3, <2>1
    <2>3. seek_threshold = SeekThreshold(i)
      BY DEF Init
    <2>4. SeekThreshold(i) \in Nat
      <3> HIDE DEF i
      <3> QED BY <2>2, ThresholdType
    <2> QED BY <2>3, <2>4
  <1>6. /\ pc = "idle" /\ request = -1 /\ framenumber = -1 /\ bailout = 0
        /\ result = -1 /\ last_decoded_pts = -1 /\ last_decoded_frameno = -1
        /\ pos = 1 /\ dec = {} /\ pFrame = -1
    BY DEF Init
  <1>7. movie.frames \in Nat \ {0} /\ Len(movie.pts) \in Nat
    BY <1>1, MovieFacts
  <1>8. bailout \in -1 .. Bailout
    BY <1>5, <1>6 DEF Bailout
  <1> QED BY <1>1, <1>2, <1>4, <1>5, <1>6, <1>7, <1>8 DEF TypeOK

\* What the steps of seek_frame leave of the types, once the table is known
\* not to change.
CallTypes ==
  /\ pc \in {"idle", "reading", "aborted"}
  /\ request \in -1 .. movie.frames - 1 /\ framenumber \in Int
  /\ bailout \in -1 .. Bailout
  /\ result \in {0, -1, -2, -3, -5, -7, -10}
LibTypes ==
  /\ pos \in 1 .. Len(movie.pts) + 1
  /\ dec \subseteq TimesOf(movie)
  /\ pFrame \in {-1} \cup TimesOf(movie)

LEMMA TypesStay ==
  ASSUME TypeOK, SeekInv, SeekInv', UNCHANGED <<optVars, tableVars>>,
         CallTypes', LibTypes'
  PROVE  TypeOK'
  <1>1. fidx' = fidx /\ fcnt' = fcnt /\ movie' = movie
    BY DEF optVars, tableVars
  <1>2. \/ last_decoded_pts' = -1 /\ last_decoded_frameno' = -1
        \/ /\ last_decoded_frameno' \in 0 .. fcnt - 1
           /\ last_decoded_pts' = fidx[last_decoded_frameno'].timestamp
    BY <1>1 DEF SeekInv, CacheAgrees
  <1>3. fcnt \in Nat /\ \A i \in 0 .. fcnt - 1 : fidx[i].timestamp \in Int
    BY DEF TypeOK
  <1>4. last_decoded_pts' \in Int /\ last_decoded_frameno' \in -1 .. fcnt' - 1
    BY <1>1, <1>2, <1>3
  <1> QED BY <1>1, <1>4
        DEF TypeOK, CallTypes, LibTypes, TimesOf, optVars, tableVars

\* The frame that comes out of the decoder.
LEMMA Decoded ==
  ASSUME TypeOK, NEW S, S \subseteq TimesOf(movie), S # {}
  PROVE  /\ Min(S) \in S /\ Min(S) \in TimesOf(movie) /\ Min(S) \in Int
         /\ \A t \in S : Min(S) <= t
         /\ S \ {Min(S)} \subseteq TimesOf(movie)
  <1>1. movie \in Movies
    BY DEF TypeOK
  <1>2. Min(S) \in S /\ \A t \in S : Min(S) <= t
    BY <1>1, MinOfTimes
  <1>3. TimesOf(movie) \subseteq Int
    BY <1>1, MovieFacts DEF TimesOf
  <1> QED BY <1>2, <1>3

LEMMA GotFrameTypes ==
  ASSUME TypeOK, pc = "reading", bailout > 0,
         UNCHANGED <<optVars, tableVars, request, framenumber>>,
         NEW pts, NEW left \in {bailout, bailout - 1}, GotFrame(pts, left)
  PROVE  CallTypes'
  <1>1. CallTypes /\ seek_threshold \in Nat
    BY DEF TypeOK, CallTypes
  <1>2. bailout' \in {bailout, bailout - 1, bailout - 2}
    BY <1>1 DEF GotFrame, CallTypes
  <1>3. pc' \in {"idle", "reading", "aborted"} /\ result' \in {0, -2, result}
    BY DEF GotFrame, FailWith
  <1> QED BY <1>1, <1>2, <1>3 DEF CallTypes, optVars, tableVars, Bailout

LEMMA NoFrameTypes ==
  ASSUME TypeOK, pc = "reading", bailout > 0,
         UNCHANGED <<optVars, tableVars, request, framenumber>>,
         NEW left \in {bailout, bailout - 1}, NoFrameYet(left)
  PROVE  CallTypes'
  <1>1. CallTypes /\ seek_threshold \in Nat
    BY DEF TypeOK, CallTypes
  <1>2. bailout' \in {bailout - 1, bailout - 2}
    BY <1>1 DEF NoFrameYet, CallTypes
  <1> QED BY <1>1, <1>2 DEF CallTypes, NoFrameYet, optVars, tableVars, Bailout

LEMMA TypeStep == TypeOK /\ SeekInv /\ SeekInv' /\ [Next]_vars => TypeOK'
  <1> SUFFICES ASSUME TypeOK, SeekInv, SeekInv', [Next]_vars
               PROVE  TypeOK'
    OBVIOUS
  <1>0. /\ UNCHANGED <<optVars, tableVars>>
        /\ movie' = movie /\ fcnt' = fcnt /\ seek_threshold' = seek_threshold
        /\ movie \in Movies /\ seek_threshold \in Nat
    BY TableStays DEF TypeOK, optVars, tableVars
  <1>m. /\ Len(movie.pts) \in Nat \ {0} /\ Packets(movie) = 1 .. Len(movie.pts)
        /\ movie.frames \in Nat \ {0} /\ movie.start \in Nat
    BY <1>0, MovieFacts
  <1>t. CallTypes /\ LibTypes
    BY DEF TypeOK, CallTypes, LibTypes, TimesOf
  <1>s. CallTypes' /\ LibTypes' => TypeOK'
    BY <1>0, TypesStay
  <1>a. ASSUME NEW n \in 0 .. movie.frames - 1
        PROVE  Asked(n) \in Int /\ n \in -1 .. movie.frames - 1
    BY <1>m DEF Asked
  <1>b. 0 <= Bailout /\ Bailout \in Nat /\ Bailout' = Bailout
    BY <1>0 DEF Bailout
  <1>1. CASE UNCHANGED vars
    BY <1>1, <1>t, <1>s, <1>0 DEF CallTypes, LibTypes, TimesOf, vars, optVars, tableVars,
       callVars, lastVars, libVars, Bailout, Packets
  <1>2. ASSUME NEW n \in 0 .. movie.frames - 1, CallOutside(n)
        PROVE  TypeOK'
    <2>1. CallTypes'
      BY <1>2, <1>t, <1>0, <1>a, <1>b
         DEF CallTypes, CallOutside, FailWith, Bailout
    <2>2. LibTypes'
      BY <1>2, <1>t, <1>0 DEF LibTypes, CallOutside, libVars
    <2> QED BY <2>1, <2>2, <1>s
  <1>3. ASSUME NEW n \in 0 .. movie.frames - 1, CallAgain(n)
        PROVE  TypeOK'
    <2>1. CallTypes'
      BY <1>3, <1>t, <1>0, <1>a, <1>b DEF CallTypes, CallAgain, Bailout
    <2>2. LibTypes'
      BY <1>3, <1>t, <1>0 DEF LibTypes, CallAgain, libVars
    <2> QED BY <2>1, <2>2, <1>s
  <1>4. ASSUME NEW n \in 0 .. movie.frames - 1, CallRead(n)
        PROVE  TypeOK'
    <2>1. request' = n /\ framenumber' = Asked(n) /\ pFrame' = pFrame
      BY <1>4 DEF CallRead
    <2>2. CASE EnterLoop(Asked(n)) /\ UNCHANGED <<pos, dec>>
      BY <2>1, <2>2, <1>t, <1>0, <1>a, <1>b, <1>s
         DEF CallTypes, LibTypes, EnterLoop
    <2>3. ASSUME NEW p \in SeekPositions(movie, fidx[Asked(n)].seekpts),
                 IF p = 0
                 THEN FailWith(-3) /\ dec' = {} /\ UNCHANGED <<pos, bailout>>
                 ELSE EnterLoop(Asked(n)) /\ AfterSeek(p)
          PROVE  TypeOK'
      <3>1. CASE p = 0
        BY <2>1, <2>3, <3>1, <1>t, <1>0, <1>a, <1>b, <1>s
           DEF CallTypes, LibTypes, FailWith
      <3>2. CASE p # 0
        <4>1. p \in Packets(movie)
          BY <2>3, <3>2, <1>0, SeekPosition
        <4>2. EnterLoop(Asked(n)) /\ pos' = p /\ dec' = {}
          BY <2>3, <3>2 DEF AfterSeek
        <4>3. CallTypes'
          BY <2>1, <4>2, <1>t, <1>0, <1>a, <1>b DEF CallTypes, EnterLoop
        <4>4. LibTypes'
          BY <2>1, <4>1, <4>2, <1>t, <1>0, <1>m DEF LibTypes
        <4> QED BY <4>3, <4>4, <1>s
      <3> QED BY <3>1, <3>2
    <2> QED BY <1>4, <2>2, <2>3 DEF CallRead
  <1>5. CASE ReadDecode
    <2> DEFINE held == dec \cup {movie.pts[pos]}
    <2>1. /\ pc = "reading" /\ bailout > 0 /\ pos \in Packets(movie)
          /\ pos' = pos + 1
          /\ UNCHANGED <<optVars, tableVars, request, framenumber>>
      BY <1>5 DEF ReadDecode
    <2>2. held \subseteq TimesOf(movie) /\ held # {}
      BY <2>1, <1>t DEF LibTypes, TimesOf
    <2>3. pos' \in 1 .. Len(movie.pts) + 1
      BY <2>1, <1>m
    <2>4. CASE (\E err \in {-1, -7, -10} : FailWith(err)) /\ UNCHANGED <<dec, pFrame, bailout>>
      <3>1. CallTypes'
        BY <2>1, <2>4, <1>t, <1>0, <1>b DEF CallTypes, FailWith
      <3>2. LibTypes'
        BY <2>3, <2>4, <1>t, <1>0 DEF LibTypes
      <3> QED BY <3>1, <3>2, <1>s
    <2>5. CASE GotFrame(Min(held), bailout) /\ dec' = held \ {Min(held)}
      <3>1. CallTypes'
        BY <2>1, <2>5, GotFrameTypes
      <3>2. Min(held) \in TimesOf(movie) /\ held \ {Min(held)} \subseteq TimesOf(movie)
        <4> HIDE DEF held
        <4> QED BY <2>2, Decoded
      <3>3. pFrame' = Min(held)
        BY <2>5 DEF GotFrame
      <3>4. LibTypes'
        <4> HIDE DEF held
        <4> QED BY <2>3, <2>5, <3>2, <3>3, <1>0 DEF LibTypes
      <3> QED BY <3>1, <3>4, <1>s
    <2>6. CASE NoFrameYet(bailout) /\ dec' = held
      <3>1. CallTypes'
        BY <2>1, <2>6, NoFrameTypes
      <3>2. LibTypes'
        BY <2>2, <2>3, <2>6, <1>t, <1>0 DEF LibTypes, NoFrameYet
      <3> QED BY <3>1, <3>2, <1>s
    <2> QED BY <1>5, <2>4, <2>5, <2>6 DEF ReadDecode
  <1>6. CASE Drain
    <2>1. /\ pc = "reading" /\ bailout > 0
          /\ UNCHANGED <<optVars, tableVars, request, framenumber, pos>>
      BY <1>6 DEF Drain, DrainAt, AtEnd
    <2>2. CASE dec # {} /\ GotFrame(Min(dec), bailout - 1) /\ dec' = dec \ {Min(dec)}
      <3>1. CallTypes'
        BY <2>1, <2>2, GotFrameTypes
      <3>2. Min(dec) \in TimesOf(movie) /\ dec \ {Min(dec)} \subseteq TimesOf(movie)
        BY <2>2, <1>t, Decoded DEF LibTypes
      <3>3. pFrame' = Min(dec)
        BY <2>2 DEF GotFrame
      <3>4. LibTypes'
        BY <2>1, <2>2, <3>2, <3>3, <1>t, <1>0 DEF LibTypes
      <3> QED BY <3>1, <3>4, <1>s
    <2>3. CASE NoFrameYet(bailout - 1) /\ UNCHANGED dec
      <3>1. CallTypes'
        BY <2>1, <2>3, NoFrameTypes
      <3>2. LibTypes'
        BY <2>1, <2>3, <1>t, <1>0 DEF LibTypes, NoFrameYet
      <3> QED BY <3>1, <3>2, <1>s
    <2> QED BY <1>6, <2>2, <2>3 DEF Drain, DrainAt, AtEnd
  <1>7. CASE BailOut
    <2>1. CallTypes'
      BY <1>7, <1>t, <1>0, <1>b DEF CallTypes, BailOut, FailWith
    <2>2. LibTypes'
      BY <1>7, <1>t, <1>0 DEF LibTypes, BailOut, libVars
    <2> QED BY <2>1, <2>2, <1>s
  <1>8. CASE PassOver
    <2>1. /\ pc = "reading" /\ bailout > 0 /\ NoFrameYet(bailout)
          /\ UNCHANGED <<optVars, tableVars, request, framenumber, pos, dec>>
      BY <1>8 DEF PassOver, AtEnd
    <2>2. CallTypes'
      BY <2>1, NoFrameTypes
    <2>3. LibTypes'
      BY <2>1, <1>t, <1>0 DEF LibTypes, NoFrameYet
    <2> QED BY <2>2, <2>3, <1>s
  <1> QED BY <1>1, <1>2, <1>3, <1>4, <1>5, <1>6, <1>7, <1>8 DEF Next, Loop, Call

\* The variables stay in the ranges that the code means them to have, for
\* movies of any length: the read loop ends at -1 at the least, the demuxer
\* stays in the file, and the decoder holds frames of the movie.
THEOREM TypeCorrect == Spec => []TypeOK
  <1> QED BY InitInv, SeekStep, TypeInit, TypeStep, PTL DEF Spec

-----------------------------------------------------------------------------
(* The order in which the decoder returns the frames of a movie whose time  *)
(* stamps and keyframes are in order.                                      *)

LEMMA TimesFinite ==
  ASSUME NEW m \in Movies
  PROVE  IsFiniteSet(TimesOf(m))
  <1> DEFINE f == [p \in Packets(m) |-> m.pts[p]]
  <1>1. IsFiniteSet(Packets(m))
    <2>1. 1 \in Int /\ Len(m.pts) \in Int
      BY MovieFacts
    <2>2. IsFiniteSet(1 .. Len(m.pts))
      BY <2>1, FS_Interval
    <2> QED BY <2>2, MovieFacts
  <1>2. f \in Surjection(Packets(m), TimesOf(m))
    BY DEF Surjection, TimesOf
  <1> QED BY <1>1, <1>2, FS_Surjection

LEMMA FiniteTimes ==
  ASSUME NEW m \in Movies, NEW S, S \subseteq TimesOf(m)
  PROVE  IsFiniteSet(S) /\ Cardinality(S) \in Nat
  <1>1. IsFiniteSet(S)
    BY TimesFinite, FS_Subset
  <1> QED BY <1>1, FS_CardinalityType

\* The frames that are still to come out of the decoder.
From(m, p) == {m.pts[q] : q \in p .. Len(m.pts)}
Upcoming == dec \cup From(movie, pos)

\* With a frame, all that are shown after it are still to come.
Closed(m, U) == \A u \in U, t \in TimesOf(m) : u < t => t \in U
After(m, pts) == {t \in TimesOf(m) : t > pts}

\* The decoder holds at most delay frames, of packets that have been read.
DecoderHolds ==
  /\ dec \subseteq {movie.pts[p] : p \in 1 .. pos - 1}
  /\ Cardinality(dec) <= movie.delay

DecodesInOrder ==
  /\ pc = "reading" => Closed(movie, Upcoming)
  /\ pc = "idle" /\ last_decoded_pts >= 0 =>
       /\ pFrame \in TimesOf(movie)
       /\ pFrame + Fuzz >= last_decoded_pts
       /\ pFrame < last_decoded_pts + movie.step
       /\ Upcoming = After(movie, pFrame)

OrderInv == DecoderHolds /\ (Orderly(movie) => DecodesInOrder)

\* Wherever the demuxer has been sent, nothing behind that is missing.
LEMMA ClosedFromSeek ==
  ASSUME NEW m \in Movies, Orderly(m), NEW ts, NEW p \in SeekPositions(m, ts),
         p # 0
  PROVE  Closed(m, From(m, p))
  <1>0. Packets(m) = 1 .. Len(m.pts) /\ Len(m.pts) \in Nat
        /\ \A q \in Packets(m) : m.pts[q] \in Int
    BY MovieFacts
  <1>1. p \in Packets(m) /\ (p = 1 \/ m.key[p])
    BY SeekPosition DEF KeyframesUpTo
  <1> SUFFICES ASSUME NEW r \in p .. Len(m.pts), NEW q \in Packets(m),
                      m.pts[r] < m.pts[q]
               PROVE  q \in p .. Len(m.pts)
    BY DEF Closed, From, TimesOf
  <1>2. CASE p = 1
    BY <1>0, <1>2
  <1>3. CASE m.key[p]
    <2> SUFFICES ASSUME q < p PROVE FALSE
      BY <1>0, <1>1
    <2>1. q \in 1 .. p - 1
      BY <1>0, <1>1
    <2>2. m.pts[q] < m.pts[r]
      BY <1>1, <1>3, <2>1 DEF Orderly
    <2>3. m.pts[q] \in Int /\ m.pts[r] \in Int
      BY <1>0, <1>1
    <2> QED BY <2>2, <2>3
  <1> QED BY <1>1, <1>2, <1>3

\* Once the decoder holds more than delay frames, the first of them is the
\* first of all that are to come.
LEMMA FirstOfAll ==
  ASSUME NEW m \in Movies, Orderly(m), NEW q \in Packets(m), NEW held,
         held \subseteq {m.pts[p] : p \in 1 .. q}, held # {},
         Cardinality(held) > m.delay,
         NEW r \in q + 1 .. Len(m.pts)
  PROVE  Min(held) < m.pts[r]
  <1>0. Packets(m) = 1 .. Len(m.pts) /\ Len(m.pts) \in Nat /\ m.delay \in Nat
        /\ \A p \in Packets(m) : m.pts[p] \in Int
    BY MovieFacts
  <1>1. held \subseteq TimesOf(m) /\ r \in Packets(m) /\ q < r
    BY <1>0 DEF TimesOf
  <1>2. Min(held) \in held /\ \A t \in held : Min(held) <= t
    BY <1>1, MinOfTimes
  <1> SUFFICES ASSUME ~(Min(held) < m.pts[r]) PROVE FALSE
    OBVIOUS
  <1>3. held \subseteq Overtaken(m, r)
    <2> SUFFICES ASSUME NEW p \in 1 .. q, m.pts[p] \in held
                 PROVE  m.pts[p] \in Overtaken(m, r)
      OBVIOUS
    <2>1. p \in Packets(m) /\ p \in 1 .. r - 1
      BY <1>0, <1>1
    <2>2. Min(held) \in Int /\ Min(held) <= m.pts[p] /\ m.pts[p] \in Int
          /\ m.pts[r] \in Int
      BY <1>0, <1>1, <1>2, <2>1 DEF TimesOf
    <2>3. m.pts[p] # m.pts[r]
      BY <1>1, <2>1 DEF Orderly
    <2>4. m.pts[p] > m.pts[r]
      BY <2>2, <2>3
    <2> QED BY <2>1, <2>4 DEF Overtaken
  <1>4. Overtaken(m, r) \subseteq TimesOf(m)
    BY <1>0, <1>1 DEF Overtaken, TimesOf
  <1>5. IsFiniteSet(Overtaken(m, r)) /\ Cardinality(Overtaken(m, r)) \in Nat
    BY <1>4, FiniteTimes
  <1>6. Cardinality(held) <= Cardinality(Overtaken(m, r)) /\ Cardinality(held) \in Nat
    BY <1>1, <1>3, <1>5, FS_Subset, FiniteTimes
  <1>7. Cardinality(Overtaken(m, r)) <= m.delay
    BY <1>1 DEF Orderly
  <1> QED BY <1>0, <1>5, <1>6, <1>7

\* When the first of a closed set is shown, the set of those after it is left.
LEMMA ShowFirst ==
  ASSUME NEW m \in Movies, NEW U, U \subseteq TimesOf(m), Closed(m, U),
         NEW t \in U, \A u \in U : t <= u
  PROVE  U \ {t} = After(m, t) /\ Closed(m, U \ {t})
  <1>1. TimesOf(m) \subseteq Int
    BY MovieFacts DEF TimesOf
  <1>2. U \ {t} = After(m, t)
    BY <1>1 DEF Closed, After
  <1>3. Closed(m, After(m, t))
    BY <1>1 DEF Closed, After
  <1> QED BY <1>2, <1>3

LEMMA ClosedAfter ==
  ASSUME NEW m \in Movies, NEW t \in TimesOf(m)
  PROVE  Closed(m, After(m, t))
  <1>1. TimesOf(m) \subseteq Int
    BY MovieFacts DEF TimesOf
  <1> QED BY <1>1 DEF Closed, After

LEMMA UpcomingTimes ==
  ASSUME TypeOK
  PROVE  Upcoming \subseteq TimesOf(movie)
  <1>1. movie \in Movies /\ dec \subseteq TimesOf(movie)
        /\ pos \in 1 .. Len(movie.pts) + 1
    BY DEF TypeOK, TimesOf
  <1>2. Len(movie.pts) \in Nat /\ Packets(movie) = 1 .. Len(movie.pts)
    BY <1>1, MovieFacts
  <1>3. From(movie, pos) \subseteq TimesOf(movie)
    BY <1>1, <1>2 DEF From, TimesOf
  <1> QED BY <1>1, <1>3 DEF Upcoming

\* A frame comes out of the decoder, the first of those to come: they are as
\* closed as before, and if it is taken they are the ones after it.
LEMMA GotFrameOrder ==
  ASSUME TypeOK, SeekInv, pc = "reading", UNCHANGED <<optVars, tableVars>>,
         Closed(movie, Upcoming),
         NEW pts \in Upcoming, \A u \in Upcoming : pts <= u,
         Upcoming' = Upcoming \ {pts}, NEW left, GotFrame(pts, left)
  PROVE  DecodesInOrder'
  <1>0. movie' = movie /\ movie \in Movies /\ Fuzz' = Fuzz /\ Fuzz \in Int
    BY DEF TypeOK, optVars, Fuzz, FuzzOf
  <1>1. Upcoming \subseteq TimesOf(movie)
    BY UpcomingTimes
  <1>2. Upcoming' = After(movie, pts) /\ Closed(movie, Upcoming')
    BY <1>0, <1>1, ShowFirst
  <1>3. pts \in TimesOf(movie) /\ pFrame' = pts /\ pts \in Int
        /\ movie.step \in Int
    BY <1>0, <1>1, MovieFacts DEF GotFrame, TimesOf
  <1> DEFINE ts == fidx[framenumber].timestamp
  <1>4. CASE pc' = "reading"
    BY <1>0, <1>2, <1>4 DEF DecodesInOrder
  <1>5. CASE FailWith(-2)
    BY <1>5 DEF FailWith, ForgetDecoded, DecodesInOrder
  <1>6. CASE ~(pts + Fuzz < ts) /\ pts - ts < movie.step
             /\ last_decoded_pts' = ts /\ pc' = "idle"
    <2>1. ts \in Int
      BY DEF TypeOK, SeekInv, Reading
    <2>2. pts + Fuzz >= ts /\ pts < ts + movie.step
      BY <1>0, <1>3, <1>6, <2>1
    <2> QED BY <1>0, <1>2, <1>3, <1>6, <2>2 DEF DecodesInOrder
  <1> QED BY <1>4, <1>5, <1>6 DEF GotFrame, FailWith

LEMMA OrderInit == Init => OrderInv
  <1> SUFFICES ASSUME Init PROVE OrderInv
    OBVIOUS
  <1>1. dec = {} /\ movie \in Movies /\ pc = "idle" /\ last_decoded_pts = -1
    BY DEF Init
  <1>2. Cardinality(dec) <= movie.delay
    BY <1>1, FS_EmptySet, MovieFacts
  <1> QED BY <1>1, <1>2 DEF OrderInv, DecoderHolds, DecodesInOrder

\* A packet goes through the decoder.
LEMMA HoldOne ==
  ASSUME NEW m \in Movies, NEW q \in Packets(m), NEW d,
         d \subseteq {m.pts[p] : p \in 1 .. q - 1}, Cardinality(d) <= m.delay
  PROVE  LET held == d \cup {m.pts[q]} IN
         /\ held \subseteq {m.pts[p] : p \in 1 .. q} /\ held \subseteq TimesOf(m)
         /\ held # {}
         /\ Cardinality(held) <= m.delay + 1 /\ Cardinality(held) \in Nat
         /\ \A t \in held : Cardinality(held \ {t}) <= m.delay
         /\ d \cup From(m, q) = held \cup From(m, q + 1)
  <1> DEFINE held == d \cup {m.pts[q]}
  <1>0. Packets(m) = 1 .. Len(m.pts) /\ Len(m.pts) \in Nat /\ m.delay \in Nat
        /\ q \in Int
    BY MovieFacts
  <1>1. held \subseteq {m.pts[p] : p \in 1 .. q} /\ held # {}
    BY <1>0
  <1>2. held \subseteq TimesOf(m) /\ d \subseteq TimesOf(m)
    BY <1>0, <1>1 DEF TimesOf
  <1>3. IsFiniteSet(held) /\ Cardinality(held) \in Nat
        /\ IsFiniteSet(d) /\ Cardinality(d) \in Nat
    <2> HIDE DEF held
    <2> QED BY <1>2, FiniteTimes
  <1>4. Cardinality(held) <= Cardinality(d) + 1
    <2>1. m.pts[q] \in d => held = d
      OBVIOUS
    <2>2. m.pts[q] \notin d => Cardinality(held) = Cardinality(d) + 1
      BY <1>3, FS_AddElement
    <2> QED BY <1>3, <2>1, <2>2
  <1>5. ASSUME NEW t \in held
        PROVE  Cardinality(held \ {t}) <= m.delay
    <2>1. Cardinality(held \ {t}) = Cardinality(held) - 1
      <3> HIDE DEF held
      <3> QED BY <1>3, FS_RemoveElement
    <2> HIDE DEF held
    <2> QED BY <1>0, <1>3, <1>4, <2>1
  <1>6. q .. Len(m.pts) = {q} \cup (q + 1 .. Len(m.pts))
    BY <1>0
  <1>7. d \cup From(m, q) = held \cup From(m, q + 1)
    <2>1. From(m, q) = {m.pts[q]} \cup From(m, q + 1)
      BY <1>6 DEF From
    <2> QED BY <2>1
  <1>8. Cardinality(held) <= m.delay + 1
    <2> HIDE DEF held
    <2> QED BY <1>0, <1>3, <1>4
  <1> QED BY <1>1, <1>2, <1>3, <1>5, <1>7, <1>8


LEMMA HoldsStep ==
  ASSUME TypeOK, DecoderHolds, [Next]_vars
  PROVE  DecoderHolds'
  <1>0. movie' = movie /\ movie \in Movies
    BY TableStays DEF TypeOK, optVars
  <1>m. Packets(movie) = 1 .. Len(movie.pts) /\ Len(movie.pts) \in Nat
        /\ movie.delay \in Nat
    BY <1>0, MovieFacts
  <1>1. CASE dec' = {}
    BY <1>0, <1>1, <1>m, FS_EmptySet DEF DecoderHolds
  <1>2. CASE UNCHANGED <<pos, dec>>
    BY <1>0, <1>2 DEF DecoderHolds
  <1>3. CASE ReadDecode
    <2> DEFINE held == dec \cup {movie.pts[pos]}
    <2>1. pos \in Packets(movie) /\ pos' = pos + 1 /\ pos \in Int
      BY <1>3, <1>m DEF ReadDecode
    <2>2. /\ held \subseteq {movie.pts[p] : p \in 1 .. pos} /\ held # {}
          /\ held \subseteq TimesOf(movie)
          /\ Cardinality(held) \in Nat
          /\ \A t \in held : Cardinality(held \ {t}) <= movie.delay
      BY <1>0, <2>1, HoldOne DEF DecoderHolds
    <2>3. Min(held) \in held
      <3> HIDE DEF held
      <3> QED BY <1>0, <2>2, MinOfTimes
    <2>4. \/ dec' = held \ {Min(held)}
          \/ dec' = held /\ ~(Cardinality(held) > movie.delay)
          \/ dec' = dec
      BY <1>3 DEF ReadDecode
    <2>5. Cardinality(dec') <= movie.delay
      <3> HIDE DEF held
      <3> QED BY <1>m, <2>2, <2>3, <2>4 DEF DecoderHolds
    <2>6. dec' \subseteq held
      BY <2>4
    <2>7. pos' - 1 = pos
      BY <2>1
    <2> HIDE DEF held
    <2> QED BY <1>0, <2>2, <2>5, <2>6, <2>7 DEF DecoderHolds
  <1>4. CASE dec' = dec \ {Min(dec)} /\ dec # {} /\ UNCHANGED pos
    <2>1. dec \subseteq TimesOf(movie)
      BY DEF TypeOK, TimesOf
    <2>2. IsFiniteSet(dec) /\ Cardinality(dec) \in Nat /\ Min(dec) \in dec
      BY <1>0, <1>4, <2>1, FiniteTimes, MinOfTimes
    <2>3. Cardinality(dec') = Cardinality(dec) - 1
      BY <1>4, <2>2, FS_RemoveElement
    <2> QED BY <1>0, <1>4, <1>m, <2>2, <2>3 DEF DecoderHolds
  <1> QED BY <1>1, <1>2, <1>3, <1>4
        DEF Next, Loop, Call, CallOutside, CallAgain, CallRead, AfterSeek,
            PassOver, Drain, DrainAt, BailOut, vars, libVars

\* An iteration of the read loop: it fails, or no frame comes out, or the
\* first of those to come.
LEMMA LoopStep ==
  ASSUME TypeOK, DecoderHolds, Orderly(movie), Loop
  PROVE  /\ pc = "reading" /\ UNCHANGED <<optVars, tableVars, request, framenumber>>
         /\ \/ pc' = "idle" /\ last_decoded_pts' = -1 /\ result' # 0
            \/ /\ UNCHANGED <<pc, result, lastVars, pFrame>>
               /\ Upcoming' = Upcoming
            \/ \E pts \in Upcoming, left \in {bailout, bailout - 1} :
                 /\ \A u \in Upcoming : pts <= u
                 /\ Upcoming' = Upcoming \ {pts}
                 /\ GotFrame(pts, left)
  <1>0. movie \in Movies /\ pc = "reading"
        /\ UNCHANGED <<optVars, tableVars, request, framenumber>>
    BY DEF TypeOK, Loop, ReadDecode, AtEnd, PassOver, Drain, DrainAt, BailOut
  <1>1. movie' = movie
    BY <1>0 DEF optVars
  <1>m. Packets(movie) = 1 .. Len(movie.pts) /\ Len(movie.pts) \in Nat
        /\ movie.delay \in Nat
    BY <1>0, MovieFacts
  <1>2. CASE ReadDecode
    <2> DEFINE held == dec \cup {movie.pts[pos]}
               first == Min(held)
    <2>1. pos \in Packets(movie) /\ pos' = pos + 1 /\ pos \in Int
      BY <1>2, <1>m DEF ReadDecode
    <2>2. /\ held \subseteq {movie.pts[p] : p \in 1 .. pos} /\ held # {}
          /\ held \subseteq TimesOf(movie)
          /\ Upcoming = held \cup From(movie, pos + 1)
      BY <1>0, <2>1, HoldOne DEF DecoderHolds, Upcoming
    <2>3. first \in held /\ \A t \in held : first <= t
      <3> HIDE DEF held
      <3> QED BY <1>0, <2>2, MinOfTimes
    <2>4. Upcoming' = dec' \cup From(movie, pos + 1)
      BY <1>1, <2>1 DEF Upcoming
    <2>5. CASE \E err \in {-1, -7, -10} : FailWith(err)
      BY <1>0, <2>5 DEF FailWith, ForgetDecoded
    <2>6. CASE /\ Cardinality(held) > movie.delay
               /\ GotFrame(first, bailout) /\ dec' = held \ {first}
      <3>1. \A r \in pos + 1 .. Len(movie.pts) : first < movie.pts[r]
        <4> HIDE DEF held
        <4> QED BY <1>0, <2>1, <2>2, <2>6, FirstOfAll
      <3>2. \A r \in pos + 1 .. Len(movie.pts) : movie.pts[r] \in Int
        BY <1>0, <1>m, <2>1, MovieFacts
      <3>3. first \in Int
        BY <1>0, <2>2, <2>3, MovieFacts DEF TimesOf
      <3> HIDE DEF first
      <3>4. \A u \in From(movie, pos + 1) : first < u /\ u \in Int
        BY <3>1, <3>2 DEF From
      <3>5. first \notin From(movie, pos + 1)
            /\ \A u \in From(movie, pos + 1) : first <= u
        <4> HIDE DEF held
        <4> QED BY <3>3, <3>4
      <3>6. /\ first \in Upcoming
            /\ \A u \in Upcoming : first <= u
            /\ Upcoming' = Upcoming \ {first}
        <4> HIDE DEF held
        <4> QED BY <2>2, <2>3, <2>4, <2>6, <3>5
      <3> QED BY <1>0, <2>6, <3>6
    <2>7. CASE NoFrameYet(bailout) /\ dec' = held
      BY <1>0, <2>2, <2>4, <2>7 DEF NoFrameYet, lastVars
    <2> QED BY <1>2, <2>5, <2>6, <2>7 DEF ReadDecode
  <1>3. CASE Drain
    <2>1. pos \notin Packets(movie) /\ pos' = pos
      BY <1>3 DEF Drain, DrainAt, AtEnd
    <2>2. From(movie, pos) = {}
      <3> DEFINE len == Len(movie.pts)
      <3>0. pos \in 1 .. len + 1 /\ pos \notin 1 .. len /\ len \in Nat
        BY <1>m, <2>1 DEF TypeOK
      <3>1. pos = Len(movie.pts) + 1
        <4> HIDE DEF len
        <4>1. pos = len + 1
          BY <3>0
        <4> QED BY <4>1 DEF len
      <3> QED BY <1>m, <3>1 DEF From
    <2>3. Upcoming = dec /\ Upcoming' = dec'
      BY <1>1, <2>1, <2>2 DEF Upcoming
    <2>4. CASE dec # {} /\ GotFrame(Min(dec), bailout - 1)
               /\ dec' = dec \ {Min(dec)}
      <3> DEFINE first == Min(dec)
      <3>1. first \in dec /\ \A t \in dec : first <= t
        BY <2>4, Decoded DEF TypeOK, TimesOf
      <3> HIDE DEF first
      <3>2. GotFrame(first, bailout - 1) /\ dec' = dec \ {first}
        BY <2>4 DEF first
      <3> QED BY <1>0, <2>3, <3>1, <3>2
    <2>5. CASE NoFrameYet(bailout - 1) /\ UNCHANGED dec
      BY <1>0, <2>3, <2>5 DEF NoFrameYet, lastVars
    <2> QED BY <1>3, <2>4, <2>5 DEF Drain, DrainAt, AtEnd
  <1>4. CASE BailOut
    BY <1>0, <1>4 DEF BailOut, FailWith, ForgetDecoded
  <1>5. CASE PassOver
    BY <1>0, <1>1, <1>5 DEF PassOver, NoFrameYet, Upcoming, lastVars
  <1> QED BY <1>2, <1>3, <1>4, <1>5 DEF Loop

LEMMA DecodesInOrderStep ==
  ASSUME TypeOK, SeekInv, SeekInv', DecoderHolds, Orderly(movie),
         DecodesInOrder, [Next]_vars
  PROVE  DecodesInOrder'
  <1>0. UNCHANGED <<optVars, tableVars>> /\ movie' = movie /\ movie \in Movies
        /\ Fuzz' = Fuzz
    BY TableStays DEF TypeOK, optVars, Fuzz
  <1>u. UNCHANGED <<pos, dec>> => Upcoming' = Upcoming
    BY <1>0 DEF Upcoming
  <1>1. CASE last_decoded_pts' = -1 /\ pc' = "idle"
    BY <1>1 DEF DecodesInOrder
  <1>2. CASE UNCHANGED <<pc, lastVars, libVars>>
    BY <1>0, <1>2, <1>u DEF DecodesInOrder, lastVars, libVars
  <1>3. ASSUME NEW n \in 0 .. movie.frames - 1, CallRead(n)
        PROVE  DecodesInOrder'
    <2> DEFINE k == Asked(n)
    <2>1. CASE /\ ~NeedSeek(k) /\ EnterLoop(k) /\ UNCHANGED <<pos, dec>>
      <3>1. pc = "idle" /\ last_decoded_pts >= 0
        <4>1. last_decoded_pts \in Int /\ ~(last_decoded_pts < 0)
          BY <2>1 DEF NeedSeek, Nothing, TypeOK
        <4> QED BY <1>3, <4>1 DEF CallRead
      <3>2. pFrame \in TimesOf(movie) /\ Upcoming = After(movie, pFrame)
        BY <3>1 DEF DecodesInOrder
      <3>3. Closed(movie, Upcoming)
        BY <1>0, <3>2, ClosedAfter
      <3>4. pc' # "idle"
        BY <2>1 DEF EnterLoop
      <3> QED BY <1>0, <1>u, <2>1, <3>3, <3>4 DEF DecodesInOrder
    <2>2. ASSUME NEW p \in SeekPositions(movie, fidx[k].seekpts), p # 0,
                 EnterLoop(k), AfterSeek(p)
          PROVE  DecodesInOrder'
      <3>1. Upcoming' = From(movie, p)
        BY <1>0, <2>2 DEF Upcoming, AfterSeek
      <3>2. Closed(movie, From(movie, p))
        BY <1>0, <2>2, ClosedFromSeek
      <3>3. pc' # "idle"
        BY <2>2 DEF EnterLoop
      <3> QED BY <1>0, <3>1, <3>2, <3>3 DEF DecodesInOrder
    <2>3. CASE FailWith(-3)
      BY <2>3 DEF FailWith, ForgetDecoded, DecodesInOrder
    <2> QED BY <1>3, <2>1, <2>2, <2>3 DEF CallRead
  <1>4. CASE Loop
    <2>1. pc = "reading" /\ Closed(movie, Upcoming)
      BY <1>4, LoopStep DEF DecodesInOrder
    <2>2. CASE UNCHANGED <<pc, result, lastVars, pFrame>> /\ Upcoming' = Upcoming
      BY <1>0, <2>1, <2>2 DEF DecodesInOrder
    <2>3. CASE \E pts \in Upcoming, left \in {bailout, bailout - 1} :
                 /\ \A u \in Upcoming : pts <= u
                 /\ Upcoming' = Upcoming \ {pts}
                 /\ GotFrame(pts, left)
      BY <1>0, <2>1, <2>3, GotFrameOrder
    <2> QED BY <1>1, <1>4, <2>2, <2>3, LoopStep
  <1>5. ASSUME NEW n \in 0 .. movie.frames - 1, CallAgain(n)
        PROVE  DecodesInOrder'
    <2>1. pc = "idle" /\ pc' \in {"idle", "aborted"} /\ UNCHANGED <<lastVars, libVars>>
      BY <1>5 DEF CallAgain
    <2> QED BY <1>0, <1>u, <2>1 DEF DecodesInOrder, lastVars, libVars
  <1>6. ASSUME NEW n \in 0 .. movie.frames - 1, CallOutside(n)
        PROVE  DecodesInOrder'
    BY <1>1, <1>6 DEF CallOutside, FailWith, ForgetDecoded
  <1>7. CASE UNCHANGED vars
    BY <1>2, <1>7 DEF vars, callVars
  <1> QED BY <1>3, <1>4, <1>5, <1>6, <1>7 DEF Next, Call

LEMMA OrderStep ==
  TypeOK /\ SeekInv /\ SeekInv' /\ OrderInv /\ [Next]_vars => OrderInv'
  <1> SUFFICES ASSUME TypeOK, SeekInv, SeekInv', OrderInv, [Next]_vars
               PROVE  OrderInv'
    OBVIOUS
  <1>1. movie' = movie
    BY TableStays DEF optVars
  <1> QED BY <1>1, HoldsStep, DecodesInOrderStep DEF OrderInv

\* What the cache is trusted for is true (xjadeo.c:535-555): in every movie
\* whose frames are in order, of any length and with any decoder delay, the
\* frame last decoded is the one that the two variables name, and what is
\* read next are exactly the frames after it, after any sequence of seeks,
\* failures and reads.
THEOREM CacheIsTrueInOrder == Spec => [](Orderly(movie) => CacheIsTrue)
  <1>1. TypeOK /\ SeekInv /\ OrderInv => (Orderly(movie) => CacheIsTrue)
    <2> SUFFICES ASSUME TypeOK, SeekInv, OrderInv, Orderly(movie),
                        pc = "idle", last_decoded_pts >= 0
                 PROVE  CacheIsTrue
      BY DEF CacheIsTrue
    <2>1. Len(movie.pts) \in Nat
      BY MovieFacts DEF TypeOK
    <2>2. /\ pFrame + Fuzz >= last_decoded_pts
          /\ pFrame < last_decoded_pts + movie.step
          /\ Upcoming = After(movie, pFrame)
      BY DEF OrderInv, DecodesInOrder
    <2>3. fidx[last_decoded_frameno].timestamp = last_decoded_pts
      BY DEF SeekInv, CacheAgrees
    <2> QED BY <2>2, <2>3 DEF CacheIsTrue, Upcoming, From, After, TimesOf, Times
  <1> QED BY <1>1, InitInv, SeekStep, TypeInit, TypeStep, OrderInit, OrderStep,
             PTL DEF Spec

-----------------------------------------------------------------------------
(* Which frame is shown, in a movie at a constant frame rate.              *)

LEMMA Gap ==
  ASSUME NEW m \in Movies, NEW i \in Int, NEW j \in Int, i < j
  PROVE  /\ Rescale(m, i) \in Int /\ Rescale(m, j) \in Int
         /\ Rescale(m, i) + m.step <= Rescale(m, j)
  <1> DEFINE s == m.step
  <1>1. s \in Nat \ {0}
    BY MovieType
  <1>2. i * s \in Int /\ j * s \in Int
    BY <1>1
  <1>3. (j - i - 1) * s = j * s - i * s - s
    BY <1>1
  <1>4. (j - i - 1) * s >= 0
    BY <1>1
  <1> HIDE DEF s
  <1> QED BY <1>1, <1>2, <1>3, <1>4 DEF Rescale, s

LEMMA TwoGaps ==
  ASSUME NEW m \in Movies, NEW i \in Int, NEW j \in Int, i + 1 < j
  PROVE  Rescale(m, i) + m.step + m.step <= Rescale(m, j)
  <1>1. i + 1 \in Int /\ i < i + 1 /\ m.step \in Int
    BY MovieType
  <1>2. /\ Rescale(m, i) \in Int /\ Rescale(m, i + 1) \in Int
        /\ Rescale(m, i) + m.step <= Rescale(m, i + 1)
    BY <1>1, Gap
  <1>3. Rescale(m, j) \in Int /\ Rescale(m, i + 1) + m.step <= Rescale(m, j)
    BY <1>1, Gap
  <1> QED BY <1>1, <1>2, <1>3

LEMMA FuzzFacts ==
  ASSUME NEW m \in Movies
  PROVE  FuzzOf(m) \in {0, 1} /\ FuzzOf(m) + FuzzOf(m) < m.step /\ m.step \in Nat
  <1>1. m.step \in Nat \ {0}
    BY MovieType
  <1> QED BY <1>1 DEF FuzzOf

\* The time stamp of a packet whose frame is the n-th to be shown.
LEMMA StampOfPlace ==
  ASSUME NEW m \in Movies, NEW place \in [Packets(m) -> 0 .. Len(m.pts) - 1],
         Numbering(m, place), NEW p \in Packets(m)
  PROVE  /\ place[p] \in Nat /\ m.start + place[p] \in Nat
         /\ m.pts[p] \in Int /\ Rescale(m, m.start + place[p]) \in Int
         /\ m.pts[p] <= Rescale(m, m.start + place[p]) + FuzzOf(m)
         /\ Rescale(m, m.start + place[p]) <= m.pts[p] + FuzzOf(m)
  <1>1. Len(m.pts) \in Nat /\ m.pts[p] \in Int /\ m.start \in Nat
    BY MovieFacts
  <1>2. place[p] \in 0 .. Len(m.pts) - 1
    OBVIOUS
  <1>3. place[p] \in Nat /\ m.start + place[p] \in Nat
    BY <1>1, <1>2
  <1>4. Rescale(m, m.start + place[p]) \in Int
    <2>1. m.start + place[p] \in Int
      BY <1>3
    <2> QED BY <2>1, RescaleIncreases
  <1>5. Late(m, p, place[p]) \in -FuzzOf(m) .. FuzzOf(m) /\ FuzzOf(m) \in Int
    BY FuzzFacts DEF Numbering
  <1> DEFINE r == Rescale(m, m.start + place[p])
  <1>6. m.pts[p] - r \in -FuzzOf(m) .. FuzzOf(m)
    BY <1>5 DEF Late
  <1> HIDE DEF r
  <1>7. m.pts[p] <= r + FuzzOf(m) /\ r <= m.pts[p] + FuzzOf(m)
    BY <1>1, <1>4, <1>5, <1>6 DEF r
  <1> QED BY <1>1, <1>3, <1>4, <1>7 DEF r

\* The order of the places is that of the time stamps.
LEMMA PlaceOrder ==
  ASSUME NEW m \in Movies, NEW place \in [Packets(m) -> 0 .. Len(m.pts) - 1],
         Numbering(m, place), NEW p \in Packets(m), NEW q \in Packets(m)
  PROVE  /\ m.pts[p] \in Int /\ m.pts[q] \in Int
         /\ place[p] \in Nat /\ place[q] \in Nat
         /\ place[p] < place[q] <=> m.pts[p] < m.pts[q]
  <1>1. ASSUME NEW x \in Packets(m), NEW y \in Packets(m), place[x] < place[y]
        PROVE  m.pts[x] < m.pts[y]
    <2>1. /\ m.start + place[x] \in Int /\ m.start + place[y] \in Int
          /\ m.start + place[x] < m.start + place[y]
      BY <1>1, StampOfPlace, MovieFacts
    <2> DEFINE rx == Rescale(m, m.start + place[x])
               ry == Rescale(m, m.start + place[y])
    <2>2. rx \in Int /\ ry \in Int /\ rx + m.step <= ry
      BY <2>1, Gap
    <2>3. /\ m.pts[x] \in Int /\ m.pts[y] \in Int
          /\ m.pts[x] <= rx + FuzzOf(m) /\ ry <= m.pts[y] + FuzzOf(m)
      BY StampOfPlace
    <2>4. FuzzOf(m) \in {0, 1} /\ FuzzOf(m) + FuzzOf(m) < m.step /\ m.step \in Nat
      BY FuzzFacts
    <2> HIDE DEF rx, ry
    <2> QED BY <2>2, <2>3, <2>4
  <1>2. place[p] = place[q] => p = q
    BY DEF Numbering
  <1>3. /\ m.pts[p] \in Int /\ m.pts[q] \in Int
        /\ place[p] \in Nat /\ place[q] \in Nat
    BY StampOfPlace
  <1>4. place[p] < place[q] => m.pts[p] < m.pts[q]
    BY <1>1
  <1>5. place[q] < place[p] => m.pts[q] < m.pts[p]
    BY <1>1
  <1> QED BY <1>2, <1>3, <1>4, <1>5

\* Every place of the movie is taken.
LEMMA PlaceTaken ==
  ASSUME NEW m \in Movies, NEW place \in [Packets(m) -> 0 .. Len(m.pts) - 1],
         Numbering(m, place), NEW n \in 0 .. Len(m.pts) - 1
  PROVE  \E p \in Packets(m) : place[p] = n
  <1> DEFINE S == Packets(m)
             T == 0 .. Len(m.pts) - 1
  <1>0. Len(m.pts) \in Nat /\ S = 1 .. Len(m.pts)
    BY MovieFacts
  <1>1. place \in Injection(S, T)
    BY DEF Numbering, Injection, IsInjective
  <1>2. IsFiniteSet(S) /\ Cardinality(S) = Len(m.pts)
        /\ IsFiniteSet(T) /\ Cardinality(T) = Len(m.pts)
    <2> DEFINE len == Len(m.pts)
    <2> HIDE DEF len
    <2>1. len \in Nat /\ 0 \in Int /\ 1 \in Int /\ len - 1 \in Int
      BY <1>0 DEF len
    <2>2. IsFiniteSet(1 .. len) /\ IsFiniteSet(0 .. len - 1)
          /\ Cardinality(1 .. len) = (IF 1 > len THEN 0 ELSE len - 1 + 1)
          /\ Cardinality(0 .. len - 1) =
               (IF 0 > len - 1 THEN 0 ELSE len - 1 - 0 + 1)
      BY <2>1, FS_Interval
    <2>3. Cardinality(1 .. len) = len /\ Cardinality(0 .. len - 1) = len
      BY <2>1, <2>2
    <2>4. S = 1 .. len /\ T = 0 .. len - 1
      BY <1>0 DEF len
    <2> QED BY <2>2, <2>3, <2>4 DEF len
  <1>3. place \in Surjection(S, T)
    <2> HIDE DEF S, T
    <2> QED BY <1>1, <1>2, FS_Injection
  <1> QED BY <1>3 DEF Surjection

\* Among the frames of the movie, the frame of a packet has the rank that its
\* place says.
LEMMA RankIsPlace ==
  ASSUME NEW m \in Movies, NEW place \in [Packets(m) -> 0 .. Len(m.pts) - 1],
         Numbering(m, place), NEW p \in Packets(m)
  PROVE  Cardinality({t \in TimesOf(m) : t < m.pts[p]}) = place[p]
  <1> DEFINE n == place[p]
             S == {t \in TimesOf(m) : t < m.pts[p]}
             packet(i) == CHOOSE q \in Packets(m) : place[q] = i
             f == [i \in 0 .. n - 1 |-> m.pts[packet(i)]]
  <1>0. n \in Nat /\ n \in 0 .. Len(m.pts) - 1 /\ Len(m.pts) \in Nat
    BY StampOfPlace, MovieFacts
  <1>1. ASSUME NEW i \in 0 .. n - 1
        PROVE  packet(i) \in Packets(m) /\ place[packet(i)] = i
    <2>1. i \in 0 .. Len(m.pts) - 1
      <3> HIDE DEF n
      <3> QED BY <1>0
    <2> QED BY <2>1, PlaceTaken
  <1> HIDE DEF packet
  <1>2. ASSUME NEW i \in 0 .. n - 1
        PROVE  f[i] \in S
    <2>1. m.pts[packet(i)] < m.pts[p]
      <3>1. place[packet(i)] < place[p]
        BY <1>0, <1>1
      <3> QED BY <1>1, <3>1, PlaceOrder
    <2> QED BY <1>1, <2>1 DEF TimesOf
  <1>3. ASSUME NEW t \in S
        PROVE  \E i \in 0 .. n - 1 : f[i] = t
    <2>1. PICK q \in Packets(m) : t = m.pts[q]
      BY DEF TimesOf
    <2>2. place[q] < place[p] /\ place[q] \in Nat
      BY <2>1, PlaceOrder
    <2>3. place[q] \in 0 .. n - 1
      BY <1>0, <2>2
    <2>4. packet(place[q]) = q
      BY <1>1, <2>3 DEF Numbering
    <2>5. f[place[q]] = t
      BY <2>1, <2>3, <2>4
    <2> QED BY <2>3, <2>5
  <1>4. ASSUME NEW i \in 0 .. n - 1, NEW j \in 0 .. n - 1, f[i] = f[j]
        PROVE  i = j
    <2>1. m.pts[packet(i)] = m.pts[packet(j)]
      BY <1>4
    <2>2. place[packet(i)] = place[packet(j)]
      <3>1. packet(i) \in Packets(m) /\ packet(j) \in Packets(m)
        BY <1>1
      <3>2. ~(place[packet(i)] < place[packet(j)])
            /\ ~(place[packet(j)] < place[packet(i)])
            /\ place[packet(i)] \in Nat /\ place[packet(j)] \in Nat
        BY <2>1, <3>1, PlaceOrder
      <3> QED BY <3>2
    <2> QED BY <1>1, <2>2
  <1>5. f \in Bijection(0 .. n - 1, S)
    <2>1. f \in [0 .. n - 1 -> S]
      <3> HIDE DEF S, n
      <3> QED BY <1>2
    <2>2. \A i, j \in 0 .. n - 1 : f[i] = f[j] => i = j
      BY <1>4
    <2> HIDE DEF f, S, n
    <2> QED BY <2>1, <2>2, <1>3
            DEF Bijection, Injection, Surjection, IsInjective
  <1>6. ExistsBijection(0 .. n - 1, S)
    <2> HIDE DEF f, S, n
    <2> QED BY <1>5 DEF ExistsBijection
  <1>7. IsFiniteSet(0 .. n - 1) /\ Cardinality(0 .. n - 1) = n
    <2> HIDE DEF n
    <2>1. 0 \in Int /\ n - 1 \in Int
      BY <1>0
    <2>2. Cardinality(0 .. n - 1) = IF 0 > n - 1 THEN 0 ELSE n - 1 - 0 + 1
      BY <2>1, FS_Interval
    <2>3. IsFiniteSet(0 .. n - 1)
      BY <2>1, FS_Interval
    <2> QED BY <1>0, <2>2, <2>3
  <1>8. Cardinality(S) = Cardinality(0 .. n - 1)
    <2> HIDE DEF S, n
    <2> QED BY <1>6, <1>7, FS_Bijection
  <1> QED BY <1>7, <1>8

-----------------------------------------------------------------------------
(* Where the table leads.                                                  *)

\* The entry of the keyframe that entry k of the table leads to: one that
\* comes out of the decoder in time, and the last of those that pass 3 looks
\* at.
LEMMA LeadingKeyframe ==
  ASSUME Init, NEW garbage, garbage \in Garbage(movie),
         fidx = SeekTable(Entries(movie, want_noindex, garbage), fcnt,
                          PassInterval(movie, want_noindex)),
         NEW k \in 0 .. fcnt - 1
  PROVE  LET entries == Entries(movie, want_noindex, garbage)
             last == k + 2 + PassInterval(movie, want_noindex)
             ts == fidx[k].timestamp
         IN  \E kfi \in -1 .. fcnt - 1 :
               /\ kfi < 0 => fidx[k].seekpts = 0
               /\ kfi >= 0 => /\ fidx[k].seekpts = entries[kfi].pkt_pts
                              /\ entries[kfi].key
                              /\ entries[kfi].frame_pts <= ts
               /\ \A i \in 0 .. fcnt - 1 :
                    i <= last /\ entries[i].key /\ entries[i].frame_pts <= ts
                      => i <= kfi
  <1> DEFINE entries == Entries(movie, want_noindex, garbage)
             interval == PassInterval(movie, want_noindex)
             ts == fidx[k].timestamp
             last == Min({fcnt - 1, k + 2 + interval})
             kfi == KeyframeLookup(entries, last, ts)
  <1>1. fcnt \in Nat /\ interval \in Nat
    BY CountType, PassIntervalType DEF Init
  <1>2. fidx[k].timestamp = entries[k].timestamp
        /\ fidx[k].seekpts = IF kfi < 0 THEN 0 ELSE entries[kfi].pkt_pts
    BY DEF SeekTable
  <1>3. last \in Int /\ last <= fcnt - 1 /\ -1 <= last
        /\ \A i \in 0 .. fcnt - 1 : i <= k + 2 + interval => i <= last
    <2> HIDE DEF interval
    <2>1. fcnt - 1 \in Int /\ k + 2 + interval \in Nat
      BY <1>1
    <2>2. last = IF fcnt - 1 <= k + 2 + interval THEN fcnt - 1
                 ELSE k + 2 + interval
      BY <2>1, MinOfTwo
    <2> HIDE DEF last
    <2> QED BY <1>1, <2>1, <2>2
  <1>4. /\ kfi \in -1 .. last
        /\ kfi >= 0 => entries[kfi].key /\ entries[kfi].frame_pts <= ts
        /\ \A i \in 0 .. last :
             entries[i].key /\ entries[i].frame_pts <= ts => i <= kfi
    <2> HIDE DEF entries, last, ts
    <2> QED BY <1>3, LookupType
  <1>5. \A i \in 0 .. fcnt - 1 : i <= k + 2 + interval => i \in 0 .. last
    <2> HIDE DEF last, interval
    <2> QED BY <1>1, <1>3
  <1>6. kfi \in -1 .. fcnt - 1
    <2> HIDE DEF kfi, last
    <2> QED BY <1>1, <1>3, <1>4
  <1> HIDE DEF kfi, last, ts, entries, interval
  <1>7. /\ kfi < 0 => fidx[k].seekpts = 0
        /\ kfi >= 0 => /\ fidx[k].seekpts = entries[kfi].pkt_pts
                       /\ entries[kfi].key
                       /\ entries[kfi].frame_pts <= ts
        /\ \A i \in 0 .. fcnt - 1 :
             i <= k + 2 + interval /\ entries[i].key
               /\ entries[i].frame_pts <= ts => i <= kfi
    BY <1>1, <1>2, <1>4, <1>5, <1>6
  <1> QED BY <1>6, <1>7 DEF entries, interval, ts

\* A movie that was scanned without complaint.
Clean(m) == m.bad = {} /\ Len(m.pts) <= m.frames

\* Such a movie has one entry for each packet.
LEMMA CleanCount ==
  ASSUME NEW m \in Movies, Clean(m), NEW noindex \in BOOLEAN,
         ~DirectMode(m, noindex)
  PROVE  EntryCount(m, noindex) = Entered(m) /\ Entered(m) = Len(m.pts)
  <1>0. Len(m.pts) \in Nat /\ m.frames \in Nat
    BY MovieFacts
  <1> DEFINE n == Len(m.pts)
  <1> HIDE DEF n
  <1>1. n \in Nat /\ m.frames \in Nat /\ n <= m.frames
    BY <1>0 DEF n, Clean
  <1>2. Entered(m) = n
    BY <1>1, MinOfTwo DEF Entered, n
  <1>3. EntryCount(m, noindex) = n + (IF n > m.frames THEN 1 ELSE 0)
    BY <1>2 DEF EntryCount, n
  <1>4. EntryCount(m, noindex) = n
    BY <1>1, <1>3
  <1> QED BY <1>2, <1>4 DEF n

\* What a keyframe of pass 2 is, in a movie without complaint.
LEMMA VerifiedKeyframe ==
  ASSUME NEW m \in Movies, Clean(m), NEW garbage,
         NEW noindex \in BOOLEAN, ~DirectMode(m, noindex),
         NEW i \in 0 .. EntryCount(m, noindex) - 1
  PROVE  LET e == Entries(m, noindex, garbage)[i]
             p == i + 1
         IN  /\ p \in Packets(m)
             /\ e.key <=> m.key[p] /\ p + m.delay <= Len(m.pts)
             /\ e.pkt_pts = m.pts[p]
             /\ e.key => /\ e.frame_pts = FirstDecoded(m, p)
                         /\ \E r \in p .. p + m.delay :
                              r \in Packets(m) /\ e.frame_pts = m.pts[r]
                         /\ \A r \in p .. p + m.delay : e.frame_pts <= m.pts[r]
             /\ e.timestamp = Rescale(m, i)
  <1> DEFINE p == i + 1
             reach == p .. p + m.delay
             e == Entries(m, noindex, garbage)[i]
             S == {m.pts[q] : q \in reach}
  <1>0. /\ Len(m.pts) \in Nat /\ Packets(m) = 1 .. Len(m.pts) /\ m.frames \in Nat
        /\ m.delay \in Nat /\ m.bad = {}
    BY MovieFacts DEF Clean
  <1>1. EntryCount(m, noindex) = Entered(m) /\ Entered(m) = Len(m.pts)
    BY CleanCount
  <1>2. p \in Packets(m) /\ p \in Int /\ i < Entered(m)
    BY <1>0, <1>1
  <1>3. e = Verified(m, i)
    BY <1>2 DEF Entries
  <1>4. reach \subseteq Packets(m) <=> p + m.delay <= Len(m.pts)
    BY <1>0, <1>2
  <1>5. e = [pkt_pts   |-> m.pts[p],
             key       |-> /\ m.key[p]
                           /\ reach \subseteq Packets(m) \/ reach \cap m.bad # {},
             frame_pts |-> IF m.key[p] /\ reach \subseteq Packets(m) \ m.bad
                             THEN FirstDecoded(m, p) ELSE -1,
             timestamp |-> Rescale(m, i)]
    BY <1>3 DEF Verified
  <1>6. /\ e.pkt_pts = m.pts[p] /\ e.timestamp = Rescale(m, i)
        /\ e.key <=> m.key[p] /\ reach \subseteq Packets(m)
        /\ e.frame_pts = IF m.key[p] /\ reach \subseteq Packets(m) \ m.bad
                           THEN FirstDecoded(m, p) ELSE -1
    <2> HIDE DEF p, reach, e
    <2>1. m.key[p] \in BOOLEAN
      BY <1>2, MovieFacts
    <2>2. reach \cap m.bad = {}
      BY <1>0
    <2> QED BY <1>5, <2>1, <2>2
  <1>7. Packets(m) \ m.bad = Packets(m)
    BY <1>0
  <1>8. ASSUME reach \subseteq Packets(m)
        PROVE  /\ \E r \in reach : FirstDecoded(m, p) = m.pts[r]
               /\ \A r \in reach : FirstDecoded(m, p) <= m.pts[r]
    <2>1. S \subseteq TimesOf(m) /\ m.pts[p] \in S
      <3>1. p \in reach
        BY <1>0, <1>2
      <3>2. S \subseteq TimesOf(m)
        BY <1>8 DEF TimesOf
      <3> QED BY <3>1, <3>2
    <2>2. Min(S) \in S /\ \A t \in S : Min(S) <= t
      <3> HIDE DEF S
      <3> QED BY <2>1, MinOfTimes
    <2>3. FirstDecoded(m, p) = Min(S)
      BY DEF FirstDecoded
    <2> QED BY <2>2, <2>3
  <1> HIDE DEF reach
  <1>9. e.key => /\ e.frame_pts = FirstDecoded(m, p)
                 /\ \E r \in reach : r \in Packets(m) /\ e.frame_pts = m.pts[r]
                 /\ \A r \in reach : e.frame_pts <= m.pts[r]
    BY <1>6, <1>7, <1>8
  <1> QED BY <1>2, <1>4, <1>6, <1>9 DEF reach

\* Where av_seek_frame goes for an entry of the table, something is ahead that
\* is not behind the entry.
TableLeads ==
  Orderly(movie) /\ Clean(movie) =>
    \A k \in 0 .. fcnt - 1 :
      k < movie.frames =>
        \A p \in SeekPositions(movie, fidx[k].seekpts) :
          \/ p \in {0, 1}
          \/ \E r \in p .. Len(movie.pts) : movie.pts[r] <= fidx[k].timestamp

\* A seek for the time stamp of a keyframe finds that keyframe.
LEMMA SeekFindsKeyframe ==
  ASSUME NEW m \in Movies, Orderly(m), NEW q \in Packets(m), m.key[q],
         NEW p \in SeekPositions(m, m.pts[q])
  PROVE  p = q
  <1>0. Packets(m) = 1 .. Len(m.pts) /\ Len(m.pts) \in Nat /\ m.pts[q] \in Int
    BY MovieFacts
  <1>1. q \in KeyframesUpTo(m, m.pts[q])
    BY <1>0 DEF KeyframesUpTo
  <1>2. p # 0
    <2> SUFFICES ASSUME p = 0 PROVE FALSE
      OBVIOUS
    <2>1. p = Max(KeyframesUpTo(m, m.pts[q]))
      BY <1>1 DEF SeekPositions
    <2>2. KeyframesUpTo(m, m.pts[q]) \subseteq Int /\ Len(m.pts) \in Int
          /\ \A x \in KeyframesUpTo(m, m.pts[q]) : 1 <= x /\ x <= Len(m.pts)
      BY <1>0 DEF KeyframesUpTo
    <2>3. p \in KeyframesUpTo(m, m.pts[q])
      BY <1>1, <2>1, <2>2, MaxOf
    <2> QED BY <2>2, <2>3
  <1>3. p \in Packets(m) /\ m.key[p] /\ m.pts[p] <= m.pts[q] /\ q <= p
    BY <1>1, <1>2, SeekPosition DEF KeyframesUpTo
  <1>4. CASE q < p
    <2>1. q \in 1 .. p - 1 /\ p \in p .. Len(m.pts)
      BY <1>0, <1>3, <1>4
    <2>2. m.pts[q] < m.pts[p]
      BY <1>3, <2>1 DEF Orderly
    <2>3. m.pts[p] \in Int
      BY <1>3, MovieFacts
    <2> QED BY <1>0, <1>3, <2>2, <2>3
  <1> QED BY <1>0, <1>3, <1>4

LEMMA TableLeadsInit == Init => TableLeads
  <1> SUFFICES ASSUME Init, Orderly(movie), Clean(movie),
                      NEW k \in 0 .. fcnt - 1, k < movie.frames,
                      NEW p \in SeekPositions(movie, fidx[k].seekpts),
                      p # 0, p # 1
               PROVE  \E r \in p .. Len(movie.pts) :
                        movie.pts[r] <= fidx[k].timestamp
    BY DEF TableLeads
  <1> DEFINE ts == fidx[k].timestamp
  <1>0. /\ movie \in Movies /\ want_noindex \in BOOLEAN
        /\ fcnt = EntryCount(movie, want_noindex)
    BY DEF Init
  <1>1. ts \in Nat
    BY InitInv, Stamps
  <1>2. PICK garbage \in Garbage(movie) :
          fidx = SeekTable(Entries(movie, want_noindex, garbage), fcnt,
                           PassInterval(movie, want_noindex))
    BY DEF Init
  <1> DEFINE entries == Entries(movie, want_noindex, garbage)
  <1>3. PICK kfi \in -1 .. fcnt - 1 :
          /\ kfi < 0 => fidx[k].seekpts = 0
          /\ kfi >= 0 => /\ fidx[k].seekpts = entries[kfi].pkt_pts
                         /\ entries[kfi].key
                         /\ entries[kfi].frame_pts <= ts
    BY <1>2, LeadingKeyframe
  <1>4. p \in Packets(movie) /\ p \in p .. Len(movie.pts)
        /\ movie.pts[p] \in Int /\ movie.pts[p] <= fidx[k].seekpts
    <2>1. p \in Packets(movie) /\ p \in KeyframesUpTo(movie, fidx[k].seekpts)
      BY <1>0, SeekPosition
    <2> QED BY <1>0, <2>1, MovieFacts DEF KeyframesUpTo
  <1>5. fcnt \in Nat
    BY <1>0, CountType
  <1> HIDE DEF ts
  <1>6. CASE kfi < 0
    BY <1>1, <1>3, <1>4, <1>6 DEF ts
  <1>7. CASE kfi >= 0 /\ DirectMode(movie, want_noindex)
    <2>1. kfi \in 0 .. fcnt - 1
      BY <1>5, <1>7
    <2>2. entries[kfi] = Computed(movie, want_noindex, kfi)
      BY <1>0, <1>7, <2>1 DEF Entries
    <2>3. entries[kfi].pkt_pts = entries[kfi].frame_pts
      BY <2>2 DEF Computed
    <2>4. entries[kfi].pkt_pts \in Int
      BY <1>0, <2>1, EntriesType DEF EntryType
    <2>5. movie.pts[p] <= ts
      <3> HIDE DEF entries
      <3> QED BY <1>1, <1>3, <1>4, <1>7, <2>3, <2>4
    <2> QED BY <1>4, <2>5 DEF ts
  <1>8. CASE kfi >= 0 /\ ~DirectMode(movie, want_noindex)
    <2> DEFINE q == kfi + 1
    <2>1. kfi \in 0 .. EntryCount(movie, want_noindex) - 1
      BY <1>0, <1>5, <1>8
    <2>2. /\ q \in Packets(movie)
          /\ entries[kfi].key => movie.key[q]
          /\ entries[kfi].pkt_pts = movie.pts[q]
          /\ entries[kfi].key => \E r \in q .. q + movie.delay :
                              r \in Packets(movie) /\ entries[kfi].frame_pts = movie.pts[r]
      BY <1>0, <1>8, <2>1, VerifiedKeyframe
    <2>3. movie.key[q] /\ fidx[k].seekpts = movie.pts[q]
      BY <1>3, <1>8, <2>2
    <2>4. p = q
      <3> HIDE DEF q
      <3> QED BY <1>0, <2>2, <2>3, SeekFindsKeyframe
    <2>5. PICK r \in q .. q + movie.delay :
            r \in Packets(movie) /\ entries[kfi].frame_pts = movie.pts[r]
      BY <1>3, <1>8, <2>2
    <2>6. r \in p .. Len(movie.pts)
      <3>1. Packets(movie) = 1 .. Len(movie.pts) /\ Len(movie.pts) \in Nat
            /\ movie.delay \in Nat
        BY <1>0, MovieFacts
      <3> HIDE DEF q
      <3> QED BY <1>4, <2>2, <2>4, <2>5, <3>1
    <2> QED BY <1>3, <1>8, <2>5, <2>6 DEF ts
  <1> QED BY <1>3, <1>5, <1>6, <1>7, <1>8

LEMMA TableLeadsStays ==
  ASSUME TableLeads, [Next]_vars
  PROVE  TableLeads'
  <1>1. UNCHANGED <<optVars, tableVars>>
    BY TableStays
  <1> QED BY <1>1 DEF TableLeads, optVars, tableVars

-----------------------------------------------------------------------------
(* The frame that is shown is the one asked for.                           *)

\* The numbering of the frames of the movie that is open.
Place == CHOOSE place \in [Packets(movie) -> 0 .. Len(movie.pts) - 1] :
           Numbering(movie, place)

\* The seek table counts from the first frame number of the file, unless it
\* was computed for a file that starts later.
CountsFromStart == movie.start = 0 \/ ~DirectMode(movie, want_noindex)

Regular == Orderly(movie) /\ Steady(movie) /\ CountsFromStart

\* The frame of entry k of the table.
FrameOf(pts, k) ==
  \E p \in Packets(movie) : pts = movie.pts[p] /\ movie.start + Place[p] = k

\* While seek_frame reads, the frame that it looks for is still to come; when
\* it is done the frame it remembers is the one decoded last, and the one
\* shown if it has succeeded.
LooksFor ==
  pc = "reading" /\ Clean(movie) =>
    \A pts \in TimesOf(movie) : FrameOf(pts, framenumber) => pts \in Upcoming
Remembers ==
  pc = "idle" /\ last_decoded_pts >= 0 => FrameOf(pFrame, last_decoded_frameno)
Shows ==
  Succeeded => last_decoded_pts >= 0 /\ last_decoded_frameno = framenumber
AsksFor ==
  pc = "reading" \/ Succeeded => framenumber = Asked(request)

FrameInv == /\ TableLeads /\ Shows /\ AsksFor
            /\ Regular => LooksFor /\ Remembers

LEMMA PlaceIsOne ==
  ASSUME movie \in Movies, Steady(movie)
  PROVE  /\ Place \in [Packets(movie) -> 0 .. Len(movie.pts) - 1]
         /\ Numbering(movie, Place)
BY Zenon DEF Steady, Place

\* The time stamp of the entry that a frame of the movie is looked up in.
LEMMA EntryStamp ==
  ASSUME SeekInv, CountsFromStart, NEW k \in 0 .. fcnt - 1, k < movie.frames
  PROVE  /\ fidx[k].timestamp = Rescale(movie, k)
         /\ fidx[k].timestamp \in Nat /\ k \in Nat
  <1>1. movie \in Movies /\ fcnt \in Nat
    BY DEF SeekInv
  <1>2. Base = 0
    BY DEF Base, CountsFromStart
  <1>3. 0 + k = k /\ k \in Nat
    BY <1>1
  <1>4. fidx[k].timestamp = Rescale(movie, Base + k)
    BY DEF SeekInv, Stamped
  <1> QED BY <1>2, <1>3, <1>4, Stamps

\* A frame that is not too early nor too late for entry k, and in front of all
\* others that are to come, is the frame of entry k.
LEMMA AcceptedFrame ==
  ASSUME TypeOK, SeekInv, Regular, LooksFor, pc = "reading",
         NEW pts \in Upcoming, \A u \in Upcoming : pts <= u,
         ~(pts + Fuzz < fidx[framenumber].timestamp),
         pts - fidx[framenumber].timestamp < movie.step
  PROVE  FrameOf(pts, framenumber)
  <1> DEFINE k == framenumber
             m == movie
             fuzz == FuzzOf(movie)
  <1>0. m \in Movies /\ k \in 0 .. fcnt - 1 /\ k < m.frames
    BY DEF SeekInv, Reading
  <1>1. Place \in [Packets(m) -> 0 .. Len(m.pts) - 1] /\ Numbering(m, Place)
    BY <1>0, PlaceIsOne DEF Regular
  <1>2. fidx[k].timestamp = Rescale(m, k) /\ Rescale(m, k) \in Nat /\ k \in Nat
    BY <1>0, EntryStamp DEF Regular
  <1>3. PICK p \in Packets(m) : pts = m.pts[p]
    BY UpcomingTimes DEF TimesOf
  <1> DEFINE n == m.start + Place[p]
             rn == Rescale(m, n)
             rk == Rescale(m, k)
  <1>4. /\ Place[p] \in Nat /\ n \in Nat /\ pts \in Int /\ rn \in Int
        /\ pts <= rn + fuzz /\ rn <= pts + fuzz
    BY <1>0, <1>1, <1>3, StampOfPlace
  <1>5. fuzz \in {0, 1} /\ fuzz + fuzz < m.step /\ m.step \in Nat /\ Fuzz = fuzz
    BY <1>0, FuzzFacts DEF Fuzz
  <1>6. pts + fuzz >= rk /\ pts < rk + m.step
    <2>1. ~(pts + fuzz < rk) /\ pts - rk < m.step
      BY <1>2, <1>5
    <2> HIDE DEF rk, fuzz, m
    <2>2. rk \in Int
      BY <1>2 DEF rk, m
    <2> QED BY <1>4, <1>5, <2>1, <2>2
  <1>7. CASE n < k
    <2>1. rn + m.step <= rk
      <3> HIDE DEF n
      <3>1. n \in Int /\ k \in Int /\ n < k
        BY <1>2, <1>4, <1>7
      <3> QED BY <1>0, <3>1, Gap
    <2> HIDE DEF n, rn, rk, m, fuzz
    <2>2. rk \in Int
      BY <1>2 DEF rk, m
    <2> QED BY <1>4, <1>5, <1>6, <2>1, <2>2
  <1>8. CASE n > k
    <2>1. rk + m.step <= rn
      <3> HIDE DEF n
      <3>1. n \in Int /\ k \in Int /\ k < n
        BY <1>2, <1>4, <1>8
      <3> QED BY <1>0, <3>1, Gap
    <2>2. Late(m, p, Place[p]) < 0
      <3>1. Late(m, p, Place[p]) = pts - rn
        BY <1>3 DEF Late
      <3> HIDE DEF n, rn, rk, m, fuzz
      <3>2. rk \in Int
        BY <1>2 DEF rk, m
      <3>3. pts - rn < 0
        BY <1>4, <1>5, <1>6, <2>1, <3>2
      <3> QED BY <3>1, <3>3
    <2>3. Place[p] > 0 /\ Clean(m)
      BY <1>1, <2>2 DEF Numbering, Clean
    <2>4. n = k + 1
      <3> SUFFICES ASSUME k + 1 < n PROVE FALSE
        <4> HIDE DEF n
        <4> QED BY <1>2, <1>4, <1>8
      <3>1. rk + m.step + m.step <= rn
        <4> HIDE DEF n
        <4> QED BY <1>0, <1>2, <1>4, TwoGaps
      <3> HIDE DEF n, rn, rk, m, fuzz
      <3>2. rk \in Int
        BY <1>2 DEF rk, m
      <3> QED BY <1>4, <1>5, <1>6, <3>1, <3>2
    <2>5. Place[p] - 1 \in 0 .. Len(m.pts) - 1
      <3>1. Place[p] \in 0 .. Len(m.pts) - 1 /\ Len(m.pts) \in Nat
        BY <1>0, <1>1, MovieFacts
      <3> QED BY <2>3, <3>1
    <2>6. PICK q \in Packets(m) : Place[q] = Place[p] - 1
      BY <1>0, <1>1, <2>5, PlaceTaken
    <2>7. m.start + Place[q] = k
      <3>1. m.start \in Nat
        BY <1>0, MovieFacts
      <3> QED BY <1>2, <1>4, <2>4, <2>6, <3>1
    <2>8. m.pts[q] \in Upcoming
      <3>1. m.pts[q] \in TimesOf(m) /\ FrameOf(m.pts[q], k)
        BY <2>7 DEF TimesOf, FrameOf
      <3> QED BY <2>3, <3>1 DEF LooksFor
    <2>9. m.pts[q] < m.pts[p] /\ m.pts[q] \in Int /\ m.pts[p] \in Int
      <3>1. Place[q] < Place[p]
        BY <1>4, <2>6
      <3> QED BY <1>0, <1>1, <3>1, PlaceOrder
    <2> QED BY <1>3, <2>8, <2>9
  <1>9. CASE n = k
    BY <1>3, <1>9 DEF FrameOf
  <1> HIDE DEF n
  <1> QED BY <1>2, <1>4, <1>7, <1>8, <1>9

\* A frame that is too early for entry k is not the frame of entry k.
LEMMA EarlyFrame ==
  ASSUME TypeOK, SeekInv, Regular, pc = "reading",
         NEW pts \in TimesOf(movie),
         pts + Fuzz < fidx[framenumber].timestamp
  PROVE  ~FrameOf(pts, framenumber)
  <1> DEFINE k == framenumber
             m == movie
             fuzz == FuzzOf(movie)
  <1>0. m \in Movies /\ k \in 0 .. fcnt - 1 /\ k < m.frames
    BY DEF SeekInv, Reading
  <1>1. Place \in [Packets(m) -> 0 .. Len(m.pts) - 1] /\ Numbering(m, Place)
    BY <1>0, PlaceIsOne DEF Regular
  <1>2. fidx[k].timestamp = Rescale(m, k) /\ Rescale(m, k) \in Nat
    BY <1>0, EntryStamp DEF Regular
  <1>3. Fuzz = fuzz /\ fuzz \in {0, 1}
    BY <1>0, FuzzFacts DEF Fuzz
  <1> SUFFICES ASSUME NEW p \in Packets(m), pts = m.pts[p],
                      m.start + Place[p] = k
               PROVE  FALSE
    BY DEF FrameOf
  <1>4. pts \in Int /\ Rescale(m, k) <= pts + fuzz
    BY <1>0, <1>1, StampOfPlace
  <1>5. pts + fuzz < Rescale(m, k)
    BY <1>2, <1>3
  <1> HIDE DEF fuzz
  <1> QED BY <1>2, <1>3, <1>4, <1>5

\* Going on from the frame decoded last, the frame of a later entry is still
\* to come.
LEMMA AheadOfLast ==
  ASSUME TypeOK, SeekInv, Regular, DecodesInOrder, Remembers, pc = "idle",
         NEW k \in 0 .. fcnt - 1, k < movie.frames, ~NeedSeek(k),
         last_decoded_pts # fidx[k].timestamp,
         NEW pts \in TimesOf(movie), FrameOf(pts, k)
  PROVE  pts \in Upcoming
  <1>0. movie \in Movies /\ fcnt \in Nat
    BY DEF SeekInv
  <1>1. Place \in [Packets(movie) -> 0 .. Len(movie.pts) - 1]
        /\ Numbering(movie, Place)
    BY <1>0, PlaceIsOne DEF Regular
  <1>2. /\ last_decoded_pts \in Int /\ last_decoded_pts >= 0
        /\ ~(last_decoded_pts > fidx[k].timestamp)
    BY DEF NeedSeek, Nothing, Backwards, TypeOK
  <1>3. /\ last_decoded_frameno \in 0 .. fcnt - 1
        /\ last_decoded_frameno < movie.frames
        /\ last_decoded_pts = fidx[last_decoded_frameno].timestamp
    BY <1>2 DEF SeekInv, CacheAgrees
  <1>4. last_decoded_frameno < k
    <2>1. /\ fidx[k].timestamp \in Nat
          /\ last_decoded_frameno < k
               <=> last_decoded_pts < fidx[k].timestamp
      BY <1>3, Stamps
    <2> QED BY <1>2, <2>1
  <1>5. PICK p \in Packets(movie) :
          pFrame = movie.pts[p] /\ movie.start + Place[p] = last_decoded_frameno
    BY <1>2 DEF Remembers, FrameOf
  <1>6. PICK q \in Packets(movie) :
          pts = movie.pts[q] /\ movie.start + Place[q] = k
    BY DEF FrameOf
  <1>7. Place[p] < Place[q]
    <2>1. Place[p] \in Nat /\ Place[q] \in Nat /\ movie.start \in Nat
      BY <1>0, <1>1, PlaceOrder, MovieFacts
    <2>2. last_decoded_frameno \in Int /\ k \in Int
      BY <1>0, <1>3
    <2> QED BY <1>4, <1>5, <1>6, <2>1, <2>2
  <1>8. pFrame < pts /\ pFrame \in Int /\ pts \in Int
    BY <1>0, <1>1, <1>5, <1>6, <1>7, PlaceOrder
  <1>9. Upcoming = After(movie, pFrame)
    BY <1>2 DEF DecodesInOrder
  <1> QED BY <1>8, <1>9 DEF After

\* After a seek for entry k, its frame is still to come.
LEMMA AheadOfSeek ==
  ASSUME TypeOK, SeekInv, Regular, TableLeads, Clean(movie),
         NEW k \in 0 .. fcnt - 1, k < movie.frames,
         NEW p \in SeekPositions(movie, fidx[k].seekpts), p # 0,
         NEW pts \in TimesOf(movie), FrameOf(pts, k)
  PROVE  pts \in From(movie, p)
  <1> DEFINE m == movie
             fuzz == FuzzOf(movie)
  <1>0. m \in Movies /\ fcnt \in Nat
    BY DEF SeekInv
  <1>m. Packets(m) = 1 .. Len(m.pts) /\ Len(m.pts) \in Nat
    BY <1>0, MovieFacts
  <1>1. Place \in [Packets(m) -> 0 .. Len(m.pts) - 1] /\ Numbering(m, Place)
    BY <1>0, PlaceIsOne DEF Regular
  <1>2. PICK q \in Packets(m) : pts = m.pts[q] /\ m.start + Place[q] = k
    BY DEF FrameOf
  <1>3. CASE p = 1
    BY <1>m, <1>2, <1>3 DEF From
  <1>4. CASE p # 1
    <2>1. p \in Packets(m) /\ m.key[p]
      BY <1>0, <1>4, SeekPosition DEF KeyframesUpTo
    <2>2. PICK r \in p .. Len(m.pts) : m.pts[r] <= fidx[k].timestamp
      BY <1>4 DEF TableLeads, Regular
    <2>3. r \in Packets(m)
      BY <1>m, <2>1
    <2>4. CASE q < p
      <3>1. q \in 1 .. p - 1
        BY <1>m, <2>1, <2>4
      <3>2. m.pts[q] < m.pts[r]
        BY <2>1, <3>1 DEF Regular, Orderly
      <3>3. Place[q] < Place[r]
        BY <1>0, <1>1, <2>3, <3>2, PlaceOrder
      <3> DEFINE n == m.start + Place[r]
                 rn == Rescale(m, n)
                 rk == Rescale(m, k)
      <3>4. /\ n \in Nat /\ m.pts[r] \in Int /\ rn \in Int
            /\ rn <= m.pts[r] + fuzz
        BY <1>0, <1>1, <2>3, StampOfPlace
      <3>5. k < n
        <4>1. m.start \in Nat /\ Place[q] \in Nat /\ Place[r] \in Nat
          BY <1>0, <1>1, <2>3, PlaceOrder, MovieFacts
        <4> QED BY <1>2, <3>3, <4>1
      <3>6. fidx[k].timestamp = rk /\ rk \in Nat /\ k \in Nat
        BY EntryStamp DEF Regular
      <3>7. rk + m.step <= rn
        <4> HIDE DEF n
        <4>1. n \in Int /\ k \in Int /\ k < n
          BY <3>4, <3>5, <3>6
        <4> QED BY <1>0, <4>1, Gap
      <3>8. fuzz \in {0, 1} /\ fuzz + fuzz < m.step /\ m.step \in Nat
        BY <1>0, FuzzFacts
      <3>9. m.pts[r] <= rk
        BY <2>2, <3>6
      <3> HIDE DEF n, rn, rk, fuzz, m
      <3> QED BY <3>4, <3>6, <3>7, <3>8, <3>9
    <2>5. CASE ~(q < p)
      <3>1. q \in p .. Len(m.pts)
        BY <1>m, <2>1, <2>5
      <3> QED BY <1>2, <3>1 DEF From
    <2> QED BY <2>4, <2>5
  <1> QED BY <1>3, <1>4

\* A frame comes out of the decoder while seek_frame looks for entry k.
LEMMA GotFrameShows ==
  ASSUME TypeOK, SeekInv, Regular, LooksFor, pc = "reading",
         UNCHANGED <<optVars, tableVars, request, framenumber>>,
         NEW pts \in Upcoming, \A u \in Upcoming : pts <= u,
         Upcoming' = Upcoming \ {pts}, NEW left, GotFrame(pts, left)
  PROVE  LooksFor' /\ Remembers'
  <1>0. movie' = movie /\ framenumber' = framenumber /\ Place' = Place
    BY DEF optVars, Place
  <1>1. pFrame' = pts /\ pts \in TimesOf(movie)
    BY UpcomingTimes DEF GotFrame
  <1> DEFINE ts == fidx[framenumber].timestamp
  <1>3. CASE pts + Fuzz < ts
    <2>1. pc' = "reading"
      BY <1>3 DEF GotFrame
    <2>2. ~FrameOf(pts, framenumber)
      BY <1>1, <1>3, EarlyFrame
    <2>3. \A t \in TimesOf(movie) :
            FrameOf(t, framenumber) /\ Clean(movie) => t \in Upcoming'
      BY <2>2 DEF LooksFor
    <2>4. \A t : FrameOf(t, framenumber)' => FrameOf(t, framenumber)
      BY <1>0 DEF FrameOf
    <2> QED BY <1>0, <2>1, <2>3, <2>4 DEF LooksFor, Remembers
  <1>4. CASE ~(pts + Fuzz < ts) /\ pts - ts < movie.step
    <2>1. pc' = "idle" /\ last_decoded_frameno' = framenumber
      BY <1>4 DEF GotFrame
    <2>2. FrameOf(pts, framenumber)
      BY <1>4, AcceptedFrame
    <2>3. FrameOf(pFrame, last_decoded_frameno)'
      BY <1>0, <1>1, <2>1, <2>2 DEF FrameOf
    <2> QED BY <2>1, <2>3 DEF LooksFor, Remembers
  <1>5. CASE ~(pts + Fuzz < ts) /\ ~(pts - ts < movie.step)
    BY <1>5 DEF GotFrame, FailWith, ForgetDecoded, LooksFor, Remembers
  <1> QED BY <1>3, <1>4, <1>5

LEMMA ShowsStep ==
  ASSUME TypeOK, SeekInv, DecoderHolds, Shows, AsksFor, [Next]_vars
  PROVE  Shows' /\ AsksFor'
  <1>0. UNCHANGED <<optVars, tableVars>> /\ movie' = movie
        /\ want_ignstart' = want_ignstart /\ fcnt \in Nat
    BY TableStays DEF TypeOK, optVars
  <1>a. ASSUME NEW n PROVE Asked(n)' = Asked(n)
    BY <1>0 DEF Asked
  <1>1. CASE pc' = "idle" /\ result' # 0
    BY <1>1 DEF Shows, AsksFor, Succeeded
  <1>2. ASSUME NEW n \in 0 .. movie.frames - 1, CallOutside(n)
        PROVE  Shows' /\ AsksFor'
    BY <1>1, <1>2 DEF CallOutside, FailWith
  <1>3. ASSUME NEW n \in 0 .. movie.frames - 1, CallAgain(n)
        PROVE  Shows' /\ AsksFor'
    <2>1. Asked(n) \in 0 .. fcnt - 1 /\ Asked(n) < movie.frames
      BY <1>3, AskedInside DEF CallAgain
    <2>2. last_decoded_frameno = Asked(n) /\ fidx[Asked(n)].timestamp \in Nat
      BY <1>3, <2>1, SameStampSameFrame, Stamps DEF CallAgain
    <2>3. /\ framenumber' = Asked(n) /\ request' = n
          /\ last_decoded_frameno' = Asked(n) /\ last_decoded_pts' \in Nat
          /\ pc' = "idle"
      BY <1>3, <2>2 DEF CallAgain, lastVars
    <2>4. framenumber' = Asked(request)'
      BY <2>3, <1>0 DEF Asked
    <2>5. last_decoded_pts' >= 0
      BY <2>3
    <2> QED BY <2>3, <2>4, <2>5 DEF Shows, AsksFor, Succeeded
  <1>4. ASSUME NEW n \in 0 .. movie.frames - 1, CallRead(n)
        PROVE  Shows' /\ AsksFor'
    <2>1. CASE EnterLoop(Asked(n))
      <3>1. pc' # "idle"
        BY <2>1 DEF EnterLoop
      <3>2. framenumber' = Asked(request)'
        BY <1>4, <1>0 DEF CallRead, Asked
      <3> QED BY <3>1, <3>2 DEF Shows, AsksFor, Succeeded
    <2>2. CASE FailWith(-3)
      BY <1>1, <2>2 DEF FailWith
    <2> QED BY <1>4, <2>1, <2>2 DEF CallRead
  <1>5. CASE Loop
    <2>0. pc = "reading" /\ UNCHANGED <<request, framenumber>>
      BY <1>5 DEF Loop, ReadDecode, AtEnd, PassOver, Drain, DrainAt, BailOut
    <2>1. /\ pc = "reading" /\ UNCHANGED <<request, framenumber>>
          /\ framenumber' = Asked(request)'
      BY <1>0, <2>0 DEF AsksFor, Asked
    <2>2. CASE \E pts, left : GotFrame(pts, left)
      <3>1. PICK pts, left : GotFrame(pts, left)
        BY <2>2
      <3>2. CASE pc' = "reading"
        BY <2>1, <3>2 DEF Shows, AsksFor, Succeeded
      <3>3. CASE /\ last_decoded_pts' = fidx[framenumber].timestamp
                 /\ last_decoded_frameno' = framenumber
        <4>1. last_decoded_pts' \in Nat
          BY <2>1, <3>3, Stamps DEF SeekInv, Reading
        <4>2. last_decoded_pts' >= 0
          BY <4>1
        <4> QED BY <2>1, <3>3, <4>2 DEF Shows, AsksFor, Succeeded
      <3> QED BY <1>1, <2>1, <3>1, <3>2, <3>3 DEF GotFrame, FailWith
    <2>3. CASE pc' = pc /\ result' = result
      BY <2>1, <2>3 DEF Shows, AsksFor, Succeeded
    <2>4. CASE \E err \in {-1, -5, -7, -10} : FailWith(err)
      BY <1>1, <2>4 DEF FailWith
    <2> QED BY <1>5, <2>2, <2>3, <2>4
            DEF Loop, ReadDecode, PassOver, Drain, DrainAt, BailOut, NoFrameYet
  <1>6. CASE UNCHANGED vars
    BY <1>0, <1>6 DEF Shows, AsksFor, Succeeded, Asked, vars, callVars, lastVars, optVars
  <1> QED BY <1>2, <1>3, <1>4, <1>5, <1>6 DEF Next, Call

LEMMA LooksForStep ==
  ASSUME TypeOK, SeekInv, OrderInv, TableLeads, Regular, LooksFor, Remembers,
         [Next]_vars
  PROVE  LooksFor' /\ Remembers'
  <1>0. UNCHANGED <<optVars, tableVars>> /\ movie' = movie /\ Place' = Place
        /\ movie \in Movies /\ fcnt \in Nat
    BY TableStays DEF TypeOK, optVars, Place
  <1>o. DecodesInOrder /\ DecoderHolds /\ Orderly(movie)
    BY DEF OrderInv, Regular
  <1>f. ASSUME NEW k
        PROVE  \A pts : FrameOf(pts, k)' <=> FrameOf(pts, k)
    BY <1>0 DEF FrameOf
  <1>1. CASE pc' = "idle" /\ last_decoded_pts' = -1
    BY <1>1 DEF LooksFor, Remembers
  <1>2. ASSUME NEW n \in 0 .. movie.frames - 1, CallOutside(n)
        PROVE  LooksFor' /\ Remembers'
    BY <1>1, <1>2 DEF CallOutside, FailWith, ForgetDecoded
  <1>3. ASSUME NEW n \in 0 .. movie.frames - 1, CallAgain(n)
        PROVE  LooksFor' /\ Remembers'
    <2>1. pc = "idle" /\ pc' # "reading"
          /\ UNCHANGED <<last_decoded_pts, last_decoded_frameno, pFrame>>
      BY <1>3 DEF CallAgain, lastVars, libVars
    <2> QED BY <1>0, <2>1 DEF LooksFor, Remembers, FrameOf
  <1>4. ASSUME NEW n \in 0 .. movie.frames - 1, CallRead(n)
        PROVE  LooksFor' /\ Remembers'
    <2> DEFINE k == Asked(n)
    <2>1. k \in 0 .. fcnt - 1 /\ k < movie.frames /\ framenumber' = k
          /\ pc = "idle" /\ last_decoded_pts # fidx[k].timestamp
      BY <1>4, AskedInside DEF CallRead
    <2>2. CASE FailWith(-3)
      BY <1>1, <2>2 DEF FailWith, ForgetDecoded
    <2>3. ASSUME EnterLoop(k),
                 Clean(movie) => \A pts \in TimesOf(movie) :
                                   FrameOf(pts, k) => pts \in Upcoming'
          PROVE  LooksFor' /\ Remembers'
      <3>1. pc' # "idle"
        BY <2>3 DEF EnterLoop
      <3>2. \A pts : FrameOf(pts, framenumber)' => FrameOf(pts, k)
        BY <1>0, <2>1 DEF FrameOf
      <3> HIDE DEF k
      <3> QED BY <1>0, <2>3, <3>1, <3>2 DEF LooksFor, Remembers
    <2>4. CASE ~NeedSeek(k) /\ EnterLoop(k) /\ UNCHANGED <<pos, dec>>
      <3>1. Upcoming' = Upcoming
        BY <1>0, <2>4 DEF Upcoming
      <3>2. \A pts \in TimesOf(movie) : FrameOf(pts, k) => pts \in Upcoming
        <4> HIDE DEF k
        <4> QED BY <1>o, <2>1, <2>4, AheadOfLast
      <3> QED BY <2>3, <2>4, <3>1, <3>2
    <2>5. ASSUME NEW p \in SeekPositions(movie, fidx[k].seekpts), p # 0,
                 EnterLoop(k), AfterSeek(p)
          PROVE  LooksFor' /\ Remembers'
      <3>1. Upcoming' = From(movie, p)
        BY <1>0, <2>5 DEF Upcoming, AfterSeek
      <3>2. Clean(movie) => \A pts \in TimesOf(movie) :
                              FrameOf(pts, k) => pts \in From(movie, p)
        <4> HIDE DEF k
        <4> QED BY <2>1, <2>5, AheadOfSeek
      <3> QED BY <2>3, <2>5, <3>1, <3>2
    <2> QED BY <1>4, <2>2, <2>4, <2>5 DEF CallRead
  <1>5. CASE Loop
    <2>1. pc = "reading"
          /\ UNCHANGED <<optVars, tableVars, request, framenumber>>
      BY <1>5, <1>o, LoopStep
    <2>2. CASE UNCHANGED <<pc, result, lastVars, pFrame>> /\ Upcoming' = Upcoming
      BY <1>0, <2>1, <2>2 DEF LooksFor, Remembers, FrameOf
    <2>3. CASE \E pts \in Upcoming, left \in {bailout, bailout - 1} :
                 /\ \A u \in Upcoming : pts <= u
                 /\ Upcoming' = Upcoming \ {pts}
                 /\ GotFrame(pts, left)
      BY <2>1, <2>3, GotFrameShows
    <2> QED BY <1>1, <1>5, <1>o, <2>2, <2>3, LoopStep
  <1>6. CASE UNCHANGED vars
    BY <1>0, <1>6 DEF LooksFor, Remembers, FrameOf, Upcoming, vars, callVars,
                      lastVars, libVars
  <1> QED BY <1>2, <1>3, <1>4, <1>5, <1>6 DEF Next, Call

LEMMA FrameInit == Init => FrameInv
  <1> SUFFICES ASSUME Init PROVE FrameInv
    OBVIOUS
  <1>1. TableLeads
    BY TableLeadsInit
  <1>2. pc = "idle" /\ result = -1 /\ last_decoded_pts = -1
    BY DEF Init
  <1> QED BY <1>1, <1>2 DEF FrameInv, Shows, AsksFor, Succeeded, LooksFor, Remembers

LEMMA FrameStep ==
  TypeOK /\ SeekInv /\ OrderInv /\ FrameInv /\ [Next]_vars => FrameInv'
  <1> SUFFICES ASSUME TypeOK, SeekInv, OrderInv, FrameInv, [Next]_vars
               PROVE  FrameInv'
    OBVIOUS
  <1>1. TableLeads'
    BY TableLeadsStays DEF FrameInv
  <1>2. Shows' /\ AsksFor'
    BY ShowsStep DEF FrameInv, OrderInv
  <1>3. Regular' => Regular
    BY TableStays DEF Regular, CountsFromStart, optVars
  <1>4. Regular => LooksFor' /\ Remembers'
    BY LooksForStep DEF FrameInv
  <1> QED BY <1>1, <1>2, <1>3, <1>4 DEF FrameInv

\* After any history of successful and failed seeks, in any direction, what
\* seek_frame shows is the frame that was asked for (xjadeo.c:516-680): in
\* every movie of any length whose frames are in order and at a constant
\* rate, with time stamps that are off by no more than prefuzz allows.
THEOREM FrameShownIsAsked ==
  Spec => [](Orderly(movie) /\ Steady(movie) => FrameIsTheOneAsked)
  <1>1. TypeOK /\ SeekInv /\ OrderInv /\ FrameInv
          => (Orderly(movie) /\ Steady(movie) => FrameIsTheOneAsked)
    <2> SUFFICES ASSUME TypeOK, SeekInv, OrderInv, FrameInv, Orderly(movie),
                        Steady(movie), Succeeded, CountsFromStart
                 PROVE  pFrame \in Times /\ Rank(pFrame) = Wanted(request)
      BY DEF FrameIsTheOneAsked, CountsFromStart
    <2>0. movie \in Movies /\ request \in Int
          /\ Place \in [Packets(movie) -> 0 .. Len(movie.pts) - 1]
          /\ Numbering(movie, Place)
      <3>1. movie.frames \in Nat /\ request \in -1 .. movie.frames - 1
            /\ movie \in Movies
        BY MovieType DEF TypeOK
      <3> QED BY <3>1, PlaceIsOne
    <2>1. FrameOf(pFrame, Asked(request))
      BY DEF FrameInv, Regular, Remembers, Shows, AsksFor, Succeeded
    <2>2. PICK p \in Packets(movie) :
            pFrame = movie.pts[p] /\ movie.start + Place[p] = Asked(request)
      BY <2>1 DEF FrameOf
    <2>3. Cardinality({t \in TimesOf(movie) : t < pFrame}) = Place[p]
      BY <2>0, <2>2, RankIsPlace
    <2>4. Rank(pFrame) = Place[p]
      BY <2>3 DEF Rank, Times, TimesOf
    <2>5. movie.start \in Nat /\ Place[p] \in Nat
      BY <2>0, StampOfPlace, MovieFacts
    <2>6. Wanted(request) = Place[p]
      <3> DEFINE place == Place[p]
      <3> HIDE DEF place
      <3>1. movie.start + place = Asked(request) /\ place \in Nat
        BY <2>2, <2>5 DEF place
      <3>2. Wanted(request) = place
        BY <2>0, <2>5, <3>1 DEF Wanted, Asked
      <3> QED BY <3>2 DEF place
    <2> QED BY <2>2, <2>4, <2>6 DEF Times
  <1> QED BY <1>1, InitInv, SeekStep, TypeInit, TypeStep, OrderInit, OrderStep,
             FrameInit, FrameStep, PTL DEF Spec

-----------------------------------------------------------------------------
(* Every frame is found, and in time.                                      *)

LEMMA GroupStartFacts ==
  ASSUME NEW m \in Movies, NEW p \in Packets(m)
  PROVE  /\ GroupStart(m, p) \in 1 .. p
         /\ GroupStart(m, p) = 1 \/ Kept(m, GroupStart(m, p))
         /\ \A q \in 1 .. p : Kept(m, q) => q <= GroupStart(m, p)
  <1> DEFINE S == {1} \cup {q \in 1 .. p : Kept(m, q)}
  <1>1. p \in Int /\ 1 <= p
    BY MovieFacts
  <1>2. S \subseteq Int /\ S # {} /\ \A x \in S : 1 <= x /\ x <= p
    BY <1>1
  <1>3. Max(S) \in S /\ \A x \in S : x <= Max(S)
    <2> HIDE DEF S
    <2> QED BY <1>1, <1>2, MaxOf
  <1>4. GroupStart(m, p) = Max(S)
    BY DEF GroupStart
  <1>5. Max(S) \in 1 .. p
    <2> HIDE DEF S
    <2>1. Max(S) \in Int /\ 1 <= Max(S) /\ Max(S) <= p
      BY <1>2, <1>3
    <2> QED BY <1>1, <2>1
  <1>6. GroupStart(m, p) = 1 \/ Kept(m, GroupStart(m, p))
    BY <1>3, <1>4
  <1>7. \A q \in 1 .. p : Kept(m, q) => q <= Max(S)
    BY <1>3
  <1> HIDE DEF S
  <1> QED BY <1>4, <1>5, <1>6, <1>7

\* No packet is farther from the start of its group than the longest group.
LEMMA LongestGroupBound ==
  ASSUME NEW m \in Movies
  PROVE  /\ LongestGroup(m) \in Nat
         /\ \A p \in Packets(m) : p + 1 - GroupStart(m, p) <= LongestGroup(m)
         /\ 1 <= LongestGroup(m)
  <1> DEFINE S == {p + 1 - GroupStart(m, p) : p \in Packets(m)}
  <1>0. Len(m.pts) \in Nat \ {0} /\ Packets(m) = 1 .. Len(m.pts)
    BY MovieFacts
  <1>1. ASSUME NEW p \in Packets(m)
        PROVE  p + 1 - GroupStart(m, p) \in 1 .. Len(m.pts)
    <2> DEFINE g == GroupStart(m, p)
               n == Len(m.pts)
    <2>1. g \in 1 .. p
      BY GroupStartFacts
    <2>2. p \in 1 .. n /\ n \in Nat
      BY <1>0
    <2> HIDE DEF g, n
    <2>3. p + 1 - g \in 1 .. n
      BY <2>1, <2>2
    <2> QED BY <2>3 DEF g, n
  <1>2. S \subseteq 1 .. Len(m.pts)
    BY <1>1
  <1>3. S \subseteq Int /\ Len(m.pts) \in Int /\ \A x \in S : x <= Len(m.pts)
    <2> HIDE DEF S
    <2> QED BY <1>0, <1>2
  <1>4. 1 \in Packets(m) /\ S # {}
    <2>1. 1 \in Packets(m)
      BY <1>0
    <2>2. 1 + 1 - GroupStart(m, 1) \in S
      BY <2>1
    <2> QED BY <2>1, <2>2
  <1>5. Max(S) \in S /\ \A x \in S : x <= Max(S)
    <2> HIDE DEF S
    <2> QED BY <1>3, <1>4, MaxOf
  <1>6. LongestGroup(m) = Max(S)
    BY DEF LongestGroup
  <1>7. LongestGroup(m) \in 1 .. Len(m.pts)
    BY <1>2, <1>5, <1>6
  <1> QED BY <1>0, <1>5, <1>6, <1>7

\* The frames of packets p and later that are shown before that of packet q
\* are in the group of q, so that there are fewer of them than a group has.
LEMMA FewerThanAGroup ==
  ASSUME NEW m \in Movies, Orderly(m), NEW q \in Packets(m),
         NEW p \in Packets(m), GroupStart(m, q) <= p
  PROVE  LET S == {t \in From(m, p) : t < m.pts[q]}
         IN  Cardinality(S) \in Nat /\ Cardinality(S) + 1 <= LongestGroup(m)
  <1> DEFINE S == {t \in From(m, p) : t < m.pts[q]}
             first == GroupStart(m, q)
             G == LongestGroup(m)
             P == first .. first + G - 1
             T == S \cup {m.pts[q]}
  <1>0. Len(m.pts) \in Nat \ {0} /\ Packets(m) = 1 .. Len(m.pts)
        /\ \A r \in Packets(m) : m.pts[r] \in Int
    BY MovieFacts
  <1>1. G \in Nat /\ 1 <= G /\ first \in 1 .. q /\ q \in Int /\ p \in Int
    BY <1>0, LongestGroupBound, GroupStartFacts
  <1>2. ASSUME NEW r \in p .. Len(m.pts), m.pts[r] < m.pts[q]
        PROVE  r \in P
    <2>1. r \in Packets(m) /\ r \in Int
      BY <1>0
    <2>2. GroupStart(m, r) <= first
      <3> SUFFICES ASSUME ~(GroupStart(m, r) <= first) PROVE FALSE
        OBVIOUS
      <3> DEFINE c == GroupStart(m, r)
      <3>1. c \in 1 .. r /\ (c = 1 \/ Kept(m, c))
        BY <2>1, GroupStartFacts
      <3>2. Kept(m, c) /\ first < c /\ c \in Int
        BY <1>1, <2>1, <3>1
      <3>3. q < c
        <4> SUFFICES ASSUME ~(q < c) PROVE FALSE
          OBVIOUS
        <4>1. c \in 1 .. q
          BY <1>1, <3>1, <3>2
        <4>2. c <= first
          BY <3>2, <4>1, GroupStartFacts
        <4> QED BY <1>1, <3>2, <4>2
      <3>4. q \in 1 .. c - 1 /\ r \in c .. Len(m.pts) /\ c \in Packets(m)
            /\ m.key[c]
        BY <1>0, <2>1, <3>1, <3>2, <3>3 DEF Kept
      <3>5. m.pts[q] < m.pts[r]
        BY <3>4 DEF Orderly
      <3> QED BY <1>0, <1>2, <2>1, <3>5
    <2>3. r + 1 - GroupStart(m, r) <= G /\ GroupStart(m, r) \in Int
      BY <2>1, LongestGroupBound, GroupStartFacts
    <2> HIDE DEF G
    <2>4. first <= r /\ r <= first + G - 1
      BY <1>1, <2>1, <2>2, <2>3
    <2> QED BY <1>1, <2>1, <2>4
  <1>3. q \in P
    <2>1. q + 1 - first <= G
      BY LongestGroupBound
    <2> HIDE DEF G, first
    <2> QED BY <1>1, <2>1
  <1>4. \A t \in T : \E r \in P : t = m.pts[r]
    BY <1>2, <1>3 DEF From
  <1>5. IsFiniteSet(P) /\ Cardinality(P) = G
    <2> HIDE DEF G, first
    <2> DEFINE last == first + G - 1
    <2>1. first \in Int /\ last \in Int /\ G \in Int
      BY <1>1
    <2>2. IsFiniteSet(first .. last)
          /\ Cardinality(first .. last) =
               (IF first > last THEN 0 ELSE last - first + 1)
      <3> HIDE DEF last
      <3> QED BY <2>1, FS_Interval
    <2>3. (IF first > last THEN 0 ELSE last - first + 1) = G
      BY <1>1
    <2> QED BY <2>2, <2>3
  <1> DEFINE R == {r \in P : m.pts[r] \in T}
             g == [r \in R |-> m.pts[r]]
  <1>6. IsFiniteSet(R) /\ Cardinality(R) <= G /\ Cardinality(R) \in Nat
    <2> HIDE DEF P, G, T
    <2>1. R \subseteq P
      OBVIOUS
    <2>2. IsFiniteSet(R) /\ Cardinality(R) <= Cardinality(P)
      <3> HIDE DEF R
      <3> QED BY <1>5, <2>1, FS_Subset
    <2> HIDE DEF R
    <2> QED BY <1>5, <2>2, FS_CardinalityType
  <1>7. g \in Surjection(R, T)
    <2> HIDE DEF P, T
    <2> QED BY <1>4 DEF Surjection
  <1>8. IsFiniteSet(T) /\ Cardinality(T) <= Cardinality(R)
    <2> HIDE DEF g, R, T
    <2> QED BY <1>6, <1>7, FS_Surjection
  <1>9. m.pts[q] \notin S /\ S = T \ {m.pts[q]} /\ m.pts[q] \in T
    BY <1>0
  <1> HIDE DEF S, T, R, G
  <1>10. Cardinality(S) = Cardinality(T) - 1 /\ Cardinality(T) \in Nat
         /\ IsFiniteSet(S)
    BY <1>8, <1>9, FS_RemoveElement, FS_CardinalityType
  <1>11. Cardinality(S) \in Nat
    BY <1>10, FS_CardinalityType
  <1>12. Cardinality(S) + 1 <= G
    BY <1>1, <1>6, <1>8, <1>10, <1>11
  <1> QED BY <1>11, <1>12 DEF S, G

\* As many frames are shown before that of packet q as are read before its
\* group, at the least.
LEMMA ReadBefore ==
  ASSUME NEW m \in Movies, Orderly(m),
         NEW place \in [Packets(m) -> 0 .. Len(m.pts) - 1], Numbering(m, place),
         NEW q \in Packets(m), NEW p \in 1 .. q, p = 1 \/ m.key[p]
  PROVE  p - 1 <= place[q]
  <1> DEFINE S == 1 .. p - 1
             T == {t \in TimesOf(m) : t < m.pts[q]}
             f == [r \in S |-> m.pts[r]]
  <1>0. Len(m.pts) \in Nat \ {0} /\ Packets(m) = 1 .. Len(m.pts)
    BY MovieFacts
  <1>1. p \in Int /\ p >= 1 /\ p \in Packets(m) /\ q \in p .. Len(m.pts)
    BY <1>0
  <1>2. ASSUME NEW r \in S
        PROVE  r \in Packets(m) /\ m.pts[r] \in T
    <2>1. m.key[p]
      BY <1>1
    <2>2. m.pts[r] < m.pts[q]
      BY <1>1, <2>1 DEF Orderly
    <2>3. r \in Packets(m)
      BY <1>0, <1>1
    <2> QED BY <2>2, <2>3 DEF TimesOf
  <1>3. f \in Injection(S, T)
    <2>1. f \in [S -> T]
      <3> HIDE DEF S, T
      <3> QED BY <1>2
    <2>2. \A a, b \in S : f[a] = f[b] => a = b
      BY <1>2 DEF Orderly
    <2> HIDE DEF f, S, T
    <2> QED BY <2>1, <2>2 DEF Injection, IsInjective
  <1>4. T \subseteq TimesOf(m)
    OBVIOUS
  <1>5. IsFiniteSet(T) /\ Cardinality(T) = place[q]
    <2>1. IsFiniteSet(T)
      <3> HIDE DEF T
      <3> QED BY <1>4, FiniteTimes
    <2> QED BY <2>1, RankIsPlace
  <1>6. Cardinality(S) <= Cardinality(T)
    <2> HIDE DEF f, S, T
    <2> QED BY <1>3, <1>5, FS_Injection
  <1>7. Cardinality(S) = p - 1
    <2> DEFINE last == p - 1
    <2>1. 1 \in Int /\ last \in Int /\ last >= 0
      BY <1>1
    <2> HIDE DEF last
    <2>2. Cardinality(1 .. last) = IF 1 > last THEN 0 ELSE last - 1 + 1
      BY <2>1, FS_Interval
    <2>3. Cardinality(1 .. last) = last
      BY <2>1, <2>2
    <2> QED BY <2>3 DEF last
  <1> HIDE DEF S, T
  <1> QED BY <1>5, <1>6, <1>7

\* A movie for which the read loop is long enough, counted from frame 0.
Scanned == /\ Clean(movie) /\ ~want_noindex /\ WithinReach /\ movie.drains
           /\ Regular /\ Punctual(movie)

\* Where av_seek_frame goes for the entry of a frame of the movie: into the
\* group of that frame.
TableReaches ==
  Scanned =>
    \A q \in Packets(movie), k \in 0 .. fcnt - 1 :
      movie.start + Place[q] = k /\ k < movie.frames =>
        \A p \in SeekPositions(movie, fidx[k].seekpts) :
          p # 0 /\ GroupStart(movie, q) <= p

\* The keyframe that the group of a frame starts with, and its time stamps.
LEMMA GroupIsOnTime ==
  ASSUME Init, Scanned, NEW q \in Packets(movie), NEW k \in 0 .. fcnt - 1,
         movie.start + Place[q] = k, k < movie.frames
  PROVE  LET p == GroupStart(movie, q)
         IN  /\ p \in Packets(movie) /\ Kept(movie, p) /\ p - 1 <= k
             /\ (IF KeyframesOnly(movie) THEN movie.pts[p]
                   ELSE FirstDecoded(movie, p)) <= Rescale(movie, p - 1 + movie.start)
             /\ Rescale(movie, p - 1 + movie.start) \in Int
             /\ Rescale(movie, p - 1 + movie.start) <= Rescale(movie, k)
  <1> DEFINE p == GroupStart(movie, q)
             n == p - 1 + movie.start
  <1>0. movie \in Movies /\ movie.start \in Nat /\ Len(movie.pts) \in Nat
        /\ Packets(movie) = 1 .. Len(movie.pts)
    BY MovieFacts DEF Init
  <1>1. Place \in [Packets(movie) -> 0 .. Len(movie.pts) - 1]
        /\ Numbering(movie, Place)
    BY <1>0, PlaceIsOne DEF Scanned, Regular
  <1>2. p \in 1 .. q /\ (p = 1 \/ Kept(movie, p))
    BY <1>0, GroupStartFacts
  <1>3. Kept(movie, p)
    BY <1>2 DEF Scanned, Punctual
  <1>4. p \in Packets(movie) /\ p \in Int
    BY <1>0, <1>2
  <1>5. p - 1 <= Place[q]
    <2>1. movie.key[p]
      BY <1>3 DEF Kept
    <2> HIDE DEF p
    <2> QED BY <1>0, <1>1, <1>2, <2>1, ReadBefore DEF Scanned, Regular
  <1>6. Place[q] \in Nat /\ k \in Int
    <2>1. fcnt \in Nat
      BY <1>0, CountType DEF Init
    <2> QED BY <1>0, <1>1, <2>1, StampOfPlace
  <1>7. n \in Int /\ n <= k /\ p - 1 <= k
    <2> DEFINE place == Place[q]
    <2>1. movie.start + place = k /\ p - 1 <= place /\ place \in Nat
      BY <1>5, <1>6
    <2> HIDE DEF place, p
    <2> QED BY <1>0, <1>4, <1>6, <2>1
  <1>8. Rescale(movie, n) \in Int /\ Rescale(movie, n) <= Rescale(movie, k)
    <2> HIDE DEF n
    <2>1. CASE n = k
      BY <1>0, <1>6, <2>1, RescaleIncreases
    <2>2. CASE n < k
      <3>1. /\ Rescale(movie, n) \in Int /\ Rescale(movie, k) \in Int
            /\ Rescale(movie, n) + movie.step <= Rescale(movie, k)
        BY <1>0, <1>6, <1>7, <2>2, Gap
      <3>2. movie.step \in Nat
        BY <1>0, MovieFacts
      <3> QED BY <3>1, <3>2
    <2> QED BY <1>6, <1>7, <2>1, <2>2
  <1>9. (IF KeyframesOnly(movie) THEN movie.pts[p] ELSE FirstDecoded(movie, p))
          <= Rescale(movie, n)
    <2>1. movie.start + p - 1 = n
      <3> HIDE DEF p
      <3> QED BY <1>0, <1>4
    <2>2. (IF KeyframesOnly(movie) THEN movie.pts[p] ELSE FirstDecoded(movie, p))
            <= Rescale(movie, movie.start + p - 1)
      BY <1>3, <1>4 DEF Scanned, Punctual
    <2> QED BY <2>1, <2>2
  <1> QED BY <1>3, <1>4, <1>7, <1>8, <1>9

LEMMA TableReachesInit == Init => TableReaches
  <1> SUFFICES ASSUME Init, Scanned, NEW q \in Packets(movie),
                      NEW k \in 0 .. fcnt - 1,
                      movie.start + Place[q] = k, k < movie.frames,
                      NEW p \in SeekPositions(movie, fidx[k].seekpts)
               PROVE  p # 0 /\ GroupStart(movie, q) <= p
    BY DEF TableReaches
  <1> DEFINE first == GroupStart(movie, q)
             ts == fidx[k].timestamp
             rk == Rescale(movie, k)
             early == Rescale(movie, first - 1 + movie.start)
             interval == PassInterval(movie, want_noindex)
  <1>0. /\ movie \in Movies /\ want_noindex \in BOOLEAN /\ fcnt \in Nat
        /\ fcnt = EntryCount(movie, want_noindex)
    BY CountType DEF Init
  <1>m. /\ Len(movie.pts) \in Nat /\ Packets(movie) = 1 .. Len(movie.pts)
        /\ k \in Int /\ interval \in Nat /\ movie.frames \in Nat
    BY <1>0, MovieFacts, PassIntervalType
  <1>1. ts = rk /\ rk \in Nat
    BY InitInv, EntryStamp DEF Scanned, Regular
  <1>2. PICK garbage \in Garbage(movie) :
          fidx = SeekTable(Entries(movie, want_noindex, garbage), fcnt,
                           PassInterval(movie, want_noindex))
    BY DEF Init
  <1> DEFINE entries == Entries(movie, want_noindex, garbage)
  <1>3. PICK kfi \in -1 .. fcnt - 1 :
          /\ kfi >= 0 => fidx[k].seekpts = entries[kfi].pkt_pts /\ entries[kfi].key
          /\ \A i \in 0 .. fcnt - 1 :
               i <= k + 2 + interval /\ entries[i].key /\ entries[i].frame_pts <= ts
                 => i <= kfi
    BY <1>2, LeadingKeyframe
  <1>4. /\ first \in Packets(movie) /\ first \in Int /\ Kept(movie, first)
        /\ first - 1 <= k
        /\ (IF KeyframesOnly(movie) THEN movie.pts[first]
              ELSE FirstDecoded(movie, first)) <= early
        /\ early \in Int /\ early <= rk
    BY <1>m, GroupIsOnTime
  <1> HIDE DEF first, early, rk, interval
  <1>5. CASE ~DirectMode(movie, want_noindex)
    <2> DEFINE i == first - 1
    <2>1. i \in 0 .. fcnt - 1 /\ i + 1 = first
      <3>1. fcnt = Len(movie.pts)
        BY <1>0, <1>5, CleanCount DEF Scanned
      <3> QED BY <1>m, <1>4, <3>1
    <2>2. entries[i].key /\ entries[i].frame_pts = FirstDecoded(movie, first)
      <3>1. i \in 0 .. EntryCount(movie, want_noindex) - 1
        BY <1>0, <2>1
      <3> HIDE DEF i
      <3>2. /\ entries[i].key <=> movie.key[i + 1] /\ i + 1 + movie.delay <= Len(movie.pts)
            /\ entries[i].key => entries[i].frame_pts = FirstDecoded(movie, i + 1)
        BY <1>0, <1>5, <3>1, VerifiedKeyframe DEF Scanned
      <3> QED BY <1>4, <2>1, <3>2 DEF Kept
    <2>3. entries[i].frame_pts <= ts
      <3>1. ~KeyframesOnly(movie)
        BY <1>5 DEF DirectMode
      <3>2. FirstDecoded(movie, first) <= early
        BY <1>4, <3>1
      <3>3. FirstDecoded(movie, first) \in Int
        <4>1. entries[i] \in EntryType
          BY <1>0, <2>1, EntriesType
        <4> HIDE DEF i, entries
        <4> QED BY <2>2, <4>1 DEF EntryType
      <3> HIDE DEF i, entries
      <3> QED BY <1>1, <1>4, <2>2, <3>2, <3>3
    <2>4. i <= k + 2 + interval
      BY <1>m, <1>4
    <2>5. i <= kfi /\ kfi \in 0 .. fcnt - 1
      <3>1. i <= kfi
        <4> HIDE DEF i, entries, ts
        <4> QED BY <1>3, <2>1, <2>2, <2>3, <2>4
      <3> QED BY <1>0, <2>1, <3>1
    <2>6. /\ kfi + 1 \in Packets(movie)
          /\ entries[kfi].key => movie.key[kfi + 1]
          /\ entries[kfi].pkt_pts = movie.pts[kfi + 1]
      <3>1. kfi \in 0 .. EntryCount(movie, want_noindex) - 1
        BY <1>0, <2>5
      <3> QED BY <1>0, <1>5, <3>1, VerifiedKeyframe DEF Scanned
    <2>7. fidx[k].seekpts = movie.pts[kfi + 1] /\ movie.key[kfi + 1]
      BY <1>3, <2>5, <2>6
    <2>8. p = kfi + 1
      BY <1>0, <2>6, <2>7, SeekFindsKeyframe DEF Scanned, Regular
    <2> QED BY <1>0, <1>4, <2>5, <2>8 DEF first
  <1>6. CASE DirectMode(movie, want_noindex)
    <2>1. KeyframesOnly(movie) /\ movie.start = 0
      BY <1>6 DEF Scanned, DirectMode, Regular, CountsFromStart
    <2>2. movie.pts[1] = 0
      <3> DEFINE n == Place[1]
                 r == Rescale(movie, n)
                 fuzz == FuzzOf(movie)
                 t == movie.pts[1]
      <3>1. 1 \in Packets(movie) /\ t \in Int /\ movie.step \in Nat
            /\ movie.start \in Nat
        BY <1>0, MovieFacts
      <3>2. Rescale(movie, 0) = 0
        BY <3>1 DEF Rescale
      <3>3. t <= 0
        <4>1. t <= Rescale(movie, movie.start + 1 - 1)
          BY <2>1, <3>1 DEF Scanned, Punctual
        <4>2. movie.start + 1 - 1 = 0
          BY <2>1
        <4> QED BY <3>2, <4>1, <4>2
      <3>4. Place \in [Packets(movie) -> 0 .. Len(movie.pts) - 1]
            /\ Numbering(movie, Place)
        BY <1>0, PlaceIsOne DEF Scanned, Regular
      <3>5. n \in Nat /\ movie.start + n = n
        <4> HIDE DEF t
        <4>1. n \in Nat
          BY <1>0, <3>1, <3>4, StampOfPlace
        <4> QED BY <2>1, <4>1
      <3>6. r \in Int /\ (n > 0 => movie.step <= r) /\ (n = 0 => r = 0)
        <4>1. CASE n = 0
          BY <3>2, <4>1
        <4>2. CASE n > 0
          <5>1. r \in Int /\ Rescale(movie, 0) + movie.step <= r
            <6>1. n \in Int /\ 0 \in Int /\ 0 < n
              BY <3>5, <4>2
            <6> HIDE DEF n, t
            <6> QED BY <1>0, <6>1, Gap
          <5> HIDE DEF r
          <5> QED BY <3>1, <3>2, <3>5, <4>2, <5>1
        <4> QED BY <3>5, <4>1, <4>2
      <3>7. r <= t + fuzz /\ (t - r < 0 => n > 0)
        <4>1. Late(movie, 1, n) < 0 => n > 0
          BY <3>1, <3>4 DEF Numbering
        <4>2. Late(movie, 1, n) = t - r
          BY <3>5 DEF Late
        <4>3. Rescale(movie, movie.start + n) <= t + fuzz
          BY <1>0, <3>1, <3>4, StampOfPlace
        <4> QED BY <3>5, <4>1, <4>2, <4>3
      <3>8. fuzz \in {0, 1} /\ fuzz + fuzz < movie.step
        BY <1>0, FuzzFacts
      <3> HIDE DEF n, r, fuzz, t
      <3>9. t = 0
        BY <3>1, <3>3, <3>5, <3>6, <3>7, <3>8
      <3> QED BY <3>9 DEF t
    <2>3. ASSUME NEW i \in 0 .. fcnt - 1
          PROVE  /\ entries[i].key
                 /\ entries[i].frame_pts = Rescale(movie, i)
                 /\ entries[i].pkt_pts = Rescale(movie, i)
      <3>1. entries[i] = Computed(movie, want_noindex, i)
        BY <1>0, <1>6, <2>3 DEF Entries
      <3>2. Rescale(movie, i) \in Int
        BY <1>0, RescaleIncreases
      <3>3. ~want_noindex
        BY DEF Scanned
      <3> QED BY <2>2, <3>1, <3>2, <3>3 DEF Computed
    <2>4. k <= kfi
      <3>1. k <= k + 2 + interval
        BY <1>m
      <3>2. entries[k].key /\ entries[k].frame_pts <= ts
        BY <1>1, <2>3 DEF rk
      <3> HIDE DEF entries, ts
      <3> QED BY <1>3, <3>1, <3>2
    <2>5. kfi \in 0 .. fcnt - 1
      BY <1>0, <2>4
    <2>6. fidx[k].seekpts = Rescale(movie, kfi)
      <3>1. entries[kfi].pkt_pts = Rescale(movie, kfi)
        BY <2>3, <2>5
      <3> QED BY <1>3, <2>5, <3>1
    <2>7. rk <= Rescale(movie, kfi) /\ Rescale(movie, kfi) \in Int
      <3>1. CASE k = kfi
        BY <1>1, <3>1 DEF rk
      <3>2. CASE k < kfi
        <4>1. /\ Rescale(movie, k) \in Int /\ Rescale(movie, kfi) \in Int
              /\ Rescale(movie, k) + movie.step <= Rescale(movie, kfi)
          BY <1>0, <1>m, <2>5, <3>2, Gap
        <4>2. movie.step \in Nat
          BY <1>0, MovieFacts
        <4> QED BY <4>1, <4>2 DEF rk
      <3> QED BY <1>m, <2>4, <2>5, <3>1, <3>2
    <2>8. first \in KeyframesUpTo(movie, fidx[k].seekpts)
      <3>1. movie.pts[first] \in Int /\ movie.pts[first] <= early
        BY <1>0, <1>4, <2>1, MovieFacts
      <3>2. movie.pts[first] <= Rescale(movie, kfi)
        BY <1>1, <1>4, <2>7, <3>1
      <3> QED BY <1>4, <2>6, <3>2 DEF KeyframesUpTo, Kept
    <2> DEFINE S == KeyframesUpTo(movie, fidx[k].seekpts)
    <2>9. p = Max(S)
      BY <2>8 DEF SeekPositions
    <2>10. S \subseteq Int /\ S # {} /\ Len(movie.pts) \in Int
           /\ \A x \in S : x <= Len(movie.pts)
      BY <1>m, <2>8 DEF KeyframesUpTo
    <2>11. Max(S) \in S /\ \A x \in S : x <= Max(S)
      <3> HIDE DEF S
      <3> QED BY <2>10, MaxOf
    <2>12. p \in Packets(movie) /\ first <= p
      BY <2>8, <2>9, <2>11 DEF KeyframesUpTo
    <2> QED BY <1>m, <2>12 DEF first
  <1> QED BY <1>5, <1>6

LEMMA TableReachesStays ==
  ASSUME TableReaches, [Next]_vars
  PROVE  TableReaches'
  <1>1. UNCHANGED <<optVars, tableVars>>
    BY TableStays
  <1> QED BY <1>1 DEF TableReaches, Scanned, Regular, CountsFromStart, WithinReach,
                      Bailout, Place, optVars, tableVars

-----------------------------------------------------------------------------
(* How many iterations of the read loop are left to do.                     *)

SlackOf(m) == Max({0, m.delay - 1})

\* The frames that are to come with the decoder holding d and the demuxer at
\* packet p, and those of them that are shown before pts.
Ahead(m, d, p) == d \cup From(m, p)
Before(U, pts) == {u \in U : u < pts}

\* The iterations before the one that returns the frame pts: one for each
\* packet that is read until it comes out, two for each frame that is taken
\* from the decoder behind the end of the file.
CostOf(m, d, p, pts) ==
  LET n == Cardinality(Before(Ahead(m, d, p), pts))
  IN  IF p \in Packets(m) THEN n + (m.delay - Cardinality(d)) + SlackOf(m)
                          ELSE n + n

Cost(pts) == CostOf(movie, dec, pos, pts)

LEMMA SlackFacts ==
  ASSUME NEW m \in Movies
  PROVE  SlackOf(m) \in Nat /\ m.delay - 1 <= SlackOf(m) /\ m.delay \in Nat
  <1> DEFINE S == {0, m.delay - 1}
  <1>0. m.delay \in Nat
    BY MovieFacts
  <1>1. S \subseteq Int /\ S # {} /\ m.delay \in Int /\ \A x \in S : x <= m.delay
    BY <1>0
  <1>2. Max(S) \in S /\ \A x \in S : x <= Max(S)
    <2> HIDE DEF S
    <2> QED BY <1>1, MaxOf
  <1>3. 0 \in S /\ m.delay - 1 \in S /\ SlackOf(m) = Max(S)
    BY DEF SlackOf
  <1>4. Max(S) \in Int /\ 0 <= Max(S) /\ m.delay - 1 <= Max(S)
    <2> HIDE DEF S
    <2> QED BY <1>1, <1>2, <1>3
  <1> HIDE DEF S
  <1> QED BY <1>0, <1>3, <1>4

LEMMA BeforeFinite ==
  ASSUME NEW m \in Movies, NEW U, U \subseteq TimesOf(m), NEW pts
  PROVE  /\ IsFiniteSet(Before(U, pts)) /\ Cardinality(Before(U, pts)) \in Nat
         /\ Before(U, pts) \subseteq U
  <1>1. Before(U, pts) \subseteq TimesOf(m) /\ Before(U, pts) \subseteq U
    BY DEF Before
  <1> QED BY <1>1, FiniteTimes

\* Fewer frames of a set come before one of them than there are.
LEMMA FewerBefore ==
  ASSUME NEW m \in Movies, NEW U, U \subseteq TimesOf(m), NEW pts \in U
  PROVE  Cardinality(Before(U, pts)) + 1 <= Cardinality(U)
  <1> DEFINE V == U \ {pts}
  <1>1. IsFiniteSet(U) /\ Cardinality(U) \in Nat
    BY FiniteTimes
  <1>2. Cardinality(V) = Cardinality(U) - 1 /\ IsFiniteSet(V)
    BY <1>1, FS_RemoveElement
  <1>3. pts \in Int
    BY MovieFacts DEF TimesOf
  <1>4. Before(U, pts) \subseteq V
    BY <1>3 DEF Before
  <1>5. Cardinality(Before(U, pts)) <= Cardinality(V)
        /\ Cardinality(Before(U, pts)) \in Nat
    <2> HIDE DEF V
    <2> QED BY <1>2, <1>4, FS_Subset, BeforeFinite
  <1> HIDE DEF V
  <1> QED BY <1>1, <1>2, <1>5

\* Behind the end of the file only what the decoder holds is to come.
LEMMA AheadFacts ==
  ASSUME NEW m \in Movies, NEW d, d \subseteq TimesOf(m),
         NEW p \in 1 .. Len(m.pts) + 1
  PROVE  /\ Ahead(m, d, p) \subseteq TimesOf(m)
         /\ p \notin Packets(m) => Ahead(m, d, p) = d
         /\ IsFiniteSet(d) /\ Cardinality(d) \in Nat
  <1>0. Packets(m) = 1 .. Len(m.pts) /\ Len(m.pts) \in Nat
    BY MovieFacts
  <1>1. From(m, p) \subseteq TimesOf(m)
    BY <1>0 DEF From, TimesOf
  <1>2. ASSUME p \notin Packets(m) PROVE From(m, p) = {}
    <2> DEFINE n == Len(m.pts)
    <2>1. p \in 1 .. n + 1 /\ p \notin 1 .. n /\ n \in Nat
      BY <1>0, <1>2
    <2> HIDE DEF n
    <2>2. p .. n = {}
      BY <2>1
    <2> QED BY <2>2 DEF From, n
  <1> QED BY <1>1, <1>2, FiniteTimes DEF Ahead

\* No more iterations than for reading all that comes before, filling the
\* decoder and draining it.
LEMMA CostBound ==
  ASSUME NEW m \in Movies, NEW d, d \subseteq TimesOf(m),
         Cardinality(d) <= m.delay, NEW p \in 1 .. Len(m.pts) + 1,
         NEW pts \in Ahead(m, d, p)
  PROVE  LET n == Cardinality(Before(Ahead(m, d, p), pts))
         IN  /\ CostOf(m, d, p, pts) \in Nat /\ n \in Nat
             /\ CostOf(m, d, p, pts) <= n + m.delay + SlackOf(m)
             /\ p \notin Packets(m) => n <= SlackOf(m)
  <1> DEFINE n == Cardinality(Before(Ahead(m, d, p), pts))
             c == Cardinality(d)
             slack == SlackOf(m)
  <1>0. slack \in Nat /\ m.delay - 1 <= slack /\ m.delay \in Nat
    BY SlackFacts
  <1>1. n \in Nat /\ c \in Nat /\ c <= m.delay
    BY AheadFacts, BeforeFinite
  <1>2. p \notin Packets(m) => n + 1 <= c
    BY AheadFacts, FewerBefore
  <1>3. CostOf(m, d, p, pts) =
          IF p \in Packets(m) THEN n + (m.delay - c) + slack ELSE n + n
    BY DEF CostOf
  <1> HIDE DEF n, c, slack
  <1>4. p \notin Packets(m) => n <= slack
    BY <1>0, <1>1, <1>2
  <1>5. CASE p \in Packets(m)
    <2>1. CostOf(m, d, p, pts) = n + (m.delay - c) + slack
      BY <1>3, <1>5
    <2> QED BY <1>0, <1>1, <1>5, <2>1 DEF n, slack
  <1>6. CASE p \notin Packets(m)
    <2>1. CostOf(m, d, p, pts) = n + n
      BY <1>3, <1>6
    <2>2. n + n \in Nat /\ n + n <= n + m.delay + slack
      BY <1>0, <1>1, <1>4, <1>6
    <2> QED BY <1>1, <1>4, <2>1, <2>2 DEF n, slack
  <1> QED BY <1>5, <1>6

\* Reading a packet without getting a frame brings every frame one iteration
\* nearer.
LEMMA CostOfRead ==
  ASSUME NEW m \in Movies, NEW p \in Packets(m), NEW d, d \subseteq TimesOf(m),
         m.pts[p] \notin d, ~(Cardinality(d \cup {m.pts[p]}) > m.delay),
         NEW pts \in Ahead(m, d, p)
  PROVE  LET held == d \cup {m.pts[p]}
         IN  /\ Ahead(m, held, p + 1) = Ahead(m, d, p)
             /\ CostOf(m, held, p + 1, pts) + 1 <= CostOf(m, d, p, pts)
             /\ CostOf(m, held, p + 1, pts) \in Nat
  <1> DEFINE held == d \cup {m.pts[p]}
             U == Ahead(m, d, p)
             n == Cardinality(Before(U, pts))
             c == Cardinality(d)
             slack == SlackOf(m)
             after == CostOf(m, held, p + 1, pts)
  <1>0. Packets(m) = 1 .. Len(m.pts) /\ Len(m.pts) \in Nat
    BY MovieFacts
  <1>1. slack \in Nat /\ m.delay \in Nat
    BY SlackFacts
  <1>2. p \in 1 .. Len(m.pts) + 1 /\ p + 1 \in 1 .. Len(m.pts) + 1
        /\ held \subseteq TimesOf(m)
    BY <1>0 DEF TimesOf
  <1>3. IsFiniteSet(d) /\ c \in Nat /\ Cardinality(held) = c + 1
    BY FiniteTimes, FS_AddElement
  <1>4. c + 1 <= m.delay
    <2> HIDE DEF held, c
    <2> QED BY <1>1, <1>3 DEF held
  <1>5. Ahead(m, held, p + 1) = U
    <2>1. p .. Len(m.pts) = {p} \cup (p + 1 .. Len(m.pts))
      BY <1>0
    <2> QED BY <2>1 DEF Ahead, From
  <1>6. n \in Nat
    BY <1>2, AheadFacts, BeforeFinite
  <1>7. CostOf(m, d, p, pts) = n + (m.delay - c) + slack
    BY DEF CostOf
  <1>8. after = IF p + 1 \in Packets(m)
                  THEN n + (m.delay - (c + 1)) + slack ELSE n + n
    <2> HIDE DEF held, U, c
    <2> QED BY <1>3, <1>5 DEF CostOf
  <1>9. p + 1 \notin Packets(m) => n <= slack
    <2>1. Cardinality(held) <= m.delay
      <3> HIDE DEF held, c
      <3> QED BY <1>3, <1>4
    <2>2. pts \in Ahead(m, held, p + 1)
      BY <1>5
    <2> HIDE DEF held, U
    <2>3. LET w == Cardinality(Before(Ahead(m, held, p + 1), pts))
          IN  p + 1 \notin Packets(m) => w <= SlackOf(m)
      BY <1>2, <2>1, <2>2, CostBound
    <2> QED BY <1>5, <2>3
  <1> HIDE DEF n, c, slack, after, U, held
  <1>10. after + 1 <= n + (m.delay - c) + slack /\ after \in Nat
    <2>1. CASE p + 1 \in Packets(m)
      <3>1. after = n + (m.delay - (c + 1)) + slack
        BY <1>8, <2>1
      <3> QED BY <1>1, <1>3, <1>4, <1>6, <3>1
    <2>2. CASE p + 1 \notin Packets(m)
      <3>1. after = n + n /\ n <= slack
        BY <1>8, <1>9, <2>2
      <3> QED BY <1>1, <1>3, <1>4, <1>6, <3>1
    <2> QED BY <2>1, <2>2
  <1> QED BY <1>5, <1>7, <1>10 DEF after, U, held

\* Taking the first of a set away leaves one less before each of the others.
LEMMA OneLessBefore ==
  ASSUME NEW m \in Movies, NEW U, U \subseteq TimesOf(m),
         NEW first \in U, \A u \in U : first <= u,
         NEW pts \in U, pts # first
  PROVE  /\ Cardinality(Before(U \ {first}, pts)) =
              Cardinality(Before(U, pts)) - 1
         /\ Cardinality(Before(U, pts)) \in Nat
  <1> DEFINE S == Before(U, pts)
  <1>1. first \in Int /\ pts \in Int
    BY MovieFacts DEF TimesOf
  <1>2. first <= pts
    OBVIOUS
  <1>3. first < pts
    BY <1>1, <1>2
  <1>4. first \in S /\ Before(U \ {first}, pts) = S \ {first}
    BY <1>3 DEF Before
  <1>5. IsFiniteSet(S) /\ Cardinality(S) \in Nat
    BY BeforeFinite
  <1> HIDE DEF S
  <1>6. Cardinality(S \ {first}) = Cardinality(S) - 1
    BY <1>4, <1>5, FS_RemoveElement
  <1> QED BY <1>4, <1>5, <1>6 DEF S

\* So does reading a packet that makes the decoder return its first frame.
LEMMA CostOfFrame ==
  ASSUME NEW m \in Movies, NEW p \in Packets(m), NEW d, d \subseteq TimesOf(m),
         m.pts[p] \notin d, Cardinality(d) <= m.delay,
         Cardinality(d \cup {m.pts[p]}) > m.delay,
         NEW first \in d \cup {m.pts[p]},
         \A u \in Ahead(m, d, p) : first <= u,
         Ahead(m, (d \cup {m.pts[p]}) \ {first}, p + 1) = Ahead(m, d, p) \ {first},
         NEW pts \in Ahead(m, d, p), pts # first
  PROVE  LET rest == (d \cup {m.pts[p]}) \ {first}
         IN  /\ CostOf(m, rest, p + 1, pts) + 1 <= CostOf(m, d, p, pts)
             /\ CostOf(m, rest, p + 1, pts) \in Nat
  <1> DEFINE held == d \cup {m.pts[p]}
             rest == held \ {first}
             U == Ahead(m, d, p)
             n == Cardinality(Before(U, pts))
             c == Cardinality(d)
             slack == SlackOf(m)
             after == CostOf(m, rest, p + 1, pts)
  <1>0. Packets(m) = 1 .. Len(m.pts) /\ Len(m.pts) \in Nat
    BY MovieFacts
  <1>1. slack \in Nat /\ m.delay \in Nat
    BY SlackFacts
  <1>2. p \in 1 .. Len(m.pts) + 1 /\ p + 1 \in 1 .. Len(m.pts) + 1
        /\ held \subseteq TimesOf(m)
    BY <1>0 DEF TimesOf
  <1>3. IsFiniteSet(d) /\ c \in Nat /\ Cardinality(held) = c + 1
        /\ IsFiniteSet(held)
    BY <1>2, FiniteTimes, FS_AddElement
  <1>4. c = m.delay
    <2>1. c + 1 > m.delay /\ c <= m.delay
      BY <1>3
    <2> HIDE DEF c
    <2> QED BY <1>1, <1>3, <2>1
  <1>5. Cardinality(rest) = c
    <2>1. Cardinality(rest) = Cardinality(held) - 1
      <3> HIDE DEF held
      <3> QED BY <1>3, FS_RemoveElement DEF held
    <2> HIDE DEF rest, held, c
    <2> QED BY <1>3, <2>1
  <1>6. first \in U
    <2>1. p \in p .. Len(m.pts)
      BY <1>0
    <2> QED BY <2>1 DEF Ahead, From
  <1>7. Cardinality(Before(U \ {first}, pts)) = n - 1 /\ n \in Nat
    <2>1. U \subseteq TimesOf(m)
      BY <1>2, AheadFacts
    <2> HIDE DEF U
    <2> QED BY <1>6, <2>1, OneLessBefore DEF U
  <1>8. CostOf(m, d, p, pts) = n + (m.delay - c) + slack
    BY DEF CostOf
  <1>9. after = IF p + 1 \in Packets(m)
                  THEN (n - 1) + (m.delay - c) + slack ELSE (n - 1) + (n - 1)
    <2>1. Ahead(m, rest, p + 1) = U \ {first}
      OBVIOUS
    <2> HIDE DEF rest, U, c
    <2> QED BY <1>5, <1>7, <2>1 DEF CostOf
  <1>10. n - 1 \in Nat /\ (p + 1 \notin Packets(m) => n - 1 <= slack)
    <2>1. Ahead(m, rest, p + 1) = U \ {first} /\ rest \subseteq TimesOf(m)
      BY <1>2
    <2>2. pts \in Ahead(m, rest, p + 1)
      BY <2>1
    <2>3. Cardinality(rest) <= m.delay
      <3> HIDE DEF rest, c
      <3> QED BY <1>1, <1>4, <1>5
    <2> HIDE DEF rest, U
    <2>4. LET w == Cardinality(Before(Ahead(m, rest, p + 1), pts))
          IN  w \in Nat /\ (p + 1 \notin Packets(m) => w <= SlackOf(m))
      BY <1>2, <2>1, <2>2, <2>3, CostBound
    <2> QED BY <1>7, <2>1, <2>4
  <1> HIDE DEF n, c, slack, after, U, held
  <1>11. after + 1 <= n + (m.delay - c) + slack /\ after \in Nat
    <2>1. CASE p + 1 \in Packets(m)
      <3>1. after = (n - 1) + (m.delay - c) + slack
        BY <1>9, <2>1
      <3> QED BY <1>1, <1>4, <1>7, <1>10, <3>1
    <2>2. CASE p + 1 \notin Packets(m)
      <3>1. after = (n - 1) + (n - 1) /\ n - 1 <= slack
        BY <1>9, <1>10, <2>2
      <3> QED BY <1>1, <1>4, <1>7, <1>10, <3>1
    <2> QED BY <2>1, <2>2
  <1> QED BY <1>8, <1>11 DEF after, held

\* Draining brings every frame two iterations nearer.
LEMMA CostOfDrain ==
  ASSUME NEW m \in Movies, NEW p \in 1 .. Len(m.pts) + 1, p \notin Packets(m),
         NEW d, d \subseteq TimesOf(m), NEW first \in d,
         \A u \in d : first <= u, NEW pts \in d, pts # first
  PROVE  CostOf(m, d \ {first}, p, pts) + 2 = CostOf(m, d, p, pts)
  <1> DEFINE n == Cardinality(Before(d, pts))
             rest == d \ {first}
  <1>1. Ahead(m, d, p) = d /\ Ahead(m, rest, p) = rest
    <2>1. rest \subseteq TimesOf(m)
      OBVIOUS
    <2> HIDE DEF rest
    <2> QED BY <2>1, AheadFacts
  <1>2. Cardinality(Before(rest, pts)) = n - 1 /\ n \in Nat
    BY OneLessBefore
  <1>3. CostOf(m, d, p, pts) = n + n
    BY <1>1 DEF CostOf
  <1>4. CostOf(m, rest, p, pts) = (n - 1) + (n - 1)
    <2> HIDE DEF rest, n
    <2> QED BY <1>1, <1>2 DEF CostOf
  <1> HIDE DEF n
  <1> QED BY <1>2, <1>3, <1>4

-----------------------------------------------------------------------------
(* The read loop is long enough.                                           *)

\* The frame that is looked for comes out of the decoder before the loop is
\* at its end; and a call for a frame of the file that has returned has found
\* it.
InTime ==
  Scanned /\ pc = "reading" =>
    \A pts \in TimesOf(movie) : FrameOf(pts, framenumber) => Cost(pts) < bailout
Found ==
  Scanned /\ pc = "idle" /\ request >= 0 /\ InFile(request) => result = 0

ReachInv == TableReaches /\ InTime /\ Found

\* One iteration of the loop, in a movie without damage.
LEMMA LoopCost ==
  ASSUME TypeOK, DecoderHolds, Orderly(movie), Loop, movie.bad = {}, movie.drains,
         bailout > 0
  PROVE  \/ /\ UNCHANGED <<pc, result, lastVars, pFrame>> /\ Upcoming' = Upcoming
            /\ \A t \in Upcoming :
                 CostOf(movie, dec', pos', t) + (bailout - bailout') <= Cost(t)
         \/ \E first \in Upcoming, left \in {bailout, bailout - 1} :
              /\ \A u \in Upcoming : first <= u
              /\ Upcoming' = Upcoming \ {first}
              /\ GotFrame(first, left)
              /\ \A t \in Upcoming \ {first} :
                   CostOf(movie, dec', pos', t) + (bailout - (left - 1)) <= Cost(t)
  <1>0. movie \in Movies /\ movie' = movie /\ bailout \in Int
        /\ dec \subseteq TimesOf(movie) /\ pos \in 1 .. Len(movie.pts) + 1
        /\ Cardinality(dec) <= movie.delay
    <2>1. [Next]_vars
      BY DEF Next
    <2> QED BY <2>1, TableStays DEF TypeOK, TimesOf, DecoderHolds, optVars
  <1>m. Packets(movie) = 1 .. Len(movie.pts) /\ Len(movie.pts) \in Nat
        /\ movie.delay \in Nat
    BY <1>0, MovieFacts
  <1>2. CASE ReadDecode
    <2> DEFINE held == dec \cup {movie.pts[pos]}
               first == Min(held)
    <2>1. pos \in Packets(movie) /\ pos' = pos + 1 /\ pos \in Int
      BY <1>2, <1>m DEF ReadDecode
    <2>2. /\ held \subseteq {movie.pts[p] : p \in 1 .. pos} /\ held # {}
          /\ held \subseteq TimesOf(movie)
          /\ Upcoming = held \cup From(movie, pos + 1)
      BY <1>0, <2>1, HoldOne DEF DecoderHolds, Upcoming
    <2>3. first \in held /\ \A t \in held : first <= t
      <3> HIDE DEF held
      <3> QED BY <1>0, <2>2, MinOfTimes
    <2>4. Upcoming' = Ahead(movie, dec', pos + 1)
          /\ Upcoming = Ahead(movie, dec, pos)
      BY <1>0, <2>1 DEF Upcoming, Ahead
    <2>5. movie.pts[pos] \notin dec
      <3> SUFFICES ASSUME NEW p \in 1 .. pos - 1, movie.pts[p] = movie.pts[pos]
                   PROVE  FALSE
        BY DEF DecoderHolds
      <3>1. p \in Packets(movie) /\ p # pos
        BY <1>m, <2>1
      <3> QED BY <2>1, <3>1 DEF Orderly
    <2>6. CASE /\ Cardinality(held) > movie.delay
               /\ GotFrame(first, bailout) /\ dec' = held \ {first}
      <3>1. \A r \in pos + 1 .. Len(movie.pts) : first < movie.pts[r]
        <4> HIDE DEF held
        <4> QED BY <1>0, <2>1, <2>2, <2>6, FirstOfAll
      <3>2. \A r \in pos + 1 .. Len(movie.pts) : movie.pts[r] \in Int
        BY <1>0, <1>m, <2>1, MovieFacts
      <3>3. first \in Int
        BY <1>0, <2>2, <2>3, MovieFacts DEF TimesOf
      <3> HIDE DEF first
      <3>4. \A u \in From(movie, pos + 1) : first < u /\ u \in Int
        BY <3>1, <3>2 DEF From
      <3>5. first \notin From(movie, pos + 1)
            /\ \A u \in From(movie, pos + 1) : first <= u
        <4> HIDE DEF held
        <4> QED BY <3>3, <3>4
      <3>6. /\ first \in Upcoming
            /\ \A u \in Upcoming : first <= u
            /\ Upcoming' = Upcoming \ {first}
        <4> HIDE DEF held
        <4> QED BY <2>2, <2>3, <2>4, <2>6, <3>5 DEF Ahead
      <3>7. ASSUME NEW t \in Upcoming \ {first}
            PROVE  CostOf(movie, dec', pos', t) + (bailout - (bailout - 1))
                     <= Cost(t)
        <4>1. /\ CostOf(movie, held \ {first}, pos + 1, t) + 1
                   <= CostOf(movie, dec, pos, t)
              /\ CostOf(movie, held \ {first}, pos + 1, t) \in Nat
          BY <1>0, <2>1, <2>3, <2>4, <2>5, <2>6, <3>6, <3>7, CostOfFrame
        <4>2. bailout - (bailout - 1) = 1
          BY <1>0
        <4> HIDE DEF held
        <4> QED BY <2>1, <2>6, <4>1, <4>2 DEF Cost
      <3> HIDE DEF held
      <3> QED BY <2>6, <3>6, <3>7
    <2>7. CASE /\ ~(Cardinality(held) > movie.delay)
               /\ NoFrameYet(bailout) /\ dec' = held
      <3>1. ASSUME NEW t \in Upcoming
            PROVE  CostOf(movie, dec', pos', t) + (bailout - bailout') <= Cost(t)
        <4>1. /\ CostOf(movie, held, pos + 1, t) + 1 <= CostOf(movie, dec, pos, t)
              /\ CostOf(movie, held, pos + 1, t) \in Nat
          BY <1>0, <2>1, <2>4, <2>5, <2>7, <3>1, CostOfRead
        <4>2. bailout - bailout' = 1
          BY <1>0, <2>7 DEF NoFrameYet
        <4> HIDE DEF held
        <4> QED BY <2>1, <2>7, <4>1, <4>2 DEF Cost
      <3> QED BY <2>2, <2>4, <2>7, <3>1 DEF NoFrameYet, lastVars, Ahead
    <2>8. pos \notin movie.bad
      OBVIOUS
    <2> QED BY <1>2, <2>6, <2>7, <2>8 DEF ReadDecode
  <1>3. CASE Drain
    <2>1. pos \notin Packets(movie) /\ pos' = pos
      BY <1>3 DEF Drain, DrainAt, AtEnd
    <2>2. From(movie, pos) = {}
      <3> DEFINE len == Len(movie.pts)
      <3>0. pos \in 1 .. len + 1 /\ pos \notin 1 .. len /\ len \in Nat
        BY <1>0, <1>m, <2>1
      <3> HIDE DEF len
      <3>1. pos .. len = {}
        BY <3>0
      <3> QED BY <3>1 DEF From, len
    <2>3. Upcoming = dec /\ Upcoming' = dec'
      BY <1>0, <2>1, <2>2 DEF Upcoming
    <2>4. CASE dec # {} /\ GotFrame(Min(dec), bailout - 1)
               /\ dec' = dec \ {Min(dec)}
      <3> DEFINE first == Min(dec)
      <3>1. first \in dec /\ \A t \in dec : first <= t
        BY <1>0, <2>4, MinOfTimes
      <3> HIDE DEF first
      <3>2. GotFrame(first, bailout - 1) /\ dec' = dec \ {first}
        BY <2>4 DEF first
      <3>3. ASSUME NEW t \in Upcoming \ {first}
            PROVE  CostOf(movie, dec', pos', t) + (bailout - (bailout - 1 - 1))
                     <= Cost(t)
        <4>1. CostOf(movie, dec', pos', t) + 2 = Cost(t)
          BY <1>0, <2>1, <2>3, <3>1, <3>2, <3>3, CostOfDrain DEF Cost
        <4>2. bailout - (bailout - 1 - 1) = 2
          BY <1>0
        <4>3. Cost(t) \in Int
          <5>1. t \in Ahead(movie, dec, pos)
            BY <2>3, <3>3 DEF Ahead
          <5> QED BY <1>0, <5>1, CostBound DEF Cost
        <4> QED BY <4>1, <4>2, <4>3
      <3> QED BY <2>3, <3>1, <3>2, <3>3
    <2>5. CASE NoFrameYet(bailout - 1) /\ UNCHANGED dec /\ dec = {}
      BY <1>0, <2>3, <2>5 DEF NoFrameYet, lastVars
    <2> QED BY <1>3, <2>4, <2>5 DEF Drain, DrainAt, AtEnd
  <1>4. ~BailOut /\ ~PassOver
    BY <1>0 DEF BailOut, PassOver
  <1> QED BY <1>2, <1>3, <1>4 DEF Loop

\* The frame of entry k is not too late for it.
LEMMA NotTooLate ==
  ASSUME TypeOK, SeekInv, Regular, pc = "reading",
         NEW pts \in TimesOf(movie), FrameOf(pts, framenumber),
         NEW first \in TimesOf(movie), first <= pts
  PROVE  first - fidx[framenumber].timestamp < movie.step
  <1> DEFINE k == framenumber
             fuzz == FuzzOf(movie)
             rk == Rescale(movie, k)
  <1>0. movie \in Movies /\ k \in 0 .. fcnt - 1 /\ k < movie.frames
    BY DEF SeekInv, Reading
  <1>1. Place \in [Packets(movie) -> 0 .. Len(movie.pts) - 1]
        /\ Numbering(movie, Place)
    BY <1>0, PlaceIsOne DEF Regular
  <1>2. fidx[k].timestamp = rk /\ rk \in Nat
    BY <1>0, EntryStamp DEF Regular
  <1>3. PICK p \in Packets(movie) : pts = movie.pts[p] /\ movie.start + Place[p] = k
    BY DEF FrameOf
  <1>4. pts \in Int /\ pts <= rk + fuzz
    BY <1>0, <1>1, <1>3, StampOfPlace
  <1>5. fuzz \in {0, 1} /\ fuzz + fuzz < movie.step /\ movie.step \in Nat
    BY <1>0, FuzzFacts
  <1>6. first \in Int
    BY <1>0, MovieFacts DEF TimesOf
  <1> HIDE DEF fuzz, rk
  <1>7. first - rk < movie.step
    BY <1>2, <1>4, <1>5, <1>6
  <1> QED BY <1>2, <1>7

LEMMA Nearer ==
  ASSUME NEW after \in Nat, NEW before \in Nat, NEW old \in Int, NEW new \in Int,
         after + (old - new) <= before, before < old
  PROVE  after < new
OBVIOUS

\* The loop goes on with the frame nearer, or returns it.
LEMMA LoopInTime ==
  ASSUME TypeOK, SeekInv, OrderInv, LooksFor, Scanned, Loop,
         NEW pts \in TimesOf(movie), FrameOf(pts, framenumber),
         Cost(pts) < bailout
  PROVE  \/ pc' = "reading" /\ CostOf(movie, dec', pos', pts) < bailout'
         \/ pc' = "idle" /\ result' = 0
  <1>0. /\ movie \in Movies /\ movie.bad = {} /\ Orderly(movie) /\ DecoderHolds
        /\ movie.drains /\ pc = "reading" /\ bailout \in Int
        /\ dec \subseteq TimesOf(movie) /\ pos \in 1 .. Len(movie.pts) + 1
        /\ Cardinality(dec) <= movie.delay
    BY DEF TypeOK, Scanned, Regular, Clean, OrderInv, DecoderHolds, TimesOf,
           Loop, ReadDecode, AtEnd, PassOver, Drain, DrainAt, BailOut
  <1>1. pts \in Upcoming
    BY <1>0 DEF LooksFor, Scanned
  <1>2. Cost(pts) \in Nat /\ bailout > 0
    <2>1. pts \in Ahead(movie, dec, pos)
      BY <1>1 DEF Ahead, Upcoming
    <2>2. Cost(pts) \in Nat
      BY <1>0, <2>1, CostBound DEF Cost
    <2> QED BY <1>0, <2>2
  <1>i. bailout' \in Int /\ dec' \subseteq TimesOf(movie)
        /\ pos' \in 1 .. Len(movie.pts) + 1 /\ Cardinality(dec') <= movie.delay
        /\ Upcoming' = Ahead(movie, dec', pos')
    <2>1. [Next]_vars
      BY DEF Next
    <2>2. movie' = movie
      BY <2>1, TableStays DEF optVars
    <2>3. TypeOK' /\ DecoderHolds'
      BY <1>0, <2>1, SeekStep, TypeStep, HoldsStep
    <2>4. bailout' \in Int
      <3>1. bailout' \in -1 .. Bailout'
        BY <2>3 DEF TypeOK
      <3> QED BY <3>1
    <2>5. dec' \subseteq TimesOf(movie) /\ pos' \in 1 .. Len(movie.pts) + 1
      BY <2>2, <2>3 DEF TypeOK, TimesOf, Packets
    <2>6. Cardinality(dec') <= movie.delay
      BY <2>2, <2>3 DEF DecoderHolds
    <2> QED BY <2>2, <2>4, <2>5, <2>6 DEF Upcoming, Ahead, From
  <1>c. pts \in Upcoming' => CostOf(movie, dec', pos', pts) \in Nat
    BY <1>0, <1>i, CostBound
  <1>3. CASE /\ UNCHANGED <<pc, result, lastVars, pFrame>> /\ Upcoming' = Upcoming
             /\ \A t \in Upcoming :
                  CostOf(movie, dec', pos', t) + (bailout - bailout') <= Cost(t)
    <2> DEFINE after == CostOf(movie, dec', pos', pts)
               before == Cost(pts)
    <2>1. after + (bailout - bailout') <= before /\ after \in Nat
      BY <1>1, <1>3, <1>c
    <2>2. before < bailout /\ before \in Nat /\ bailout \in Int /\ bailout' \in Int
      BY <1>0, <1>2, <1>i
    <2> HIDE DEF after, before
    <2>3. after < bailout'
      BY <2>1, <2>2, Nearer
    <2> QED BY <1>0, <1>3, <2>3 DEF after
  <1>4. CASE \E first \in Upcoming, left \in {bailout, bailout - 1} :
              /\ \A u \in Upcoming : first <= u
              /\ Upcoming' = Upcoming \ {first}
              /\ GotFrame(first, left)
              /\ \A t \in Upcoming \ {first} :
                   CostOf(movie, dec', pos', t) + (bailout - (left - 1)) <= Cost(t)
    <2>1. PICK first \in Upcoming, left \in {bailout, bailout - 1} :
              /\ \A u \in Upcoming : first <= u
              /\ Upcoming' = Upcoming \ {first}
              /\ GotFrame(first, left)
              /\ \A t \in Upcoming \ {first} :
                   CostOf(movie, dec', pos', t) + (bailout - (left - 1)) <= Cost(t)
      BY <1>4
    <2>2. first \in TimesOf(movie) /\ first <= pts
      BY <1>1, <2>1, UpcomingTimes
    <2> DEFINE ts == fidx[framenumber].timestamp
    <2>3. CASE first + Fuzz < ts
      <3>1. pts # first
        BY <1>0, <2>2, <2>3, EarlyFrame DEF Scanned
      <3>2. pc' = pc /\ bailout' = left - 1
        BY <2>1, <2>3 DEF GotFrame
      <3> DEFINE after == CostOf(movie, dec', pos', pts)
                 before == Cost(pts)
      <3>3. after + (bailout - (left - 1)) <= before /\ after \in Nat
        BY <1>1, <1>c, <2>1, <3>1
      <3>4. before < bailout /\ before \in Nat /\ bailout \in Int
            /\ bailout' \in Int /\ left \in Int
        BY <1>0, <1>2, <1>i
      <3> HIDE DEF after, before
      <3>5. after < bailout'
        BY <3>2, <3>3, <3>4
      <3> QED BY <1>0, <3>2, <3>5 DEF after
    <2>4. CASE ~(first + Fuzz < ts)
      <3>1. first - ts < movie.step
        BY <1>0, <2>2, NotTooLate DEF Scanned
      <3> QED BY <2>1, <2>4, <3>1 DEF GotFrame
    <2> QED BY <2>3, <2>4
  <1> QED BY <1>0, <1>2, <1>3, <1>4, LoopCost

\* Entering the loop: what is between where the demuxer is and the frame of
\* entry k is less than a group.
LEMMA EnterInTime ==
  ASSUME TypeOK, SeekInv, DecoderHolds, Scanned,
         NEW q \in Packets(movie),
         NEW d, d \subseteq TimesOf(movie), Cardinality(d) <= movie.delay,
         NEW p \in 1 .. Len(movie.pts) + 1, movie.pts[q] \in Ahead(movie, d, p),
         Cardinality(Before(Ahead(movie, d, p), movie.pts[q])) + 1
           <= LongestGroup(movie)
  PROVE  CostOf(movie, d, p, movie.pts[q]) < Bailout
  <1> DEFINE n == Cardinality(Before(Ahead(movie, d, p), movie.pts[q]))
             cost == CostOf(movie, d, p, movie.pts[q])
             group == LongestGroup(movie)
             slack == SlackOf(movie)
  <1>0. movie \in Movies /\ seek_threshold \in Nat
    BY DEF TypeOK
  <1>1. cost \in Nat /\ n \in Nat /\ cost <= n + movie.delay + slack
    BY <1>0, CostBound
  <1>2. slack \in Nat /\ movie.delay \in Nat /\ group \in Nat /\ n + 1 <= group
    BY <1>0, SlackFacts, LongestGroupBound
  <1>3. group + movie.delay + slack <= Bailout
    BY DEF Scanned, WithinReach, SlackOf
  <1>4. Bailout \in Int
    BY <1>0 DEF Bailout
  <1> HIDE DEF n, cost, group, slack
  <1>5. cost < Bailout
    BY <1>1, <1>2, <1>3, <1>4
  <1> QED BY <1>5 DEF cost

\* After a seek.
LEMMA SeekInTime ==
  ASSUME TypeOK, SeekInv, DecoderHolds, TableLeads, TableReaches, Scanned,
         NEW k \in 0 .. fcnt - 1, k < movie.frames,
         NEW p \in SeekPositions(movie, fidx[k].seekpts),
         NEW pts \in TimesOf(movie), FrameOf(pts, k)
  PROVE  p # 0 /\ CostOf(movie, {}, p, pts) < Bailout
  <1>0. movie \in Movies
    BY DEF TypeOK
  <1>1. PICK q \in Packets(movie) : pts = movie.pts[q] /\ movie.start + Place[q] = k
    BY DEF FrameOf
  <1>2. p # 0 /\ GroupStart(movie, q) <= p
    BY <1>1 DEF TableReaches
  <1>3. p \in Packets(movie) /\ p \in 1 .. Len(movie.pts) + 1
    BY <1>0, <1>2, SeekPosition, MovieFacts
  <1>4. Ahead(movie, {}, p) = From(movie, p) /\ pts \in From(movie, p)
    BY <1>2, AheadOfSeek DEF Ahead, Scanned
  <1>5. Before(From(movie, p), pts) = {t \in From(movie, p) : t < movie.pts[q]}
    BY <1>1 DEF Before
  <1>6. Cardinality(Before(From(movie, p), pts)) + 1 <= LongestGroup(movie)
    BY <1>0, <1>2, <1>3, <1>5, FewerThanAGroup DEF Scanned, Regular
  <1>7. Cardinality({}) <= movie.delay
    BY <1>0, FS_EmptySet, MovieFacts
  <1> QED BY <1>1, <1>2, <1>3, <1>4, <1>6, <1>7, EnterInTime

\* Going on from the frame decoded last.
LEMMA GoOnInTime ==
  ASSUME TypeOK, SeekInv, DecoderHolds, DecodesInOrder, TableLeads, TableReaches,
         Remembers, Scanned, pc = "idle",
         NEW k \in 0 .. fcnt - 1, k < movie.frames, ~NeedSeek(k),
         last_decoded_pts # fidx[k].timestamp,
         NEW pts \in TimesOf(movie), FrameOf(pts, k)
  PROVE  Cost(pts) < Bailout
  <1>0. /\ movie \in Movies /\ dec \subseteq TimesOf(movie)
        /\ pos \in 1 .. Len(movie.pts) + 1 /\ Cardinality(dec) <= movie.delay
        /\ Orderly(movie) /\ Regular /\ fcnt \in Nat
    BY DEF TypeOK, DecoderHolds, Scanned, Regular, TimesOf
  <1>1. PICK q \in Packets(movie) : pts = movie.pts[q] /\ movie.start + Place[q] = k
    BY DEF FrameOf
  <1>2. /\ last_decoded_pts \in Int /\ last_decoded_pts >= 0
        /\ ~(last_decoded_pts > fidx[k].timestamp)
        /\ \/ k - last_decoded_frameno = 1
           \/ fidx[k].seekpts = fidx[last_decoded_frameno].seekpts
    BY DEF NeedSeek, Nothing, Backwards, TypeOK
  <1>3. /\ last_decoded_frameno \in 0 .. fcnt - 1
        /\ last_decoded_frameno < movie.frames
    BY <1>2 DEF SeekInv, CacheAgrees
  <1>4. PICK r \in Packets(movie) :
          pFrame = movie.pts[r] /\ movie.start + Place[r] = last_decoded_frameno
    BY <1>2 DEF Remembers, FrameOf
  <1>5. Upcoming = After(movie, pFrame) /\ pFrame \in TimesOf(movie)
    BY <1>2 DEF DecodesInOrder
  <1>6. Place \in [Packets(movie) -> 0 .. Len(movie.pts) - 1]
        /\ Numbering(movie, Place)
    BY <1>0, PlaceIsOne DEF Regular
  <1>7. Upcoming = Ahead(movie, dec, pos) /\ pts \in Upcoming
    BY <1>0, AheadOfLast DEF Upcoming, Ahead
  <1> DEFINE S == Before(Upcoming, pts)
  <1>8. 1 <= LongestGroup(movie) /\ LongestGroup(movie) \in Nat
    BY <1>0, LongestGroupBound
  <1>9. CASE k - last_decoded_frameno = 1
    <2>1. S = {}
      <3> SUFFICES ASSUME NEW x \in Packets(movie), pFrame < movie.pts[x],
                          movie.pts[x] < pts
                   PROVE  FALSE
        BY <1>5 DEF Before, After, TimesOf
      <3>1. Place[r] < Place[x] /\ Place[x] < Place[q]
            /\ Place[r] \in Nat /\ Place[x] \in Nat /\ Place[q] \in Nat
        BY <1>0, <1>1, <1>4, <1>6, PlaceOrder
      <3>2. movie.start \in Nat /\ last_decoded_frameno \in Int /\ k \in Int
        BY <1>0, <1>3, MovieFacts
      <3> DEFINE a == Place[r]
                 b == Place[x]
                 c == Place[q]
      <3>3. movie.start + a = last_decoded_frameno /\ movie.start + c = k
            /\ a < b /\ b < c /\ a \in Nat /\ b \in Nat /\ c \in Nat
        BY <1>1, <1>4, <3>1
      <3> HIDE DEF a, b, c
      <3> QED BY <1>9, <3>2, <3>3
    <2>2. Cardinality(S) + 1 <= LongestGroup(movie)
      BY <1>8, <2>1, FS_EmptySet
    <2> HIDE DEF S
    <2> QED BY <1>0, <1>1, <1>7, <2>2, EnterInTime DEF Cost, S
  <1>10. CASE fidx[k].seekpts = fidx[last_decoded_frameno].seekpts
    <2>1. PICK p : p \in SeekPositions(movie, fidx[k].seekpts)
      BY DEF SeekPositions
    <2>2. p # 0 /\ GroupStart(movie, q) <= p
      BY <1>1, <2>1 DEF TableReaches
    <2>3. p \in Packets(movie)
      BY <1>0, <2>1, <2>2, SeekPosition
    <2>4. pFrame \in From(movie, p)
      <3>1. p \in SeekPositions(movie, fidx[last_decoded_frameno].seekpts)
        BY <1>10, <2>1
      <3>2. FrameOf(pFrame, last_decoded_frameno)
        BY <1>2 DEF Remembers
      <3> QED BY <1>0, <1>3, <1>5, <2>2, <3>1, <3>2, AheadOfSeek DEF Scanned
    <2>5. Closed(movie, From(movie, p))
      BY <1>0, <2>1, <2>2, ClosedFromSeek
    <2> DEFINE T == {t \in From(movie, p) : t < movie.pts[q]}
    <2>6. S \subseteq T
      BY <1>1, <1>5, <2>4, <2>5 DEF Before, After, Closed
    <2>7. Cardinality(T) \in Nat /\ Cardinality(T) + 1 <= LongestGroup(movie)
      BY <1>0, <2>2, <2>3, FewerThanAGroup
    <2>8. IsFiniteSet(T)
      <3>1. T \subseteq TimesOf(movie)
        <4>1. p .. Len(movie.pts) \subseteq Packets(movie)
          BY <1>0, <2>3, MovieFacts
        <4> QED BY <4>1 DEF From, TimesOf
      <3> HIDE DEF T
      <3> QED BY <1>0, <3>1, FiniteTimes
    <2>9. Cardinality(S) <= Cardinality(T) /\ Cardinality(S) \in Nat
      <3> HIDE DEF S, T
      <3> QED BY <2>6, <2>8, FS_Subset, FS_CardinalityType
    <2> HIDE DEF T
    <2>10. Cardinality(S) + 1 <= LongestGroup(movie)
      <3> HIDE DEF S
      <3> QED BY <1>8, <2>7, <2>9
    <2> HIDE DEF S
    <2> QED BY <1>0, <1>1, <1>7, <2>10, EnterInTime DEF Cost, S
  <1> QED BY <1>2, <1>9, <1>10

\* Every frame number of the file is that of a frame.
LEMMA FrameExists ==
  ASSUME movie \in Movies, Steady(movie), NEW n \in Int, InFile(n)
  PROVE  \E pts \in TimesOf(movie) : FrameOf(pts, Asked(n))
  <1>1. Place \in [Packets(movie) -> 0 .. Len(movie.pts) - 1]
        /\ Numbering(movie, Place)
    BY PlaceIsOne
  <1>2. Wanted(n) \in 0 .. Len(movie.pts) - 1
    BY DEF InFile
  <1>3. PICK p \in Packets(movie) : Place[p] = Wanted(n)
    BY <1>1, <1>2, PlaceTaken
  <1>4. movie.start + Wanted(n) = Asked(n)
    <2>1. movie.start \in Nat
      BY MovieFacts
    <2> QED BY <2>1 DEF Wanted, Asked
  <1> QED BY <1>3, <1>4 DEF FrameOf, TimesOf

LEMMA ReachInit == Init => ReachInv
  <1> SUFFICES ASSUME Init PROVE ReachInv
    OBVIOUS
  <1>1. TableReaches
    BY TableReachesInit
  <1>2. pc = "idle" /\ request = -1
    BY DEF Init
  <1> QED BY <1>1, <1>2 DEF ReachInv, InTime, Found

LEMMA ReachStep ==
  TypeOK /\ SeekInv /\ OrderInv /\ FrameInv /\ ReachInv /\ [Next]_vars
    => ReachInv'
  <1> SUFFICES ASSUME TypeOK, SeekInv, OrderInv, FrameInv, ReachInv, [Next]_vars
               PROVE  ReachInv'
    OBVIOUS
  <1>0. /\ UNCHANGED <<optVars, tableVars>> /\ movie' = movie /\ Place' = Place
        /\ Bailout' = Bailout /\ movie \in Movies
        /\ want_ignstart' = want_ignstart /\ fcnt' = fcnt
    BY TableStays DEF TypeOK, optVars, tableVars, Place, Bailout
  <1>1. TableReaches'
    BY TableReachesStays DEF ReachInv
  <1>s. Scanned' => Scanned
    BY <1>0 DEF Scanned, Regular, CountsFromStart, WithinReach, optVars
  <1> SUFFICES ASSUME Scanned PROVE InTime' /\ Found'
    BY <1>1, <1>s DEF ReachInv, InTime, Found
  <1>r. /\ Regular /\ Steady(movie) /\ LooksFor /\ Remembers /\ TableLeads
        /\ TableReaches /\ InTime /\ Found /\ DecoderHolds /\ DecodesInOrder
        /\ Orderly(movie) /\ AsksFor
    BY DEF Scanned, Regular, FrameInv, ReachInv, OrderInv
  <1>f. ASSUME NEW n PROVE /\ InFile(n)' => InFile(n)
                           /\ Asked(n)' = Asked(n)
                           /\ \A pts : FrameOf(pts, n)' => FrameOf(pts, n)
    BY <1>0 DEF InFile, Wanted, Inside, Asked, FrameOf
  <1>2. ASSUME NEW n \in 0 .. movie.frames - 1, CallOutside(n)
        PROVE  InTime' /\ Found'
    <2>1. ~Inside(n)
      <3>1. Asked(n) \in Int /\ fcnt \in Int /\ movie.frames \in Int
        <4>1. movie.frames \in Nat /\ movie.start \in Nat /\ fcnt \in Nat
          BY <1>0, MovieFacts DEF TypeOK
        <4> QED BY <4>1 DEF Asked
      <3> QED BY <1>2, <3>1 DEF CallOutside, Inside
    <2>2. request' = n /\ pc' = "idle"
      BY <1>2 DEF CallOutside, FailWith
    <2>3. ~InFile(request)'
      BY <1>0, <2>1, <2>2 DEF InFile, Inside, Asked
    <2> QED BY <2>2, <2>3 DEF InTime, Found
  <1>3. ASSUME NEW n \in 0 .. movie.frames - 1, CallAgain(n)
        PROVE  InTime' /\ Found'
    BY <1>3 DEF CallAgain, InTime, Found
  <1>4. ASSUME NEW n \in 0 .. movie.frames - 1, CallRead(n)
        PROVE  InTime' /\ Found'
    <2> DEFINE k == Asked(n)
    <2>1. k \in 0 .. fcnt - 1 /\ k < movie.frames /\ framenumber' = k
          /\ pc = "idle" /\ last_decoded_pts # fidx[k].timestamp /\ request' = n
      BY <1>4, AskedInside DEF CallRead
    <2>2. ASSUME EnterLoop(k),
                 \A pts \in TimesOf(movie) :
                   FrameOf(pts, k) => CostOf(movie, dec', pos', pts) < Bailout
          PROVE  InTime' /\ Found'
      <3>1. pc' # "idle" /\ bailout' = Bailout
        BY <2>2 DEF EnterLoop
      <3>2. \A pts : FrameOf(pts, framenumber)' => FrameOf(pts, k)
        BY <1>0, <2>1 DEF FrameOf
      <3>3. \A pts : Cost(pts)' = CostOf(movie, dec', pos', pts)
        BY <1>0 DEF Cost
      <3> HIDE DEF k
      <3> QED BY <1>0, <2>2, <3>1, <3>2, <3>3 DEF InTime, Found
    <2>3. CASE ~NeedSeek(k) /\ EnterLoop(k) /\ UNCHANGED <<pos, dec>>
      <3>1. \A pts \in TimesOf(movie) : FrameOf(pts, k) => Cost(pts) < Bailout
        <4> HIDE DEF k
        <4> QED BY <1>r, <2>1, <2>3, GoOnInTime
      <3> QED BY <2>2, <2>3, <3>1 DEF Cost
    <2>4. ASSUME NEW p \in SeekPositions(movie, fidx[k].seekpts),
                 EnterLoop(k), AfterSeek(p)
          PROVE  InTime' /\ Found'
      <3>1. \A pts \in TimesOf(movie) :
              FrameOf(pts, k) => CostOf(movie, {}, p, pts) < Bailout
        <4> HIDE DEF k
        <4> QED BY <1>r, <2>1, <2>4, SeekInTime
      <3> QED BY <2>2, <2>4, <3>1 DEF AfterSeek
    <2>5. ASSUME 0 \in SeekPositions(movie, fidx[k].seekpts), FailWith(-3)
          PROVE  InTime' /\ Found'
      <3>1. ~InFile(n)
        <4> SUFFICES ASSUME InFile(n) PROVE FALSE
          OBVIOUS
        <4>1. PICK pts \in TimesOf(movie) : FrameOf(pts, k)
          BY <1>0, <1>r, FrameExists
        <4> HIDE DEF k
        <4>2. 0 # 0
          BY <1>r, <2>1, <2>5, <4>1, SeekInTime
        <4> QED BY <4>2
      <3>2. ~InFile(request)'
        BY <1>0, <2>1, <3>1 DEF InFile, Wanted, Inside, Asked
      <3> QED BY <2>5, <3>2 DEF FailWith, InTime, Found
    <2> QED BY <1>4, <2>3, <2>4, <2>5 DEF CallRead
  <1>5. CASE Loop
    <2>1. /\ pc = "reading" /\ UNCHANGED <<request, framenumber>>
          /\ framenumber = Asked(request)
      BY <1>5, <1>r DEF Loop, ReadDecode, AtEnd, PassOver, Drain, DrainAt, BailOut,
                        AsksFor
    <2>2. ASSUME NEW pts \in TimesOf(movie), FrameOf(pts, framenumber)
          PROVE  \/ pc' = "reading" /\ CostOf(movie, dec', pos', pts) < bailout'
                 \/ pc' = "idle" /\ result' = 0
      <3>1. Cost(pts) < bailout
        BY <2>1, <2>2, <1>r DEF InTime
      <3> QED BY <1>5, <1>r, <2>2, <3>1, LoopInTime
    <2>3. InTime'
      <3> SUFFICES ASSUME pc' = "reading", NEW pts \in TimesOf(movie),
                          FrameOf(pts, framenumber)'
                   PROVE  Cost(pts)' < bailout'
        BY <1>0 DEF InTime
      <3>1. FrameOf(pts, framenumber)
        BY <1>0, <2>1 DEF FrameOf
      <3>2. CostOf(movie, dec', pos', pts) < bailout'
        BY <2>2, <3>1
      <3> QED BY <1>0, <3>2 DEF Cost
    <2>4. Found'
      <3> SUFFICES ASSUME pc' = "idle", InFile(request)', request' >= 0
                   PROVE  result' = 0
        BY DEF Found
      <3>1. InFile(request) /\ request \in Int
        BY <1>0, <2>1 DEF InFile, Wanted, Inside, Asked, TypeOK
      <3>2. PICK pts \in TimesOf(movie) : FrameOf(pts, framenumber)
        BY <1>0, <1>r, <2>1, <3>1, FrameExists
      <3> QED BY <2>2, <3>2
    <2> QED BY <2>3, <2>4
  <1>6. CASE UNCHANGED vars
    <2>1. UNCHANGED <<pc, request, framenumber, bailout, result, dec, pos>>
      BY <1>6 DEF vars, callVars, libVars
    <2>2. InFile(request)' => InFile(request)
      BY <1>0, <2>1 DEF InFile, Wanted, Inside, Asked
    <2>3. \A pts : FrameOf(pts, framenumber)' => FrameOf(pts, framenumber)
      BY <1>0, <2>1 DEF FrameOf
    <2>4. \A pts : Cost(pts)' = Cost(pts)
      BY <1>0, <2>1 DEF Cost
    <2>5. InTime'
      BY <1>0, <1>r, <2>1, <2>3, <2>4 DEF InTime
    <2>6. Found'
      BY <1>0, <1>r, <2>1, <2>2 DEF Found
    <2> QED BY <2>5, <2>6
  <1> QED BY <1>2, <1>3, <1>4, <1>5, <1>6 DEF Next, Call

\* seek_frame finds every frame of the file and within its bailout
\* (xjadeo.c:551-680): in every movie of any length that was scanned without
\* complaint, whose frames are in order and at a constant rate, whose
\* keyframes are on time and whose groups are no longer than the read loop is,
\* a call for one of its frames, made in any state that earlier calls can
\* leave, does not fail.
THEOREM FramesAreFound ==
  Spec => [](Orderly(movie) /\ Steady(movie) /\ Punctual(movie)
               => EveryFrameIsShown)
  <1>1. ReachInv => (Orderly(movie) /\ Steady(movie) /\ Punctual(movie)
                       => EveryFrameIsShown)
    BY DEF ReachInv, Found, EveryFrameIsShown, Scanned, Clean, Regular,
           CountsFromStart
  <1> QED BY <1>1, InitInv, SeekStep, TypeInit, TypeStep, OrderInit, OrderStep,
             FrameInit, FrameStep, ReachInit, ReachStep, PTL DEF Spec

=============================================================================
