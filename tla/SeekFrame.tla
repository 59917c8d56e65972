------------------------------ MODULE SeekFrame ------------------------------
(***************************************************************************)
(* Frame-accurate seeking (src/src/xjadeo/xjadeo.c): what index_frames     *)
(* writes into the seek table, and seek_frame, which display_frame calls   *)
(* for every new frame and which remembers what it decoded last.           *)
(*                                                                         *)
(* A movie is a sequence of packets in decoding order; each has a          *)
(* presentation time stamp (pts) and may be a keyframe.  The demuxer and   *)
(* the decoder are libav's: av_seek_frame goes back to a keyframe, and the *)
(* decoder holds delay frames before it returns the one with the smallest  *)
(* pts.  The interleaving with the index thread is in MovieIndex: here the *)
(* scan is over and has succeeded.                                         *)
(***************************************************************************)
EXTENDS Integers, Sequences, FiniteSetsExt

CONSTANTS
  Movies,       \* see the assumption
  ProbeCount,   \* 500 in the code: packets before direct seek mode is chosen
  KeyframeLimit \* keyframe_interval_limit: 100, or set by the user

\* frames is the length that the header announces, start the first frame's
\* number by the time stamps of the header (file_frame_offset), step the time
\* from frame to frame (one_frame), bad the packets that cannot be decoded.
\* drains tells whether the packet that av_read_frame leaves behind when it
\* fails at the end of the file bears the number of the video stream.
ASSUME SeekFrameAssumption ==
  /\ ProbeCount \in Nat \ {0} /\ KeyframeLimit \in Nat \ {0}
  /\ \A m \in Movies :
       /\ m.pts \in Seq(Int) /\ m.key \in [DOMAIN m.pts -> BOOLEAN]
       /\ Len(m.pts) > 0 /\ m.delay \in Nat
       /\ m.frames \in Nat \ {0} /\ m.start \in Nat /\ m.step \in Nat \ {0}
       /\ m.bad \subseteq DOMAIN m.pts /\ m.drains \in BOOLEAN

VARIABLES
  movie,                 \* the movie that is open
  want_noindex,          \* option: no scan, assume keyframes only
  want_ignstart,         \* option: align the start of the file with frame 0
  fcnt,                  \* entries of the seek table
  fidx,                  \* the seek table
  seek_threshold,
  pc,                    \* "idle", "reading" (inside seek_frame) or, after
                         \* an assertion failed, "aborted"
  request,               \* the frame that display_frame was called with
  framenumber,           \* the entry of the seek table that it is looked up in
  bailout,               \* iterations of the read loop that are left
  result,                \* what seek_frame returned
  last_decoded_pts, last_decoded_frameno,
  pos,                   \* demuxer: the packet that av_read_frame returns next
  dec,                   \* decoder: the frames it holds, by pts
  pFrame                 \* pts of the frame that was decoded last, or -1

optVars  == <<movie, want_noindex, want_ignstart>>
tableVars == <<fcnt, fidx, seek_threshold>>
lastVars == <<last_decoded_pts, last_decoded_frameno>>
libVars  == <<pos, dec, pFrame>>
callVars == <<pc, request, framenumber, bailout, result>>

vars == <<optVars, tableVars, callVars, lastVars, libVars>>

Packets(m) == 1 .. Len(m.pts)

\* av_rescale_q (n, fr_Q, tb): the time stamp of the n-th frame.
Rescale(m, n) == n * m.step

\* av_rescale_q (ts, tb, fr_Q): the number of the frame nearest to ts, halfway
\* away from 0.
FrameNear(m, ts) ==
  IF ts >= 0 THEN (2 * ts + m.step) \div (2 * m.step)
             ELSE -((m.step - 2 * ts) \div (2 * m.step))

-----------------------------------------------------------------------------
(* Movies that the seek table is made for.  Nothing in the code asks for    *)
(* this: what seek_frame can promise depends on it.                        *)

\* The frames that are read before packet q and shown after it.
Overtaken(m, q) == {m.pts[p] : p \in {p \in 1 .. q - 1 : m.pts[p] > m.pts[q]}}

\* No two frames have the same time stamp, the decoder holds back as many
\* frames as it has to, and what is read from a keyframe on is shown after
\* what is read before it (closed groups).
Orderly(m) ==
  /\ \A p, q \in Packets(m) : m.pts[p] = m.pts[q] => p = q
  /\ \A q \in Packets(m) : Cardinality(Overtaken(m, q)) <= m.delay
  /\ \A p \in {p \in Packets(m) : m.key[p]} :
       \A q \in 1 .. p - 1, r \in p .. Len(m.pts) : m.pts[q] < m.pts[r]

\* How far a time stamp may be off by rounding: prefuzz in seek_frame.
FuzzOf(m) == IF m.step > 10 THEN 1 ELSE 0

\* How late a packet is, if its frame is the n-th to be shown.
Late(m, p, n) == m.pts[p] - Rescale(m, m.start + n)

\* place numbers the packets in the order in which they are shown, at a
\* constant rate.  The first frame is not early, and frames are early only in
\* a movie that was scanned without complaint.
Numbering(m, place) ==
  /\ \A p, q \in Packets(m) : place[p] = place[q] => p = q
  /\ \A p \in Packets(m) :
       /\ Late(m, p, place[p]) \in -FuzzOf(m) .. FuzzOf(m)
       /\ Late(m, p, place[p]) < 0
            => place[p] > 0 /\ m.bad = {} /\ Len(m.pts) <= m.frames

Steady(m) ==
  \E place \in [Packets(m) -> 0 .. Len(m.pts) - 1] : Numbering(m, place)

-----------------------------------------------------------------------------
(* The libraries.                                                          *)

\* av_seek_frame (ts, AVSEEK_FLAG_BACKWARD) finds the last keyframe that is
\* not behind ts.
KeyframesUpTo(m, ts) == {p \in Packets(m) : m.key[p] /\ m.pts[p] <= ts}

\* Where the demuxer can be after a seek; before the first keyframe it may
\* go to the start of the file or fail (0).
SeekPositions(m, ts) ==
  IF KeyframesUpTo(m, ts) # {} THEN {Max(KeyframesUpTo(m, ts))} ELSE {0, 1}

\* The decoder returns a frame as soon as it holds more than delay of them.
FirstDecoded(m, p) == Min({m.pts[q] : q \in p .. p + m.delay})

-----------------------------------------------------------------------------
(* index_frames.                                                           *)

\* Pass 1 counts the packets since the last keyframe, p included.
KeyframeInterval(m, p) ==
  p - Max({0} \cup {q \in 1 .. p - 1 : m.key[q]})

\* How many packets pass 1 enters into the table, and the longest distance
\* between keyframes among them.
Entered(m) == Min({Len(m.pts), m.frames})
MaxKeyframeInterval(m, n) ==
  Max({0} \cup {KeyframeInterval(m, p) : p \in 1 .. n})

\* Pass 1 stops after ProbeCount packets, or all, when they are keyframes
\* and start where the header says.
ProbedAt(m) == Min({ProbeCount, m.frames})
KeyframesOnly(m) ==
  /\ ProbedAt(m) <= Len(m.pts)
  /\ MaxKeyframeInterval(m, ProbedAt(m)) = 1
  /\ FrameNear(m, m.pts[1]) = m.start

DirectMode(m, noindex) == noindex \/ KeyframesOnly(m)

\* The entries after pass 2 (or instead of it): index table overflow leaves
\* one more entry, which nobody wrote (garbage).
EntryCount(m, noindex) ==
  IF DirectMode(m, noindex) THEN m.frames
  ELSE Entered(m) + (IF Len(m.pts) > m.frames THEN 1 ELSE 0)

\* Pass 2: a keyframe that the file ends too early for is none; one that is
\* not decoded because a packet is bad keeps its initial frame_pts of -1.
Verified(m, i) ==
  LET p == i + 1
      reach == p .. p + m.delay
  IN  [pkt_pts   |-> m.pts[p],
       key       |-> /\ m.key[p]
                     /\ reach \subseteq Packets(m) \/ reach \cap m.bad # {},
       frame_pts |-> IF m.key[p] /\ reach \subseteq Packets(m) \ m.bad
                       THEN FirstDecoded(m, p) ELSE -1,
       timestamp |-> Rescale(m, i)]

\* Direct seek mode; without pass 1 the first packet's pts is still -1.
Computed(m, noindex, i) ==
  LET t == (IF noindex THEN -1 ELSE m.pts[1]) + Rescale(m, i)
  IN  [pkt_pts |-> t, key |-> TRUE, frame_pts |-> t,
       timestamp |-> Rescale(m, m.start + i)]

Entries(m, noindex, garbage) ==
  [i \in 0 .. EntryCount(m, noindex) - 1 |->
     IF DirectMode(m, noindex) THEN Computed(m, noindex, i)
     ELSE IF i < Entered(m) THEN Verified(m, i) ELSE garbage]

\* What pass 3 and seek_frame know of the distance between keyframes.
PassInterval(m, noindex) ==
  IF noindex THEN 0
  ELSE MaxKeyframeInterval(m, IF KeyframesOnly(m) THEN ProbedAt(m)
                                                  ELSE Entered(m))

\* keyframe_lookup_helper: the last keyframe, from entry last down, that does
\* not come out of the decoder after ts; -1 if there is none.
KeyframeLookup(entries, last, ts) ==
  Max({-1} \cup {j \in 0 .. last : entries[j].key /\ entries[j].frame_pts <= ts})

\* Pass 3: the time stamp to seek to, for each entry.
SeekTable(entries, count, interval) ==
  [i \in 0 .. count - 1 |->
     LET kfi == KeyframeLookup(entries, Min({count - 1, i + 2 + interval}),
                               entries[i].timestamp)
     IN  [timestamp |-> entries[i].timestamp,
          seekpts   |-> IF kfi < 0 THEN 0 ELSE entries[kfi].pkt_pts]]

SeekThreshold(interval) == Max({2, interval - 1})

\* What pass 2 may make of an entry that nobody wrote.
Garbage(m) ==
  LET times == {m.pts[p] : p \in Packets(m)}
  IN  [pkt_pts : times, key : BOOLEAN, frame_pts : times, timestamp : {0}]

\* A scan that has succeeded: the table is written, the demuxer rewound.
Init ==
  /\ movie \in Movies
  /\ want_noindex \in BOOLEAN /\ want_ignstart \in BOOLEAN
  /\ fcnt = EntryCount(movie, want_noindex)
  /\ \E garbage \in Garbage(movie) :
       fidx = SeekTable(Entries(movie, want_noindex, garbage), fcnt,
                        PassInterval(movie, want_noindex))
  /\ seek_threshold =
       SeekThreshold(IF want_noindex THEN KeyframeLimit
                                     ELSE PassInterval(movie, want_noindex))
  /\ pc = "idle" /\ request = -1 /\ framenumber = -1 /\ bailout = 0
  /\ result = -1
  /\ last_decoded_pts = -1 /\ last_decoded_frameno = -1
  /\ pos = 1 /\ dec = {} /\ pFrame = -1

-----------------------------------------------------------------------------
(* seek_frame, called by display_frame for a frame of 0 .. frames - 1.     *)

Bailout == 2 * seek_threshold

\* Mutants: the cache survives a failure; only one half of it is cleared.
ForgetDecodedKept == UNCHANGED lastVars
ForgetDecodedHalf == last_decoded_pts' = -1 /\ UNCHANGED last_decoded_frameno

ForgetDecoded == last_decoded_pts' = -1 /\ last_decoded_frameno' = -1

\* seek_frame returns an error, and display_frame clears the image.
FailWith(err) ==
  /\ pc' = "idle" /\ result' = err
  /\ ForgetDecoded

Asked(n) == IF want_ignstart THEN n + movie.start ELSE n

\* Returns before anything is read: outside of the table.
CallOutside(n) ==
  /\ pc = "idle"
  /\ Asked(n) >= fcnt \/ Asked(n) >= movie.frames
  /\ FailWith(-1)
  /\ request' = n /\ framenumber' = Asked(n)
  /\ UNCHANGED <<optVars, tableVars, bailout, libVars>>

Inside(n) == Asked(n) < fcnt /\ Asked(n) < movie.frames

\* The frame is the one that was decoded last.
CallAgain(n) ==
  /\ pc = "idle" /\ Inside(n)
  /\ last_decoded_pts = fidx[Asked(n)].timestamp
  /\ IF last_decoded_frameno = Asked(n)
       THEN pc' = "idle" /\ result' = 0
       ELSE pc' = "aborted" /\ UNCHANGED result
  /\ request' = n /\ framenumber' = Asked(n)
  /\ UNCHANGED <<optVars, tableVars, bailout, lastVars, libVars>>

Nothing == last_decoded_pts < 0 \/ last_decoded_frameno < 0
Backwards(k) == last_decoded_pts > fidx[k].timestamp

\* Mutant: going on is good enough behind the last frame, too.
NeedSeekForward(k) ==
  \/ Nothing
  \/ Backwards(k) /\ fidx[k].seekpts # fidx[last_decoded_frameno].seekpts
  \/ /\ k - last_decoded_frameno # 1
     /\ fidx[k].seekpts # fidx[last_decoded_frameno].seekpts

\* Reading on reaches entry k neither when nothing was decoded, nor when it
\* is behind, nor when another keyframe is nearer.
NeedSeek(k) ==
  \/ Nothing
  \/ Backwards(k)
  \/ /\ k - last_decoded_frameno # 1
     /\ fidx[k].seekpts # fidx[last_decoded_frameno].seekpts

AssertionFails(k) ==
  \/ Nothing /\ ~(last_decoded_pts < 0 /\ last_decoded_frameno < 0)
  \/ ~Nothing /\ Backwards(k) /\ last_decoded_frameno <= k

\* Mutant: the decoder keeps the frames of where it was.
AfterSeekUnflushed(p) == pos' = p /\ UNCHANGED dec

\* The demuxer is at packet p, and avcodec_flush_buffers was called.
AfterSeek(p) == pos' = p /\ dec' = {}

EnterLoop(k) ==
  /\ pc' = IF AssertionFails(k) THEN "aborted" ELSE "reading"
  /\ bailout' = Bailout
  /\ ForgetDecoded /\ UNCHANGED result

\* Seek if necessary, then enter the read loop.
CallRead(n) ==
  LET k == Asked(n) IN
  /\ pc = "idle" /\ Inside(n)
  /\ last_decoded_pts # fidx[k].timestamp
  /\ IF NeedSeek(k)
       THEN \E p \in SeekPositions(movie, fidx[k].seekpts) :
              IF p = 0
                THEN FailWith(-3) /\ dec' = {} /\ UNCHANGED <<pos, bailout>>
                ELSE EnterLoop(k) /\ AfterSeek(p)
       ELSE EnterLoop(k) /\ UNCHANGED <<pos, dec>>
  /\ request' = n /\ framenumber' = k
  /\ UNCHANGED <<optVars, tableVars, pFrame>>

Fuzz == FuzzOf(movie)

\* The decoder returned the frame pts: too early, it, or too late.
GotFrame(pts, left) ==
  LET ts == fidx[framenumber].timestamp IN
  /\ pFrame' = pts
  /\ IF pts + Fuzz < ts
       THEN bailout' = left - 1 /\ UNCHANGED <<pc, result, lastVars>>
       ELSE /\ UNCHANGED bailout
            /\ IF pts - ts < movie.step
                 THEN /\ pc' = "idle" /\ result' = 0
                      /\ last_decoded_pts' = ts
                      /\ last_decoded_frameno' = framenumber
                 ELSE FailWith(-2)

NoFrameYet(left) ==
  /\ bailout' = left - 1
  /\ UNCHANGED <<pc, result, lastVars, pFrame>>

\* One packet is read and decoded; reading or decoding it fails, or it has no
\* time stamp.
ReadDecode ==
  LET held == dec \cup {movie.pts[pos]} IN
  /\ pc = "reading" /\ bailout > 0 /\ pos \in Packets(movie)
  /\ pos' = pos + 1
  /\ IF pos \in movie.bad
       THEN /\ \E err \in {-1, -7, -10} : FailWith(err)
            /\ UNCHANGED <<dec, pFrame, bailout>>
       ELSE IF Cardinality(held) > movie.delay
              THEN GotFrame(Min(held), bailout) /\ dec' = held \ {Min(held)}
              ELSE NoFrameYet(bailout) /\ dec' = held
  /\ UNCHANGED <<optVars, tableVars, request, framenumber>>

AtEnd == pc = "reading" /\ bailout > 0 /\ pos \notin Packets(movie)

\* At the end of the file the packet of the failed read may be passed over,
\* as those of other streams are.
PassOver ==
  /\ AtEnd /\ ~movie.drains
  /\ NoFrameYet(bailout)
  /\ UNCHANGED <<optVars, tableVars, request, framenumber, pos, dec>>

\* Otherwise the decoder is asked for what it still holds.
DrainAt(left) ==
  /\ AtEnd /\ movie.drains
  /\ IF dec # {}
       THEN GotFrame(Min(dec), left) /\ dec' = dec \ {Min(dec)}
       ELSE NoFrameYet(left) /\ UNCHANGED dec
  /\ UNCHANGED <<optVars, tableVars, request, framenumber, pos>>

\* Mutants: the end of the file does not count as an iteration, or twice.
DrainUncounted == DrainAt(bailout + 1)
DrainTwice == DrainAt(bailout - 2)

Drain == DrainAt(bailout - 1)

BailOut ==
  /\ pc = "reading" /\ bailout <= 0
  /\ FailWith(-5)
  /\ UNCHANGED <<optVars, tableVars, request, framenumber, bailout, libVars>>

Call(n) == CallOutside(n) \/ CallAgain(n) \/ CallRead(n)

Loop == ReadDecode \/ PassOver \/ Drain \/ BailOut

\* display_frame asks for any frame of 0 .. frames - 1.
Next == Loop \/ \E n \in 0 .. movie.frames - 1 : Call(n)

\* Once inside the read loop, the main thread goes on.
Spec == Init /\ [][Next]_vars /\ WF_vars(Loop)

-----------------------------------------------------------------------------
\* Ranges of the program's variables; the read loop ends at -1 at the least.
TypeOK ==
  /\ movie \in Movies /\ want_noindex \in BOOLEAN /\ want_ignstart \in BOOLEAN
  /\ fcnt \in Nat /\ seek_threshold \in Nat
  /\ fidx \in [0 .. fcnt - 1 -> [timestamp : Int, seekpts : Int]]
  /\ pc \in {"idle", "reading", "aborted"}
  /\ request \in -1 .. movie.frames - 1 /\ framenumber \in Int
  /\ bailout \in -1 .. Bailout
  /\ result \in {0, -1, -2, -3, -5, -7, -10}
  /\ last_decoded_pts \in Int
  /\ last_decoded_frameno \in -1 .. fcnt - 1
  /\ pos \in 1 .. Len(movie.pts) + 1
  /\ dec \subseteq {movie.pts[p] : p \in Packets(movie)}
  /\ pFrame \in {-1} \cup {movie.pts[p] : p \in Packets(movie)}

-----------------------------------------------------------------------------
(* What a successful seek shows.                                           *)

Times == {movie.pts[p] : p \in Packets(movie)}

\* The place of a frame in the movie.
Rank(pts) == Cardinality({t \in Times : t < pts})

\* The frame that the user expects for transport position n: the time stamps
\* of the file count, unless option -I sets the file's start to 0.
Wanted(n) == IF want_ignstart THEN n ELSE n - movie.start

Succeeded == pc = "idle" /\ result = 0

\* After any history of successful and failed seeks, in any direction, what
\* is shown for a transport position is the frame of that position, not one
\* that was left in the decoder or in the cache (for movies with a start
\* offset: see OffsetIsHonoured).
FrameIsTheOneAsked ==
  Succeeded /\ (movie.start = 0 \/ ~DirectMode(movie, want_noindex))
    => pFrame \in Times /\ Rank(pFrame) = Wanted(request)

\* The cache of the last decoded frame tells the truth: pFrame is that frame,
\* and reading on returns exactly the frames after it.
CacheIsTrue ==
  pc = "idle" /\ last_decoded_pts >= 0 =>
    /\ fidx[last_decoded_frameno].timestamp = last_decoded_pts
    /\ pFrame + Fuzz >= last_decoded_pts
    /\ pFrame < last_decoded_pts + movie.step
    /\ dec \cup {movie.pts[p] : p \in pos .. Len(movie.pts)}
         = {t \in Times : t > pFrame}

\* The assertions of seek_frame hold: its two cache variables agree.
AssertionsHold == pc # "aborted"

InFile(n) == Wanted(n) \in 0 .. Len(movie.pts) - 1 /\ Inside(n)

\* The farthest that the read loop has to go: from a keyframe that pass 2 kept
\* to the last frame before the next one, and through the decoder, which takes
\* two iterations for each frame behind the end of the file.  It is not always
\* within 2 * seek_threshold iterations, since pass 1 does not count the
\* keyframe of the last group and knows nothing of the decoder's delay, and
\* pass 2 drops a keyframe that the end of the file follows too soon.
Kept(m, q) == m.key[q] /\ q + m.delay <= Len(m.pts)
GroupStart(m, p) == Max({1} \cup {q \in 1 .. p : Kept(m, q)})
LongestGroup(m) == Max({p + 1 - GroupStart(m, p) : p \in Packets(m)})
WithinReach ==
  LongestGroup(movie) + movie.delay + Max({0, movie.delay - 1}) <= Bailout

\* The movie begins with a keyframe, and the time stamp that a keyframe is
\* found by is not late.
Punctual(m) ==
  /\ Kept(m, 1)
  /\ \A p \in Packets(m) :
       Kept(m, p) => (IF KeyframesOnly(m) THEN m.pts[p] ELSE FirstDecoded(m, p))
                       <= Rescale(m, m.start + p - 1)

\* A movie that was scanned without complaint can be shown from its first to
\* its last frame, from wherever the decoder is: the seek table never leads
\* behind a frame, nor farther before it than the read loop goes.  Where the
\* end of the file is passed over, the decoder keeps its last frames.
EveryFrameIsShown ==
  /\ movie.bad = {} /\ Len(movie.pts) <= movie.frames /\ ~want_noindex
  /\ WithinReach /\ movie.drains
  /\ movie.start = 0 \/ ~DirectMode(movie, want_noindex)
  /\ pc = "idle" /\ request >= 0 /\ InFile(request)
  => result = 0

\* seek_frame returns.
CallReturns == pc = "reading" ~> pc = "idle"

\* main.c:545 "Per default xjadeo honors offsets specified in the video file
\* header. This option allows one to override (and subtract) this offset".
OffsetIsHonoured == Succeeded => Rank(pFrame) = Wanted(request)
=============================================================================
