----------------------------- MODULE MCSeekFrame -----------------------------
(* Small movies: keyframe distances of 1 to 5, frames out of order, time   *)
(* stamps that are off by rounding, headers that are wrong about the       *)
(* length, and packets that cannot be decoded.                             *)
EXTENDS SeekFrame

Movie(pts, keys, delay, step, frames, start, bad) ==
  [pts |-> pts, key |-> [p \in DOMAIN pts |-> p \in keys], delay |-> delay,
   step |-> step, frames |-> frames, start |-> start, bad |-> bad,
   drains |-> TRUE]

\* The same movie, if the video is not the stream of the last packet.
Undrained(m) == [m EXCEPT !.drains = FALSE]

\* Every choice of keyframes, with and without a decoder delay.
PlainMovies ==
  {Movie([p \in 1 .. 5 |-> p - 1], {1} \cup keys, delay, 1, 5, 0, {}) :
     keys \in SUBSET (2 .. 5), delay \in 0 .. 1}

MCMovies ==
  PlainMovies \cup
  {Undrained(m) : m \in {n \in PlainMovies : n.delay = 1 /\ ~n.key[5]}} \cup
  { Movie(<<0, 2, 1, 3, 5, 4>>, {1, 4}, 1, 1, 6, 0, {}),     \* B-frames
    Movie(<<0, 12, 25, 36, 47>>, {1, 4}, 0, 12, 5, 0, {}),   \* rounding
    Movie(<<0, 1, 2>>, {1, 2, 3}, 0, 1, 3, 0, {}),
    Movie(<<0, 12, 24>>, {1, 2, 3}, 1, 12, 3, 0, {}),
    Movie(<<0, 1, 2, 3>>, {1, 3}, 0, 1, 3, 0, {}),           \* overflow
    Movie(<<0, 1, 2>>, {1, 3}, 0, 1, 5, 0, {}),              \* too short
    Movie(<<2, 3, 4, 5, 6>>, {1, 3}, 0, 1, 5, 2, {}),        \* start offset
    Movie(<<0, 1, 2, 3, 4>>, {1, 4}, 0, 1, 5, 0, {3}),       \* damaged
    Movie(<<0, 1, 2, 3, 4>>, {1, 4}, 2, 1, 5, 0, {5}),
    Movie(<<0, 3, 1, 2, 6, 4, 5>>, {1}, 2, 1, 7, 0, {}),     \* at its reach
    Movie(<<0, 1, 2, 3, 4, 5>>, {1}, 2, 1, 6, 0, {}) }       \* and beyond it

\* What the theorems of SeekFrameProofs ask of a movie.
ASSUME MCMoviesInOrder ==
  \A m \in MCMovies : Orderly(m) /\ Steady(m) /\ Punctual(m)

MCOffsetMovies == { Movie(<<2, 3, 4, 5>>, 1 .. 4, 0, 1, 4, 2, {}) }
=============================================================================
