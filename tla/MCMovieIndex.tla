---------------------------- MODULE MCMovieIndex ----------------------------
(* Three files: "long" has more packets than its header announces, so that *)
(* the index table overflows, "keys" consists of keyframes only, and       *)
(* "short" has fewer packets than announced.                               *)
EXTENDS MovieIndex

MCFiles == {"long", "keys", "short"}
MCPackets == [f \in MCFiles |-> IF f = "long" THEN 2 ELSE 1]
MCFrameCount == [f \in MCFiles |-> IF f = "short" THEN 2 ELSE 1]
MCAllKey == [f \in MCFiles |-> f = "keys"]
MCPositions == 0 .. 1

\* For DispFrameInMovie: a movie with a frame that "keys" does not have.
MCFrameCount3 == [f \in MCFiles |-> IF f = "long" THEN 3 ELSE 1]
MCPositions3 == 0 .. 2
=============================================================================
