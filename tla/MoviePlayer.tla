----------------------------- MODULE MoviePlayer ----------------------------
(***************************************************************************)
(* What a user sees of xjadeo, without its threads: there is a file or     *)
(* none, the file is ready to be shown or not, and there is a picture.     *)
(* MovieIndex implements this with an index thread and a table; a picture  *)
(* is <<f, n>>, frame n of file f, or the empty tuple for no video.        *)
(***************************************************************************)
CONSTANTS Files, NoFile, Positions

VARIABLES file, ready, picture

playerVars == <<file, ready, picture>>

PlayerInit == file = NoFile /\ ready = FALSE /\ picture = <<>>

\* A file is loaded only after the one before was given up, and it is not
\* ready at once.
Load(f) ==
  /\ file = NoFile
  /\ file' = f /\ ready' = FALSE
  /\ UNCHANGED picture

Unload ==
  /\ file' = NoFile /\ ready' = FALSE
  /\ UNCHANGED picture

BecomesReady ==
  /\ file # NoFile
  /\ ready' = TRUE
  /\ UNCHANGED <<file, picture>>

\* The only way to a new picture: a frame of the file that is loaded, once
\* it is ready.
Show(n) ==
  /\ ready
  /\ picture' = <<file, n>>
  /\ UNCHANGED <<file, ready>>

Blank ==
  /\ picture' = <<>>
  /\ UNCHANGED <<file, ready>>

PlayerNext ==
  \/ \E f \in Files : Load(f)
  \/ Unload
  \/ BecomesReady
  \/ \E n \in Positions : Show(n)
  \/ Blank

Safety == PlayerInit /\ [][PlayerNext]_playerVars
=============================================================================
